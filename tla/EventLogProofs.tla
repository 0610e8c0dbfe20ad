--------------------------- MODULE EventLogProofs ---------------------------
(***************************************************************************)
(* The safety of the write coordinator, for any number of workers,         *)
(* principals, tokens, messages and restarts.                              *)
(***************************************************************************)
EXTENDS EventLog, EventStoreProofs

(* First-order steps go to Zenon; steps with arithmetic name SMT.           *)
USE Zenon

IInv == TypeOK /\ CoordinatorInv

(* The record a refused call keeps.                                        *)
LEMMA NoCallType ==
  /\ NoCall \in Calls
  /\ \A code \in Codes : [NoCall EXCEPT !.code = code] \in Calls
BY SMT DEF NoCall, Calls, Codes

(* The answer a publication prepares.                                      *)
LEMMA PublishAnswer ==
  ASSUME NEW q \in SUBSET (Nat \X Nat), NEW t \in SUBSET Nat,
         NEW k \in SUBSET Credentials
  PROVE  [NoCall EXCEPT !.seqs = q, !.tries = t, !.cred = k] \in Calls
BY DEF NoCall, Calls, Codes

(* What Unlock leaves of an answer.                                        *)
LEMMA UnlockedAnswer ==
  \A a \in Calls : [a EXCEPT !.tries = {}, !.cred = {}] \in Calls
BY DEF Calls

(* The server starts, on new storage, in a state of the invariant.         *)
LEMMA InitIInv == Init => IInv
<1> SUFFICES ASSUME Init PROVE IInv
  OBVIOUS
<1>1. GoodDb(db)
  BY InitialDbGood DEF Init
<1>2. TypeOK
  BY <1>1, NoCallType DEF Init, TypeOK, GoodDb
<1>3. CoordinatorInv
  BY <1>1 DEF Init, CoordinatorInv
<1> QED  BY <1>2, <1>3 DEF IInv

(* Whatever an operation decides under the lock keeps the invariant, if a  *)
(* batch it is going to write is good for the data it has read.            *)
LEMMA DecideIInv ==
  ASSUME IInv, NEW w \in Workers, NEW STATE code, code \in Codes,
         NEW STATE b, NEW STATE answer, answer \in Calls,
         Decide(w, code, b, answer),
         code = "OK" /\ b # EmptyBatch => GoodStep(b, db),
         seen \subseteq seen', seen' \subseteq Credentials
  PROVE  IInv'
<1> USE DEF IInv
<1>1. TypeOK'
  <2>1. pc' \in [Workers -> {"idle", "waiting", "commit", "unlock", "reply"}]
    BY DEF Decide, TypeOK
  <2>0. [NoCall EXCEPT !.code = code, !.tries = answer.tries] \in Calls
    BY DEF NoCall, Calls
  <2>2. call' \in [Workers -> Calls]
    BY <2>0 DEF Decide, TypeOK
  <2>3. \A v \in Workers : v \in lock' <=> pc'[v] \in {"commit", "unlock"}
    BY DEF Decide, TypeOK
  <2>4. lock' \subseteq Workers
    BY DEF Decide
  <2>5. revoked' \subseteq Credentials
    BY DEF Decide, TypeOK
  <2>6. DbTypeOK(db)'
    BY DEF Decide, TypeOK, storage, DbTypeOK, Messages, Channels
  <2> QED  BY <2>1, <2>2, <2>3, <2>4, <2>5, <2>6 DEF Decide, TypeOK
<1>2. db' = db /\ inDoubt' = inDoubt
  BY DEF Decide, storage
<1>3. \A v \in Workers : pc'[v] = "commit" => GoodStep(batch'[v], db)
  BY SMT DEF Decide, TypeOK, CoordinatorInv
<1>4. CoordinatorInv'
  BY <1>2, <1>3 DEF Decide, CoordinatorInv
<1> QED  BY <1>1, <1>4

(* One step of one worker.                                                 *)
LEMMA ServeIInv ==
  ASSUME IInv, NEW w \in Workers, Serve(w)
  PROVE  IInv'
<1> USE NoCallType
<1>0. GoodDb(db) /\ seen \subseteq Credentials
  BY DEF IInv, TypeOK, CoordinatorInv
<1>1. CASE SnapshotFails(w)
  BY <1>0, <1>1, DecideIInv DEF SnapshotFails, Codes
<1>2. CASE AllocateUuids(w)
  <2>1. PICK count \in 1..kMaxUuidBatch :
          /\ Decide(w, "OK", AllocateUuidsBatch(db, count),
                    [NoCall EXCEPT !.uuids = GetNextUuid(db)..(GetNextUuid(db) + count - 1)])
          /\ seen' = seen
    BY <1>2 DEF AllocateUuids
  <2>2. count \in Nat /\ GetNextUuid(db) \in Nat
    BY <1>0, BoundsAssumption, SMT DEF GoodDb, DbTypeOK, GetNextUuid, MetaKeys
  <2>3. GoodStep(AllocateUuidsBatch(db, count), db)
    BY <1>0, <2>2, AllocateUuidsGood
  <2>4. [NoCall EXCEPT !.uuids = GetNextUuid(db)..(GetNextUuid(db) + count - 1)] \in Calls
    BY <2>2, SMTT(30) DEF NoCall, Calls, Codes
  <2> QED  BY <1>0, <2>1, <2>3, <2>4, DecideIInv DEF Codes
<1>3. CASE GetSeqByUuid(w)
  <2>1. PICK u \in 0..MaxUuid :
          /\ Decide(w, Check(u \in DOMAIN db.uuid, "NOT_FOUND"), EmptyBatch,
                    [NoCall EXCEPT !.seqs =
                       IF u \in DOMAIN db.uuid THEN {<<u, db.uuid[u]>>} ELSE {}])
          /\ seen' = seen
    BY <1>3 DEF GetSeqByUuid
  <2>2. u \in Nat /\ (u \in DOMAIN db.uuid => db.uuid[u] \in Nat)
    BY <1>0, BoundsAssumption, SMT DEF GoodDb, DbTypeOK
  <2>3. [NoCall EXCEPT !.seqs =
           IF u \in DOMAIN db.uuid THEN {<<u, db.uuid[u]>>} ELSE {}] \in Calls
    BY <2>2, SMT DEF NoCall, Calls, Codes
  <2> QED  BY <1>0, <2>1, <2>3, DecideIInv DEF Codes, Check
<1>4. ASSUME NEW r \in PublishRequests, NEW s \in Nat, NEW STATE seqStatus,
             seqStatus \in {"OK", "ABORTED"},
             seqStatus = "OK" => s = GetMaxSeq(db) + 1,
             DecidePublish(w, r, s, seqStatus)
      PROVE  IInv'
  <2> DEFINE status == PublishStatus(db, r, seqStatus)
             b == BuildPublishBatch(r.cred[1], r.channel, s, r.uuid, r.recipients)
             answer == [NoCall EXCEPT !.seqs = {<<r.uuid, s>>},
                                      !.tries = {r.uuid}, !.cred = {r.cred}]
  <2>1. /\ r.cred \in Credentials /\ r.cred[1] \in Principals
        /\ r.uuid \in Nat /\ r.recipients \in SUBSET Principals
    BY BoundsAssumption, SMT DEF PublishRequests, Credentials
  <2>2. status \in Codes
    BY <1>4, ZenonT(60) DEF PublishStatus, Unless, Authenticate, ValidateAvailableUuid,
                ValidatePublishTarget, Check, ??, Codes
  <2>3. answer \in Calls
    <3>1. {<<r.uuid, s>>} \in SUBSET (Nat \X Nat)
      BY <1>4, <2>1, SMT
    <3>2. {r.uuid} \in SUBSET Nat /\ {r.cred} \in SUBSET Credentials
      BY <2>1
    <3> QED  BY <3>1, <3>2, PublishAnswer
  <2>4. ASSUME status = "OK"  PROVE GoodStep(b, db)
    <3>1. seqStatus = "OK"
      BY <2>4 DEF PublishStatus, ??
    <3>2. ValidateAvailableUuid(db, r.uuid) = "OK"
      BY <2>4 DEF PublishStatus, ??
    <3>3. ValidatePublishTarget(db, r.cred[1], r.channel, r.recipients) = "OK"
      BY <2>4 DEF PublishStatus, ??
    <3> QED  BY <1>0, <1>4, <2>1, <3>1, <3>2, <3>3, PublishGood
  <2>5. Decide(w, status, b, answer) /\ seen' = seen
    BY <1>4 DEF DecidePublish
  <2> HIDE DEF status, b, answer
  <2> QED  BY <1>0, <2>2, <2>3, <2>4, <2>5, DecideIInv
<1>5. CASE Publish(w)
  <2>1. PICK r \in PublishRequests, s \in {GetMaxSeq(db), GetMaxSeq(db) + 1} :
          DecidePublish(w, r, s, Check(s = GetMaxSeq(db) + 1, "ABORTED"))
    BY <1>5 DEF Publish
  <2>2. s \in Nat
    BY <1>0, <2>1, SMT DEF GoodDb, DbTypeOK, GetMaxSeq, MetaKeys
  <2>3. Check(s = GetMaxSeq(db) + 1, "ABORTED") \in {"OK", "ABORTED"}
    BY DEF Check
  <2>4. Check(s = GetMaxSeq(db) + 1, "ABORTED") = "OK" => s = GetMaxSeq(db) + 1
    BY DEF Check
  <2> QED  BY <1>4, <2>1, <2>2, <2>3, <2>4
<1>6. CASE PublishAutoSeq(w)
  <2>1. PICK r \in PublishRequests :
          DecidePublish(w, r, GetMaxSeq(db) + 1, "OK")
    BY <1>6 DEF PublishAutoSeq
  <2>2. GetMaxSeq(db) + 1 \in Nat
    BY <1>0, <2>1, SMT DEF GoodDb, DbTypeOK, GetMaxSeq, MetaKeys
  <2> QED  BY <1>4, <2>1, <2>2
<1>7. ASSUME NEW cred \in Credentials, NEW STATE status,
             status \in Codes, NEW STATE b,
             DecideMutation(w, cred, status, b),
             status = "OK" /\ b # EmptyBatch => GoodStep(b, db)
      PROVE  IInv'
  <2>1. Decide(w, Authenticate(db, cred) ?? status, b,
               [NoCall EXCEPT !.cred = {cred}]) /\ seen' = seen
    BY <1>7 DEF DecideMutation
  <2>2. /\ (Authenticate(db, cred) ?? status) \in Codes
        /\ (Authenticate(db, cred) ?? status) = "OK" => status = "OK"
    BY <1>7 DEF Authenticate, ??, Check, Codes
  <2>3. [NoCall EXCEPT !.cred = {cred}] \in Calls
    BY SMT DEF NoCall, Calls, Codes
  <2> QED  BY <1>0, <1>7, <2>1, <2>2, <2>3, DecideIInv
<1>8. CASE CreateChannel(w)
  <2> DEFINE Ch(cred, v, M) ==
               [visibility |-> v, creator |-> cred[1], members |-> M]
  <2>1. PICK cred \in Credentials, v \in VisibilityChoices,
             others \in SUBSET Principals :
          DecideMutation(
            w, cred, Check(Cardinality({cred[1]} \cup others) <= kMaxChannelMembers,
                           "RESOURCE_EXHAUSTED"),
            CreateChannelBatch(db, Ch(cred, v, {cred[1]} \cup others)))
    BY <1>8 DEF CreateChannel
  <2>2. /\ Ch(cred, v, {cred[1]} \cup others) \in Channels
        /\ Ch(cred, v, {cred[1]} \cup others).creator
             \in Ch(cred, v, {cred[1]} \cup others).members
    BY BoundsAssumption DEF Channels, Credentials
  <2>3. Check(Cardinality({cred[1]} \cup others) <= kMaxChannelMembers,
              "RESOURCE_EXHAUSTED") \in Codes
    BY DEF Check, Codes
  <2> HIDE DEF Ch
  <2>4. GoodStep(CreateChannelBatch(db, Ch(cred, v, {cred[1]} \cup others)), db)
    BY <1>0, <2>2, CreateChannelGood
  <2> QED  BY <1>7, <2>1, <2>3, <2>4
<1>9. CASE AddMember(w)
  <2>1. PICK cred \in Credentials, c \in 0..(MaxChannel + 1), q \in Principals :
          DecideMutation(w, cred, ValidateAddMember(db, cred[1], c, q),
                         AddMemberBatch(db, c, q))
    BY <1>9 DEF AddMember
  <2>2. ValidateAddMember(db, cred[1], c, q) \in Codes
    BY DEF ValidateAddMember, ValidateMemberChange, ??, Check, Codes
  <2> QED  BY <1>0, <1>7, <2>1, <2>2, AddMemberGood
<1>10. CASE RemoveMember(w)
  <2>1. PICK cred \in Credentials, c \in 0..(MaxChannel + 1), q \in Principals :
          DecideMutation(w, cred, ValidateRemoveMember(db, cred[1], c, q),
                         IF q \in db.chan[c].members
                         THEN RemoveMemberBatch(db, c, q) ELSE EmptyBatch)
    BY <1>10 DEF RemoveMember
  <2>2. ValidateRemoveMember(db, cred[1], c, q) \in Codes
    BY DEF ValidateRemoveMember, ValidateMemberChange, ??, Check, Codes
  <2> QED  BY <1>0, <1>7, <2>1, <2>2, RemoveMemberGood
<1>11. CASE AddToken(w)
  <2>1. CASE \E cred \in Credentials \ seen :
               /\ Decide(w, "OK", AddTokenBatch(cred), NoCall)
               /\ seen' = seen \cup {cred}
    <3>1. PICK cred \in Credentials \ seen :
            /\ Decide(w, "OK", AddTokenBatch(cred), NoCall)
            /\ seen' = seen \cup {cred}
      BY <2>1
    <3>2. GoodStep(AddTokenBatch(cred), db)
      BY <1>0, AddTokenGood
    <3> QED  BY <1>0, <3>1, <3>2, DecideIInv DEF Codes
  <2>2. CASE Decide(w, "INTERNAL", EmptyBatch, NoCall) /\ seen' = seen
    BY <1>0, <2>2, DecideIInv DEF Codes
  <2> QED  BY <1>11, <2>1, <2>2 DEF AddToken
<1>12. CASE DeleteToken(w)
  <2>1. PICK cred \in Credentials :
          /\ Decide(w, "OK", DeleteTokenBatch(cred),
                    [NoCall EXCEPT !.revokes = {cred}])
          /\ seen' = seen \cup {cred}
    BY <1>12 DEF DeleteToken
  <2>2. GoodStep(DeleteTokenBatch(cred), db)
    BY <1>0, DeleteTokenGood
  <2>3. [NoCall EXCEPT !.revokes = {cred}] \in Calls
    BY SMT DEF NoCall, Calls, Codes
  <2> QED  BY <1>0, <2>1, <2>2, <2>3, DecideIInv DEF Codes
<1> QED
  BY <1>1, <1>2, <1>3, <1>5, <1>6, <1>8, <1>9, <1>10, <1>11, <1>12 DEF Serve

(* A step that leaves data, batches and the in-doubt batch alone, and      *)
(* starts no commit and takes no lock.                                     *)
LEMMA QuietIInv ==
  ASSUME IInv, TypeOK', db' = db, inDoubt' \subseteq inDoubt, batch' = batch,
         lock' \subseteq lock,
         \A v \in Workers : pc'[v] = "commit" => pc[v] = "commit"
  PROVE  IInv'
BY DEF IInv, CoordinatorInv

(* CommitBatch, whatever the outcome of the write: the holder of the lock  *)
(* is the only worker with a batch, so no other batch has become stale.    *)
LEMMA WriteIInv ==
  ASSUME IInv, NEW w \in Workers, WriteSucceeds(w) \/ WriteFails(w)
  PROVE  IInv'
<1>1. /\ TypeOK /\ CoordinatorInv
      /\ pc[w] = "commit"
      /\ pc' = [pc EXCEPT ![w] = "unlock"]
      /\ batch' = [batch EXCEPT ![w] = EmptyBatch]
      /\ lock' = lock /\ up' = up
      /\ issued' = issued /\ acked' = acked /\ seen' = seen /\ revoked' = revoked
  BY DEF IInv, WriteSucceeds, WriteFails, history
<1>2. /\ db' = db \/ db' = Apply(batch[w], db)
      /\ db' # db => inDoubt' = {}
      /\ \A b \in inDoubt' : b \in inDoubt \/ b = batch[w]
  BY DEF WriteSucceeds, WriteFails, storage
<1>3. GoodStep(batch[w], db) /\ GoodDb(db)
  BY <1>1 DEF CoordinatorInv
<1>4. GoodDb(db')
  BY <1>2, <1>3 DEF GoodStep
<1>5. \A v \in Workers : pc'[v] # "commit"
  BY <1>1 DEF TypeOK, CoordinatorInv
<1>6. \A b \in inDoubt' : GoodStep(b, db')
  BY <1>1, <1>2, <1>3 DEF CoordinatorInv
<1>7. CoordinatorInv'
  BY <1>1, <1>4, <1>5, <1>6 DEF CoordinatorInv
<1>8. TypeOK'
  <2>1. pc' \in [Workers -> {"idle", "waiting", "commit", "unlock", "reply"}]
    BY <1>1 DEF TypeOK
  <2>2. \A v \in Workers : v \in lock' <=> pc'[v] \in {"commit", "unlock"}
    BY <1>1 DEF TypeOK
  <2>3. call' \in [Workers -> Calls]
    BY <1>1, NoCallType, SMT DEF TypeOK, WriteSucceeds, WriteFails, Codes
  <2>4. DbTypeOK(db')
    BY <1>4 DEF GoodDb
  <2>5. fatal' \in BOOLEAN
    BY <1>1 DEF TypeOK, WriteSucceeds, WriteFails
  <2>6. batch' = [v \in Workers |-> batch'[v]]
    BY <1>1 DEF TypeOK
  <2> QED  BY <1>1, <2>1, <2>2, <2>3, <2>4, <2>5, <2>6 DEF TypeOK
<1> QED  BY <1>7, <1>8 DEF IInv

(* The part of a handler before CommitBatch writes nothing.                *)
LEMMA ServeKeepsData ==
  ASSUME NEW w \in Workers, Serve(w)
  PROVE  db' = db
<1>1. \A code, b, answer : Decide(w, code, b, answer) => db' = db
  BY DEF Decide, storage
<1>2. \A r, s, status : DecidePublish(w, r, s, status) => db' = db
  BY <1>1 DEF DecidePublish
<1>3. \A cred, status, b : DecideMutation(w, cred, status, b) => db' = db
  BY <1>1 DEF DecideMutation
<1>4. SnapshotFails(w) \/ AllocateUuids(w) \/ GetSeqByUuid(w) => db' = db
  BY <1>1 DEF SnapshotFails, AllocateUuids, GetSeqByUuid
<1>5. Publish(w) \/ PublishAutoSeq(w) => db' = db
  BY <1>2 DEF Publish, PublishAutoSeq
<1>6. CreateChannel(w) \/ AddMember(w) \/ RemoveMember(w) => db' = db
  BY <1>3 DEF CreateChannel, AddMember, RemoveMember
<1>7. AddToken(w) \/ DeleteToken(w) => db' = db
  BY <1>1 DEF AddToken, DeleteToken
<1> QED  BY <1>4, <1>5, <1>6, <1>7 DEF Serve

(* Every step keeps the invariant, and extends the committed data.         *)
LEMMA NextIInv ==
  ASSUME IInv, [Next]_vars
  PROVE  IInv' /\ Extends(db, db')
<1>0. TypeOK /\ CoordinatorInv /\ GoodDb(db)
  BY DEF IInv, CoordinatorInv
<1>1. Extends(db, db)
  BY <1>0, SMT DEF Extends, GoodDb, DbTypeOK, GetNextUuid, MetaKeys
<1>2. ASSUME NEW w \in Workers, Enter(w)  PROVE IInv' /\ db' = db
  <2>1. TypeOK'
    BY <1>0, <1>2 DEF TypeOK, Enter, storage, history
  <2> QED  BY <1>0, <1>2, <2>1, QuietIInv DEF TypeOK, Enter, storage
<1>3. ASSUME NEW w \in Workers, Serve(w)  PROVE IInv' /\ db' = db
  <2>1. db' = db
    BY <1>3, ServeKeepsData
  <2> QED  BY <1>3, <2>1, ServeIInv
<1>4. ASSUME NEW w \in Workers, WriteSucceeds(w) \/ WriteFails(w)
      PROVE  IInv' /\ Extends(db, db')
  <2>1. db' = db \/ db' = Apply(batch[w], db)
    BY <1>4 DEF WriteSucceeds, WriteFails, storage
  <2>2. GoodStep(batch[w], db)
    BY <1>0, <1>4 DEF CoordinatorInv, WriteSucceeds, WriteFails
  <2> QED  BY <1>1, <1>4, <2>1, <2>2, WriteIInv DEF GoodStep
<1>5. ASSUME NEW w \in Workers, Unlock(w)  PROVE IInv' /\ db' = db
  <2>1. call' \in [Workers -> Calls]
    <3> DEFINE shown == [call[w] EXCEPT !.tries = {}, !.cred = {}]
    <3>1. shown \in Calls
      <4>1. call[w] \in Calls
        BY <1>0 DEF TypeOK
      <4> QED  BY <4>1, UnlockedAnswer
    <3>2. \/ call' = [call EXCEPT ![w] = shown]
          \/ call' = [call EXCEPT ![w] = NoCall]
      BY <1>0, <1>5 DEF TypeOK, Unlock, Calls
    <3> HIDE DEF shown
    <3> QED  BY <1>0, <3>1, <3>2, NoCallType DEF TypeOK
  <2>2. TypeOK'
    BY <1>0, <1>5, <2>1, SMT DEF TypeOK, Unlock, storage, history
  <2> QED  BY <1>0, <1>5, <2>2, QuietIInv, SMT DEF TypeOK, Unlock, storage
<1>6. ASSUME NEW w \in Workers, Reply(w)  PROVE IInv' /\ db' = db
  <2>1. call' \in [Workers -> Calls]
    BY <1>0, <1>6, NoCallType DEF TypeOK, Reply
  <2>2. /\ issued' \subseteq Nat /\ acked' \subseteq Nat \X Nat
        /\ revoked' \subseteq Credentials
    BY <1>0, <1>6 DEF TypeOK, Reply, Calls
  <2>3. TypeOK'
    BY <1>0, <1>6, <2>1, <2>2 DEF TypeOK, Reply, storage
  <2> QED  BY <1>0, <1>6, <2>3, QuietIInv DEF TypeOK, Reply, storage
<1>7. ASSUME Crash  PROVE IInv' /\ Extends(db, db')
  <2>1. db' = db \/ \E b \in inDoubt : db' = Apply(b, db)
    BY <1>7 DEF Crash
  <2>2. GoodDb(db') /\ Extends(db, db')
    BY <1>0, <1>1, <2>1 DEF CoordinatorInv, GoodStep
  <2>3. TypeOK'
    BY <1>0, <1>7, <2>2, NoCallType DEF TypeOK, Crash, GoodDb, history
  <2>4. CoordinatorInv'
    BY <1>7, <2>2 DEF CoordinatorInv, Crash
  <2> QED  BY <2>2, <2>3, <2>4 DEF IInv
<1>8. ASSUME Open  PROVE IInv' /\ db' = db
  <2>1. TypeOK'
    BY <1>0, <1>8 DEF TypeOK, Open, storage, history
  <2> QED  BY <1>8, <2>1, QuietIInv DEF Open, storage
<1>9. CASE UNCHANGED vars
  <2>1. TypeOK'
    BY <1>0, <1>9 DEF TypeOK, vars
  <2>2. db' = db
    BY <1>9 DEF vars
  <2> QED  BY <1>1, <1>9, <2>1, <2>2, QuietIInv DEF vars
<1>10. CASE \E w \in Workers : WorkerStep(w)
  <2>1. PICK w \in Workers : WorkerStep(w)
    BY <1>10
  <2> QED  BY <1>1, <1>2, <1>3, <1>4, <1>5, <1>6, <2>1 DEF WorkerStep
<1> QED  BY <1>1, <1>7, <1>8, <1>9, <1>10 DEF Next

(* The inductive invariant holds in every reachable state.                 *)
THEOREM CoordinatorIsSafe == Spec => []IInv
<1>1. IInv /\ [Next]_vars => IInv'
  BY NextIInv
<1> QED  BY InitIInv, <1>1, PTL DEF Spec

(* Every state has the types of the model, and only the holder of          *)
(* coordinator_mu_ is inside a handler's locked part.                      *)
THEOREM TypesAreKept == Spec => []TypeOK
<1>1. IInv => TypeOK
  BY DEF IInv
<1> QED  BY CoordinatorIsSafe, <1>1, PTL

(* However many workers publish, fail and crash, the log stays dense.      *)
THEOREM LogStaysDense == Spec => []LogIsDense
<1>1. IInv => LogIsDense
  BY DEF IInv, CoordinatorInv, GoodDb, LogIsDense
<1> QED  BY CoordinatorIsSafe, <1>1, PTL

(* No uuid is ever consumed by two messages.                               *)
THEOREM UuidsNameOneMessage == Spec => []UuidNamesOneMessage
<1>1. IInv => UuidNamesOneMessage
  BY DEF IInv, CoordinatorInv, GoodDb, UuidNamesOneMessage
<1> QED  BY CoordinatorIsSafe, <1>1, PTL

(* The server never writes, and no restart ever recovers, data that        *)
(* Validate or a reader would report as StorageCorruption.                 *)
THEOREM StorageReadsBack == Spec => []NothingReadsAsCorrupt
<1>1. IInv => NothingReadsAsCorrupt
  BY DEF IInv, CoordinatorInv, GoodDb, NothingReadsAsCorrupt
<1> QED  BY CoordinatorIsSafe, <1>1, PTL

(* The stored membership is always the replay of the channel's messages.   *)
THEOREM MembershipIsTheReplay == Spec => []MembershipReplays
<1>1. IInv => MembershipReplays
  BY DEF IInv, CoordinatorInv, GoodDb, MembershipReplays
<1> QED  BY CoordinatorIsSafe, <1>1, PTL

(* Every committed user message was admissible at its place in the order.  *)
THEOREM AuthorsAreAdmitted == Spec => []AuthorsWereAdmitted
<1>1. IInv => AuthorsWereAdmitted
  BY DEF IInv, CoordinatorInv, GoodDb, AuthorsWereAdmitted
<1> QED  BY CoordinatorIsSafe, <1>1, PTL

(* No step and no restart changes or loses what is committed.              *)
THEOREM CommitsAreForEver == Spec => CommittedIsImmutable
<1>1. IInv /\ [Next]_vars => [Extends(db, db')]_vars
  BY NextIInv
<1> QED  BY CoordinatorIsSafe, <1>1, PTL DEF Spec, CommittedIsImmutable

-----------------------------------------------------------------------------
(***************************************************************************)
(* What clients are told.  An answer is prepared under the lock, before    *)
(* its batch is written, and given after the lock is released, when other  *)
(* calls may have written again.                                           *)
(***************************************************************************)
(* Batch b is the work of one operation, on exactly the data d, with its   *)
(* checks passed.                                                          *)
Built(b, d) ==
  \/ \E count \in Nat : b = AllocateUuidsBatch(d, count)
  \/ \E cred \in Credentials : b = AddTokenBatch(cred)
  \/ \E cred \in Credentials : b = DeleteTokenBatch(cred)
  \/ \E cred \in d.tokens, c \in Nat, u \in Nat, R \in SUBSET Principals :
       /\ b = BuildPublishBatch(cred[1], c, GetMaxSeq(d) + 1, u, R)
       /\ ValidateAvailableUuid(d, u) = "OK"
       /\ ValidatePublishTarget(d, cred[1], c, R) = "OK"
  \/ \E cred \in d.tokens, ch \in Channels :
       /\ b = CreateChannelBatch(d, ch)
       /\ ch.creator = cred[1] /\ cred[1] \in ch.members
       /\ Cardinality(ch.members) <= kMaxChannelMembers
  \/ \E cred \in d.tokens, c \in Nat, q \in Principals :
       /\ ValidateAddMember(d, cred[1], c, q) = "OK"
       /\ b = AddMemberBatch(d, c, q)
  \/ \E cred \in d.tokens, c \in Nat, q \in Principals :
       /\ ValidateRemoveMember(d, cred[1], c, q) = "OK"
       /\ q \in d.chan[c].members
       /\ b = RemoveMemberBatch(d, c, q)

(* The uuids of U are handed out, and the server has used none itself.     *)
Owned(d, U) ==
  \A u \in U : /\ u < GetNextUuid(d)
               /\ u \in DOMAIN d.uuid => d.log[d.uuid[u]].principal # 0

(* What answer a says is true of d.                                        *)
Kept(d, a) ==
  /\ \A p \in a.seqs : p[1] \in DOMAIN d.uuid /\ d.uuid[p[1]] = p[2]
  /\ Owned(d, a.uuids)
  /\ a.revokes \cap d.tokens = {}

(* Everything that clients have been told.                                 *)
Told == [uuids |-> issued, seqs |-> acked, revokes |-> revoked]

(* Batch b brings back no credential whose end a client was or will be     *)
(* told.                                                                   *)
Fresh(b) ==
  /\ b.addTokens \cap revoked = {}
  /\ \A v \in Workers : pc[v] \in {"unlock", "reply"}
                          => b.addTokens \cap call[v].revokes = {}

(* Answer a is true once its batch b is written to d.                      *)
Delivers(b, d, a) ==
  /\ Built(b, d)
  /\ a.code = "OK"
  /\ Kept(Apply(b, d), a)
  /\ \A u \in a.uuids : GetNextUuid(d) <= u
  /\ a.cred \subseteq d.tokens
  /\ a.tries \subseteq DOMAIN Apply(b, d).uuid

(* What a decided status says about the uuid that was tried.               *)
Outcome(d, code, tries) ==
  \A u \in tries :
    /\ code \in {"OK", "ALREADY_EXISTS"} => u \in DOMAIN d.uuid
    /\ code \in {"ABORTED", "NOT_FOUND", "PERMISSION_DENIED",
                 "RESOURCE_EXHAUSTED"} => u \notin DOMAIN d.uuid

AnswersInv ==
  /\ Kept(db, Told)
  /\ revoked \subseteq seen
  /\ \A w \in Workers :
       /\ call[w].revokes \subseteq seen
       /\ call[w].uuids \cap issued = {}
       /\ pc[w] \in {"idle", "waiting"} => call[w] = NoCall
       /\ pc[w] = "commit" => Delivers(batch[w], db, call[w]) /\ Fresh(batch[w])
       /\ pc[w] \in {"unlock", "reply"} => Kept(db, call[w])
       /\ pc[w] = "unlock" => Outcome(db, call[w].code, call[w].tries)
  /\ \A v, w \in Workers : v # w => call[v].uuids \cap call[w].uuids = {}
  /\ \A b \in inDoubt : Built(b, db) /\ Fresh(b)

(* What was said stays true when another batch is written.                 *)
LEMMA KeptStep ==
  ASSUME NEW d, GoodDb(d), NEW b, GoodStep(b, d), NEW a, Kept(d, a),
         a.uuids \subseteq Nat,
         b.addTokens \cap a.revokes = {}
  PROVE  Kept(Apply(b, d), a)
<1> DEFINE e == Apply(b, d)
<1>1. /\ UuidIndexExact(d) /\ UuidIndexExact(e) /\ Extends(d, e)
      /\ SystemUuidsFresh(d, e) /\ GetNextUuid(d) \in Int /\ GetNextUuid(e) \in Int
  BY SMT DEF GoodDb, GoodStep, DbTypeOK, GetNextUuid, MetaKeys
<1>2. e.tokens = (d.tokens \cup b.addTokens) \ b.delTokens
  BY DEF Apply
<1>3. DOMAIN d.uuid \subseteq Nat /\ DOMAIN e.uuid \subseteq Nat
  BY DEF GoodDb, GoodStep, DbTypeOK
<1> HIDE DEF e
<1>4. \A u \in DOMAIN d.uuid : u \in DOMAIN e.uuid /\ e.uuid[u] = d.uuid[u]
  BY <1>1, SMT DEF UuidIndexExact, Extends
<1>5. Owned(e, a.uuids)
  <2> SUFFICES ASSUME NEW u \in a.uuids
               PROVE  /\ u < GetNextUuid(e)
                      /\ u \in DOMAIN e.uuid => e.log[e.uuid[u]].principal # 0
    BY DEF Owned
  <2>1. /\ u < GetNextUuid(d)
        /\ u \in DOMAIN d.uuid => d.log[d.uuid[u]].principal # 0
    BY DEF Kept, Owned
  <2>2. GetNextUuid(d) <= GetNextUuid(e)
    BY <1>1 DEF Extends
  <2>3. ASSUME u \in DOMAIN e.uuid  PROVE e.log[e.uuid[u]].principal # 0
    <3>1. CASE u \in DOMAIN d.uuid
      BY <1>1, <1>4, <2>1, <3>1, SMT DEF UuidIndexExact, Extends
    <3>2. CASE u \notin DOMAIN d.uuid
      BY <1>1, <2>1, <2>3, <3>2 DEF SystemUuidsFresh
    <3> QED  BY <3>1, <3>2
  <2> QED  BY <1>1, <2>1, <2>2, <2>3, SMT
<1>6. Kept(e, a)
  BY <1>2, <1>4, <1>5 DEF Kept
<1> QED  BY <1>6 DEF e

(* Nothing is promised before the first call.                              *)
LEMMA InitAnswers == Init => AnswersInv
BY SMT DEF Init, AnswersInv, Kept, Owned, Told, NoCall

(* What one operation decides, if its answer is true of the data it read   *)
(* or will be true once its batch is written.                              *)
LEMMA DecideAnswers ==
  ASSUME IInv, AnswersInv, NEW w \in Workers, NEW STATE code, NEW STATE b,
         NEW STATE answer, answer \in Calls, Decide(w, code, b, answer),
         code = "OK" /\ b # EmptyBatch =>
           Delivers(b, db, answer) /\ b.addTokens \cap seen = {},
         code = "OK" /\ b = EmptyBatch =>
           /\ Kept(db, answer) /\ answer.uuids = {} /\ answer.revokes = {}
           /\ answer.tries = {},
         code # "OK" => Outcome(db, code, answer.tries),
         seen \subseteq seen', answer.revokes \subseteq seen'
  PROVE  AnswersInv'
<1>1. /\ TypeOK /\ CoordinatorInv
      /\ \A v \in Workers : pc[v] \notin {"commit", "unlock"}
  BY DEF IInv, TypeOK, Decide
<1>2. /\ db' = db /\ inDoubt' = inDoubt /\ issued' = issued /\ acked' = acked
      /\ revoked' = revoked /\ Told' = Told
  BY DEF Decide, storage, Told
<1> DEFINE refusal == [NoCall EXCEPT !.code = code, !.tries = answer.tries]
<1>3. /\ refusal.code = code /\ refusal.tries = answer.tries
      /\ refusal.uuids = {} /\ refusal.seqs = {} /\ refusal.revokes = {}
  BY DEF NoCall
<1> HIDE DEF refusal
<1>4. /\ call'[w] = IF code = "OK" THEN answer ELSE refusal
      /\ \A v \in Workers \ {w} : /\ call'[v] = call[v] /\ pc'[v] = pc[v]
                                  /\ batch'[v] = batch[v]
      /\ pc'[w] = IF code = "OK" /\ b # EmptyBatch THEN "commit" ELSE "unlock"
      /\ pc'[w] = "commit" => batch'[w] = b
  BY <1>1, SMT DEF Decide, TypeOK, refusal
<1>5. /\ call'[w].revokes \subseteq seen'
      /\ \A u \in call'[w].uuids : GetNextUuid(db) <= u
      /\ pc'[w] = "unlock" =>
           call'[w].revokes = {} /\ Kept(db, call'[w])
             /\ Outcome(db, call'[w].code, call'[w].tries)
  <2>1. CASE code # "OK"
    <3>1. call'[w] = refusal /\ Outcome(db, code, answer.tries)
      BY <1>4, <2>1
    <3> QED  BY <1>3, <3>1 DEF Kept, Owned
  <2>2. CASE code = "OK" /\ b # EmptyBatch
    <3>1. call'[w] = answer /\ pc'[w] = "commit" /\ Delivers(b, db, answer)
      BY <1>4, <2>2
    <3> QED  BY <3>1 DEF Delivers
  <2>3. CASE code = "OK" /\ b = EmptyBatch
    <3>1. /\ call'[w] = answer /\ Kept(db, answer) /\ answer.uuids = {}
          /\ answer.revokes = {} /\ answer.tries = {}
      BY <1>4, <2>3
    <3> QED  BY <3>1 DEF Outcome
  <2> QED  BY <2>1, <2>2, <2>3
<1>6. \A x : (Fresh(x) => Fresh(x)')
             /\ (x.addTokens \cap seen = {} => Fresh(x)')
  BY <1>1, <1>2, <1>4, <1>5 DEF Fresh, AnswersInv
<1>7. \A u \in issued : u < GetNextUuid(db)
  BY DEF AnswersInv, Kept, Owned, Told
<1>8. ASSUME NEW v \in Workers \ {w}
      PROVE  \A u \in call[v].uuids : u < GetNextUuid(db)
  <2>1. pc[v] \in {"idle", "waiting", "reply"}
    BY <1>1 DEF TypeOK
  <2> QED  BY <2>1, SMTT(30) DEF AnswersInv, Kept, Owned, NoCall
<1>9. /\ GetNextUuid(db) \in Int /\ issued \subseteq Nat
      /\ call'[w].uuids \subseteq Nat
      /\ \A v \in Workers : call[v].uuids \subseteq Nat
  BY <1>1, <1>3, <1>4, SMT DEF TypeOK, DbTypeOK, GetNextUuid, MetaKeys, Calls
<1>10. /\ call'[w].uuids \cap issued = {}
       /\ \A v \in Workers \ {w} : call'[w].uuids \cap call[v].uuids = {}
  BY <1>5, <1>7, <1>8, <1>9, SMT
<1>11. ASSUME NEW v \in Workers
       PROVE  /\ call'[v].revokes \subseteq seen'
              /\ call'[v].uuids \cap issued' = {}
              /\ pc'[v] \in {"idle", "waiting"} => call'[v] = NoCall
              /\ pc'[v] \in {"unlock", "reply"} => Kept(db', call'[v])
              /\ pc'[v] = "unlock" => Outcome(db', call'[v].code, call'[v].tries)
  BY <1>1, <1>2, <1>4, <1>5, <1>10 DEF AnswersInv
<1>12. ASSUME NEW v \in Workers, pc'[v] = "commit"
       PROVE  Delivers(batch'[v], db', call'[v]) /\ Fresh(batch[v])'
  <2>1. v = w /\ code = "OK" /\ b # EmptyBatch
    BY <1>1, <1>4, <1>12
  <2>2. batch'[v] = b /\ call'[v] = answer
    BY <1>4, <1>12, <2>1
  <2>3. Delivers(b, db, answer) /\ b.addTokens \cap seen = {}
    BY <2>1
  <2>4. PICK x : x = batch'[v]
    OBVIOUS
  <2>5. Fresh(x)'
    BY <1>6, <2>2, <2>3, <2>4
  <2>6. Fresh(batch[v])'
    BY <2>4, <2>5 DEF Fresh
  <2> QED  BY <1>2, <2>2, <2>3, <2>6
<1>13. \A x \in inDoubt' : Built(x, db') /\ Fresh(x)'
  BY <1>2, <1>6 DEF AnswersInv
<1>14. \A u, v \in Workers : u # v => call'[u].uuids \cap call'[v].uuids = {}
  BY <1>4, <1>10, SMTT(30) DEF AnswersInv
<1>15. Kept(db', Told') /\ revoked' \subseteq seen'
  BY <1>2 DEF AnswersInv
<1> QED  BY <1>11, <1>12, <1>13, <1>14, <1>15 DEF AnswersInv

(* An answer that says nothing is true of any data.                        *)
LEMMA NothingSaid ==
  ASSUME NEW d, NEW a, a.seqs = {}, a.uuids = {}, a.revokes = {}
  PROVE  Kept(d, a)
BY DEF Kept, Owned

(* AllocateUuids returns uuids that nobody has and no message uses.        *)
LEMMA AllocateDelivers ==
  ASSUME NEW d, GoodDb(d), NEW count \in Nat, NEW a, a.code = "OK",
         a.uuids = GetNextUuid(d)..(GetNextUuid(d) + count - 1),
         a.seqs = {}, a.revokes = {}, a.cred = {}, a.tries = {}
  PROVE  Delivers(AllocateUuidsBatch(d, count), d, a)
<1> DEFINE b == AllocateUuidsBatch(d, count)
           n == GetNextUuid(d)
<1>1. /\ n \in Nat /\ d.meta \in [MetaKeys -> Nat]
      /\ d.uuid \in [DOMAIN d.uuid -> Nat]
      /\ \A u \in DOMAIN d.uuid : u < n
  BY DEF GoodDb, DbTypeOK, UuidIndexExact, GetNextUuid, MetaKeys
<1>2. a.uuids = n..(n + count - 1)
  OBVIOUS
<1>3. /\ b.meta = Pair("next_uuid", n + count) /\ b.uuid = NoPairs
  BY DEF AllocateUuidsBatch, EmptyBatch
<1>4. GetNextUuid(Apply(b, d)) = n + count
  <2>1. Put(d.meta, Pair("next_uuid", n + count))["next_uuid"] = n + count
    BY DEF Put, Pair
  <2> QED  BY <1>3, <2>1 DEF Apply, GetNextUuid
<1>5. Apply(b, d).uuid = d.uuid
  BY <1>1, <1>3, PutNothing DEF Apply
<1>6. Built(b, d)
  BY DEF Built
<1> HIDE DEF b, n
<1>7. ASSUME NEW u \in a.uuids
      PROVE  n <= u /\ u < n + count /\ u \notin DOMAIN d.uuid
  <2>1. u \in n..(n + count - 1)
    BY <1>2
  <2>2. u \in Int /\ n <= u /\ u < n + count /\ ~(u < n)
    BY <1>1, <2>1, SMT
  <2> QED  BY <1>1, <2>2
<1>8. Kept(Apply(b, d), a)
  BY <1>2, <1>4, <1>5, <1>7 DEF Kept, Owned
<1>9. Delivers(b, d, a)
  BY <1>2, <1>6, <1>7, <1>8 DEF Delivers, n
<1> QED  BY <1>9 DEF b

(* The status of a refused publication tells what became of its uuid: the  *)
(* uuid is checked before whatever these codes stand for.                  *)
LEMMA PublishOutcome ==
  ASSUME NEW d, NEW r, NEW seqStatus, seqStatus \in {"OK", "ABORTED"},
         NEW code, code = PublishStatus(d, r, seqStatus), code # "OK"
  PROVE  Outcome(d, code, {r.uuid})
<1>1. ValidateAvailableUuid(d, r.uuid) \in {"OK", "INVALID_ARGUMENT", "ALREADY_EXISTS"}
  BY DEF ValidateAvailableUuid, ??, Check
<1>2. CASE ValidateAvailableUuid(d, r.uuid) = "OK"
  <2>1. r.uuid \notin DOMAIN d.uuid
    BY <1>2, SMT DEF ValidateAvailableUuid, ??, Check
  <2>2. code # "ALREADY_EXISTS"
    BY <1>2 DEF PublishStatus, Unless, Authenticate, ValidatePublishTarget,
                ??, Check
  <2> QED  BY <2>1, <2>2 DEF Outcome
<1>3. CASE ValidateAvailableUuid(d, r.uuid) = "INVALID_ARGUMENT"
  BY <1>3 DEF PublishStatus, Unless, Authenticate, ??, Check, Outcome
<1>4. CASE ValidateAvailableUuid(d, r.uuid) = "ALREADY_EXISTS"
  <2>1. r.uuid \in DOMAIN d.uuid
    BY <1>4 DEF ValidateAvailableUuid, ??, Check
  <2>2. code \in {"CANCELLED", "UNAUTHENTICATED", "ALREADY_EXISTS"}
    BY <1>4, ZenonT(60) DEF PublishStatus, Unless, Authenticate, ??, Check
  <2> QED  BY <2>1, <2>2 DEF Outcome
<1> QED  BY <1>1, <1>2, <1>3, <1>4

(* The operations on channels and tokens say nothing about uuids or seqs.  *)
LEMMA MutationAnswers ==
  ASSUME IInv, AnswersInv, NEW w \in Workers, NEW cred \in Credentials,
         NEW STATE status, NEW STATE b, DecideMutation(w, cred, status, b),
         Authenticate(db, cred) = "OK" /\ status = "OK" /\ b # EmptyBatch
           => Built(b, db) /\ b.addTokens = {}
  PROVE  AnswersInv'
<1> DEFINE code == Authenticate(db, cred) ?? status
           answer == [NoCall EXCEPT !.cred = {cred}]
<1>1. Decide(w, code, b, answer) /\ seen' = seen
  BY DEF DecideMutation
<1>2. /\ answer.code = "OK" /\ answer.seqs = {} /\ answer.uuids = {}
      /\ answer.revokes = {} /\ answer.cred = {cred} /\ answer.tries = {}
      /\ answer \in Calls
  BY DEF NoCall, Calls, Codes
<1>3. code = "OK" => Authenticate(db, cred) = "OK" /\ status = "OK"
                       /\ cred \in db.tokens
  BY DEF ??, Authenticate, Check
<1> HIDE DEF code, answer
<1>4. \A d : Kept(d, answer)
  BY <1>2 DEF Kept, Owned
<1>5. code = "OK" /\ b # EmptyBatch =>
        Delivers(b, db, answer) /\ b.addTokens \cap seen = {}
  BY <1>2, <1>3, <1>4 DEF Delivers
<1>6. Outcome(db, code, answer.tries)
  BY <1>2 DEF Outcome
<1> QED  BY <1>1, <1>2, <1>4, <1>5, <1>6, DecideAnswers

(* No batch of a channel operation adds a token.                           *)
LEMMA MutationTokens ==
  ASSUME NEW d, NEW c, NEW ch, NEW kind, NEW who
  PROVE  /\ BuildChannelMutationBatch(d, c, ch, kind, who).addTokens = {}
         /\ CreateChannelBatch(d, ch).addTokens = {}
         /\ \A q : AddMemberBatch(d, c, q).addTokens = {}
         /\ \A q : RemoveMemberBatch(d, c, q).addTokens = {}
<1>1. \A x, y, k, o : BuildChannelMutationBatch(d, x, y, k, o).addTokens = {}
  BY DEF BuildChannelMutationBatch, EmptyBatch
<1>2. CreateChannelBatch(d, ch).addTokens = {}
  BY DEF CreateChannelBatch, BuildChannelMutationBatch, EmptyBatch
<1> QED  BY <1>1, <1>2 DEF AddMemberBatch, RemoveMemberBatch

(* A publication is answered with its seq, or with a status that tells     *)
(* whether its uuid is used.                                               *)
LEMMA PublishAnswers ==
  ASSUME IInv, AnswersInv, NEW w \in Workers,
         NEW r \in PublishRequests, NEW s \in Nat, NEW STATE seqStatus,
         seqStatus \in {"OK", "ABORTED"},
         seqStatus = "OK" => s = GetMaxSeq(db) + 1,
         DecidePublish(w, r, s, seqStatus)
  PROVE  AnswersInv'
<1> DEFINE code == PublishStatus(db, r, seqStatus)
           b == BuildPublishBatch(r.cred[1], r.channel, s, r.uuid, r.recipients)
           answer == [NoCall EXCEPT !.seqs = {<<r.uuid, s>>},
                                    !.tries = {r.uuid}, !.cred = {r.cred}]
<1>1. Decide(w, code, b, answer) /\ seen' = seen
  BY DEF DecidePublish
<1>2. /\ r.cred \in Credentials /\ r.uuid \in Nat /\ r.channel \in Nat
      /\ r.recipients \in SUBSET Principals
  BY BoundsAssumption, SMT DEF PublishRequests
<1>3. /\ answer.code = "OK" /\ answer.uuids = {} /\ answer.seqs = {<<r.uuid, s>>}
      /\ answer.revokes = {} /\ answer.cred = {r.cred} /\ answer.tries = {r.uuid}
  BY DEF NoCall
<1>4. answer \in Calls
  <2>1. {<<r.uuid, s>>} \in SUBSET (Nat \X Nat)
    BY <1>2, SMTT(60)
  <2>2. {r.uuid} \in SUBSET Nat /\ {r.cred} \in SUBSET Credentials
    BY <1>2
  <2> QED  BY <2>1, <2>2, PublishAnswer
<1>5. ASSUME code = "OK"
      PROVE  Delivers(b, db, answer) /\ b # EmptyBatch /\ b.addTokens = {}
  <2>1. /\ seqStatus = "OK"
        /\ ValidateAvailableUuid(db, r.uuid) = "OK"
        /\ Authenticate(db, r.cred) = "OK"
        /\ ValidatePublishTarget(db, r.cred[1], r.channel, r.recipients) = "OK"
    <3>1. seqStatus = "OK"
      BY <1>5, ZenonT(60) DEF PublishStatus, ??
    <3>2. ValidateAvailableUuid(db, r.uuid) = "OK"
      BY <1>5 DEF PublishStatus, ??
    <3>3. Authenticate(db, r.cred) = "OK"
      BY <1>5 DEF PublishStatus, ??
    <3>4. ValidatePublishTarget(db, r.cred[1], r.channel, r.recipients) = "OK"
      BY <1>5 DEF PublishStatus, ??
    <3> QED  BY <3>1, <3>2, <3>3, <3>4
  <2>2. r.cred \in db.tokens /\ s = GetMaxSeq(db) + 1 /\ GoodDb(db)
    BY <2>1 DEF Authenticate, Check, IInv, CoordinatorInv
  <2>3. PICK d, cred, c, u, R, bb :
          /\ d = db /\ cred = r.cred /\ c = r.channel /\ u = r.uuid
          /\ R = r.recipients /\ bb = b
    OBVIOUS
  <2>4. /\ cred \in d.tokens /\ c \in Nat /\ u \in Nat
        /\ R \in SUBSET Principals /\ s = GetMaxSeq(d) + 1
        /\ ValidateAvailableUuid(d, u) = "OK"
        /\ ValidatePublishTarget(d, cred[1], c, R) = "OK"
        /\ bb = BuildPublishBatch(cred[1], c, s, u, R)
    BY <1>2, <2>1, <2>2, <2>3
  <2>5. Built(bb, d)
    BY <2>4 DEF Built
  <2>6. b.uuid = Pair(r.uuid, s) /\ b.addTokens = {}
    BY DEF BuildPublishBatch, EmptyBatch
  <2> HIDE DEF answer, b
  <2>7. /\ Built(b, db) /\ b # EmptyBatch /\ b.addTokens = {}
        /\ r.uuid \in DOMAIN Apply(b, db).uuid
        /\ Apply(b, db).uuid[r.uuid] = s
    <3>1. /\ r.uuid \in DOMAIN Apply(b, db).uuid
          /\ Apply(b, db).uuid[r.uuid] = s
      BY <2>6 DEF Apply, Put, Pair
    <3>2. Built(b, db)
      BY <2>3, <2>5
    <3>3. DOMAIN b.uuid = {r.uuid} /\ DOMAIN EmptyBatch.uuid = {}
      BY <2>6 DEF Pair, EmptyBatch, NoPairs
    <3>4. b # EmptyBatch
      BY <3>3
    <3> QED  BY <2>6, <3>1, <3>2, <3>4
  <2>8. Kept(Apply(b, db), answer)
    <3>1. \A p \in answer.seqs : /\ p[1] \in DOMAIN Apply(b, db).uuid
                                 /\ Apply(b, db).uuid[p[1]] = p[2]
      BY <1>3, <2>7, SMTT(30)
    <3> QED  BY <1>3, <3>1 DEF Kept, Owned
  <2>9. Delivers(b, db, answer)
    BY <1>3, <2>2, <2>7, <2>8 DEF Delivers
  <2> QED  BY <2>7, <2>9
<1>6. code # "OK" => Outcome(db, code, answer.tries)
  <2> HIDE DEF answer
  <2> QED  BY <1>3, PublishOutcome, SMTT(30)
<1> HIDE DEF code, b, answer
<1>7. answer.revokes \subseteq seen'
  BY <1>3
<1> QED  BY <1>1, <1>4, <1>5, <1>6, <1>7, DecideAnswers

(* Every operation prepares answers that are, or will be, true.            *)
LEMMA ServeAnswers ==
  ASSUME IInv, AnswersInv, NEW w \in Workers, Serve(w)
  PROVE  AnswersInv'
<1>0. GoodDb(db)
  BY DEF IInv, CoordinatorInv
<1>1. /\ NoCall \in Calls /\ NoCall.code = "OK" /\ NoCall.seqs = {}
      /\ NoCall.uuids = {} /\ NoCall.revokes = {} /\ NoCall.cred = {}
      /\ NoCall.tries = {}
  BY NoCallType DEF NoCall
<1>2. (\A d : Kept(d, NoCall)) /\ (\A d, code : Outcome(d, code, NoCall.tries))
  BY <1>1 DEF Kept, Owned, Outcome
<1>3. CASE SnapshotFails(w)
  <2>1. Decide(w, "UNAVAILABLE", EmptyBatch, NoCall) /\ seen' = seen
    BY <1>3 DEF SnapshotFails
  <2> QED  BY <1>1, <1>2, <2>1, DecideAnswers
<1>4. CASE AllocateUuids(w)
  <2>1. PICK count \in 1..kMaxUuidBatch :
          /\ Decide(w, "OK", AllocateUuidsBatch(db, count),
                    [NoCall EXCEPT !.uuids = GetNextUuid(db)..(GetNextUuid(db) + count - 1)])
          /\ seen' = seen
    BY <1>4 DEF AllocateUuids
  <2> DEFINE b == AllocateUuidsBatch(db, count)
             U == GetNextUuid(db)..(GetNextUuid(db) + count - 1)
             answer == [NoCall EXCEPT !.uuids = U]
  <2>2. count \in Nat /\ GetNextUuid(db) \in Nat
    <3>1. count \in Nat
      BY BoundsAssumption, SMT
    <3>2. db.meta \in [MetaKeys -> Nat]
      BY <1>0 DEF GoodDb, DbTypeOK
    <3> QED  BY <3>1, <3>2 DEF GetNextUuid, MetaKeys
  <2>3. U \in SUBSET Nat
    BY <2>2, SMT
  <2>4. /\ answer.code = "OK" /\ answer.uuids = U /\ answer.seqs = {}
        /\ answer.revokes = {} /\ answer.cred = {} /\ answer.tries = {}
        /\ answer \in Calls
    <3> HIDE DEF U
    <3> QED  BY <2>3 DEF NoCall, Calls, Codes
  <2>5. Delivers(b, db, answer)
    <3> HIDE DEF answer
    <3> QED  BY <1>0, <2>2, <2>4, AllocateDelivers
  <2>6. b # EmptyBatch /\ b.addTokens = {}
    <3>1. /\ b.meta = Pair("next_uuid", GetNextUuid(db) + count)
          /\ b.addTokens = {}
      BY DEF AllocateUuidsBatch, EmptyBatch
    <3>2. DOMAIN b.meta = {"next_uuid"} /\ DOMAIN EmptyBatch.meta = {}
      BY <3>1 DEF Pair, EmptyBatch, NoPairs
    <3> QED  BY <3>1, <3>2
  <2>7. Decide(w, "OK", b, answer) /\ seen' = seen
    BY <2>1
  <2> HIDE DEF b, answer, U
  <2>8. answer.revokes \subseteq seen'
    BY <2>4
  <2> QED  BY <2>4, <2>5, <2>6, <2>7, <2>8, DecideAnswers
<1>5. CASE GetSeqByUuid(w)
  <2>1. PICK u \in 0..MaxUuid :
          /\ Decide(w, Check(u \in DOMAIN db.uuid, "NOT_FOUND"), EmptyBatch,
                    [NoCall EXCEPT !.seqs =
                       IF u \in DOMAIN db.uuid THEN {<<u, db.uuid[u]>>} ELSE {}])
          /\ seen' = seen
    BY <1>5 DEF GetSeqByUuid
  <2> DEFINE Q == IF u \in DOMAIN db.uuid THEN {<<u, db.uuid[u]>>} ELSE {}
             answer == [NoCall EXCEPT !.seqs = Q]
             code == Check(u \in DOMAIN db.uuid, "NOT_FOUND")
  <2>2. u \in Nat /\ (u \in DOMAIN db.uuid => db.uuid[u] \in Nat)
    <3>1. u \in Nat
      BY BoundsAssumption, SMT
    <3>2. db.uuid \in [DOMAIN db.uuid -> Nat]
      BY <1>0 DEF GoodDb, DbTypeOK
    <3> QED  BY <3>1, <3>2
  <2>3. /\ Q \in SUBSET (Nat \X Nat)
        /\ \A p \in Q : p[1] \in DOMAIN db.uuid /\ db.uuid[p[1]] = p[2]
    BY <2>2, SMT
  <2>4. /\ answer.code = "OK" /\ answer.uuids = {} /\ answer.seqs = Q
        /\ answer.revokes = {} /\ answer.tries = {}
        /\ answer \in Calls
    <3> HIDE DEF Q
    <3> QED  BY <2>3 DEF NoCall, Calls, Codes
  <2>5. Decide(w, code, EmptyBatch, answer) /\ seen' = seen
    BY <2>1
  <2> HIDE DEF answer, code, Q
  <2>6. Kept(db, answer) /\ Outcome(db, code, answer.tries)
    BY <2>3, <2>4 DEF Kept, Owned, Outcome
  <2>7. answer.revokes \subseteq seen'
    BY <2>4
  <2> QED  BY <2>4, <2>5, <2>6, <2>7, DecideAnswers
<1>6. CASE Publish(w)
  <2>1. PICK r \in PublishRequests, s \in {GetMaxSeq(db), GetMaxSeq(db) + 1} :
          DecidePublish(w, r, s, Check(s = GetMaxSeq(db) + 1, "ABORTED"))
    BY <1>6 DEF Publish
  <2>2. s \in Nat
    BY <1>0, <2>1, SMTT(30) DEF GoodDb, DbTypeOK, GetMaxSeq, MetaKeys
  <2>3. /\ Check(s = GetMaxSeq(db) + 1, "ABORTED") \in {"OK", "ABORTED"}
        /\ Check(s = GetMaxSeq(db) + 1, "ABORTED") = "OK" => s = GetMaxSeq(db) + 1
    BY DEF Check
  <2> QED  BY <2>1, <2>2, <2>3, PublishAnswers, SMT
<1>7. CASE PublishAutoSeq(w)
  <2>1. PICK r \in PublishRequests :
          DecidePublish(w, r, GetMaxSeq(db) + 1, "OK")
    BY <1>7 DEF PublishAutoSeq
  <2>2. PICK s \in Nat : s = GetMaxSeq(db) + 1
    BY <1>0, SMTT(60) DEF GoodDb, DbTypeOK, GetMaxSeq, MetaKeys
  <2> QED  BY <2>1, <2>2, PublishAnswers
<1>8. CASE CreateChannel(w)
  <2> DEFINE Ch(cred, v, M) ==
               [visibility |-> v, creator |-> cred[1], members |-> M]
  <2>1. PICK cred \in Credentials, v \in VisibilityChoices,
             others \in SUBSET Principals :
          DecideMutation(
            w, cred, Check(Cardinality({cred[1]} \cup others) <= kMaxChannelMembers,
                           "RESOURCE_EXHAUSTED"),
            CreateChannelBatch(db, Ch(cred, v, {cred[1]} \cup others)))
    BY <1>8 DEF CreateChannel
  <2>2. PICK M : M = {cred[1]} \cup others
    OBVIOUS
  <2>3. /\ Ch(cred, v, M) \in Channels /\ Ch(cred, v, M).creator = cred[1]
        /\ Ch(cred, v, M).members = M /\ cred[1] \in M
    BY <2>2, BoundsAssumption, SMT DEF Channels, Credentials
  <2> HIDE DEF Ch
  <2> DEFINE status == Check(Cardinality(M) <= kMaxChannelMembers,
                             "RESOURCE_EXHAUSTED")
  <2>4. Authenticate(db, cred) = "OK" /\ status = "OK"
          => Built(CreateChannelBatch(db, Ch(cred, v, M)), db)
    BY <2>3 DEF Built, Authenticate, Check
  <2>5. CreateChannelBatch(db, Ch(cred, v, M)).addTokens = {}
    BY MutationTokens
  <2>6. DecideMutation(w, cred, status, CreateChannelBatch(db, Ch(cred, v, M)))
    BY <2>1, <2>2
  <2> QED  BY <2>4, <2>5, <2>6, MutationAnswers
<1>9. CASE AddMember(w)
  <2>1. PICK cred \in Credentials, c \in 0..(MaxChannel + 1), q \in Principals :
          DecideMutation(w, cred, ValidateAddMember(db, cred[1], c, q),
                         AddMemberBatch(db, c, q))
    BY <1>9 DEF AddMember
  <2>2. Authenticate(db, cred) = "OK"
          /\ ValidateAddMember(db, cred[1], c, q) = "OK"
          => Built(AddMemberBatch(db, c, q), db)
    <3>1. c \in Nat
      BY BoundsAssumption, SMT
    <3> QED  BY <3>1 DEF Built, Authenticate, Check
  <2>3. AddMemberBatch(db, c, q).addTokens = {}
    BY MutationTokens
  <2> QED  BY <2>1, <2>2, <2>3, MutationAnswers
<1>10. CASE RemoveMember(w)
  <2>1. PICK cred \in Credentials, c \in 0..(MaxChannel + 1), q \in Principals :
          DecideMutation(w, cred, ValidateRemoveMember(db, cred[1], c, q),
                         IF q \in db.chan[c].members
                         THEN RemoveMemberBatch(db, c, q) ELSE EmptyBatch)
    BY <1>10 DEF RemoveMember
  <2>2. Authenticate(db, cred) = "OK"
          /\ ValidateRemoveMember(db, cred[1], c, q) = "OK"
          /\ q \in db.chan[c].members
          => Built(RemoveMemberBatch(db, c, q), db)
    <3>1. c \in Nat
      BY BoundsAssumption, SMT
    <3> QED  BY <3>1 DEF Built, Authenticate, Check
  <2>3. RemoveMemberBatch(db, c, q).addTokens = {}
    BY MutationTokens
  <2>4. CASE q \in db.chan[c].members
    BY <2>1, <2>2, <2>3, <2>4, MutationAnswers
  <2>5. CASE q \notin db.chan[c].members
    BY <2>1, <2>5, MutationAnswers
  <2> QED  BY <2>4, <2>5
<1>11. CASE AddToken(w)
  <2>1. CASE Decide(w, "INTERNAL", EmptyBatch, NoCall) /\ seen' = seen
    BY <1>1, <1>2, <2>1, DecideAnswers
  <2>2. CASE \E cred \in Credentials \ seen :
               /\ Decide(w, "OK", AddTokenBatch(cred), NoCall)
               /\ seen' = seen \cup {cred}
    <3>1. PICK cred \in Credentials \ seen :
            /\ Decide(w, "OK", AddTokenBatch(cred), NoCall)
            /\ seen' = seen \cup {cred}
      BY <2>2
    <3>2. AddTokenBatch(cred).addTokens \cap seen = {}
      BY DEF AddTokenBatch, EmptyBatch
    <3>3. Built(AddTokenBatch(cred), db)
      BY DEF Built
    <3>4. Delivers(AddTokenBatch(cred), db, NoCall)
      BY <1>1, <1>2, <3>3 DEF Delivers
    <3>5. seen \subseteq seen' /\ NoCall.revokes \subseteq seen'
      BY <1>1, <3>1
    <3> QED  BY <1>1, <1>2, <3>1, <3>2, <3>4, <3>5, DecideAnswers
  <2> QED  BY <1>11, <2>1, <2>2, SMT DEF AddToken
<1>12. CASE DeleteToken(w)
  <2>1. PICK cred \in Credentials :
          /\ Decide(w, "OK", DeleteTokenBatch(cred),
                    [NoCall EXCEPT !.revokes = {cred}])
          /\ seen' = seen \cup {cred}
    BY <1>12 DEF DeleteToken
  <2> DEFINE answer == [NoCall EXCEPT !.revokes = {cred}]
             b == DeleteTokenBatch(cred)
  <2>2. /\ answer.code = "OK" /\ answer.uuids = {} /\ answer.seqs = {}
        /\ answer.revokes = {cred} /\ answer.cred = {} /\ answer.tries = {}
        /\ answer \in Calls
    BY DEF NoCall, Calls, Codes
  <2>3. b.addTokens = {} /\ b.delTokens = {cred} /\ b # EmptyBatch
    <3>1. b.addTokens = {} /\ b.delTokens = {cred} /\ EmptyBatch.delTokens = {}
      BY DEF DeleteTokenBatch, EmptyBatch
    <3> QED  BY <3>1
  <2>4. Built(b, db)
    BY DEF Built
  <2>5. Decide(w, "OK", b, answer)
    BY <2>1
  <2> HIDE DEF answer, b
  <2>6. Kept(Apply(b, db), answer)
    BY <2>2, <2>3, ZenonT(60) DEF Kept, Owned, Apply
  <2>7. Delivers(b, db, answer)
    BY <2>2, <2>4, <2>6 DEF Delivers
  <2>8. seen \subseteq seen' /\ answer.revokes \subseteq seen'
    BY <2>1, <2>2
  <2> QED  BY <2>2, <2>3, <2>5, <2>7, <2>8, DecideAnswers
<1> QED
  BY <1>3, <1>4, <1>5, <1>6, <1>7, <1>8, <1>9, <1>10, <1>11, <1>12 DEF Serve

(* CommitBatch: what was promised for the batch is true once it is         *)
(* written, what clients were told before stays true, and a write that     *)
(* fails promises nothing.                                                 *)
LEMMA WriteAnswers ==
  ASSUME IInv, AnswersInv, NEW w \in Workers, WriteSucceeds(w) \/ WriteFails(w)
  PROVE  AnswersInv'
<1> DEFINE failure == [NoCall EXCEPT !.code = "UNAVAILABLE"]
<1>1. /\ TypeOK /\ GoodDb(db) /\ GoodStep(batch[w], db) /\ pc[w] = "commit"
      /\ Delivers(batch[w], db, call[w]) /\ Fresh(batch[w])
  BY DEF IInv, CoordinatorInv, AnswersInv, WriteSucceeds, WriteFails
<1>2. \A v \in Workers \ {w} : pc[v] \notin {"commit", "unlock"}
  BY <1>1 DEF IInv, TypeOK, CoordinatorInv
<1>3. /\ issued' = issued /\ acked' = acked /\ revoked' = revoked
      /\ seen' = seen /\ Told' = Told
  BY DEF WriteSucceeds, WriteFails, history, Told
<1>4. /\ failure.code = "UNAVAILABLE" /\ failure.uuids = {}
      /\ failure.seqs = {} /\ failure.revokes = {} /\ failure.tries = {}
  BY DEF NoCall
<1> HIDE DEF failure
<1>5. /\ pc'[w] = "unlock"
      /\ \A v \in Workers \ {w} : pc'[v] = pc[v] /\ call'[v] = call[v]
      /\ \/ call'[w] = call[w] /\ db' = Apply(batch[w], db)
         \/ call'[w] = failure
  BY <1>1 DEF TypeOK, WriteSucceeds, WriteFails, failure
<1>6. /\ db' = db \/ db' = Apply(batch[w], db)
      /\ db' # db => inDoubt' = {}
      /\ \A b \in inDoubt' : b \in inDoubt \/ b = batch[w]
  BY DEF WriteSucceeds, WriteFails, storage
<1>7. Kept(db', Told)
  <2>1. Kept(db, Told) /\ Told.uuids \subseteq Nat
          /\ batch[w].addTokens \cap Told.revokes = {}
    BY <1>1 DEF AnswersInv, TypeOK, Told, Fresh
  <2>2. PICK a : a = Told
    OBVIOUS
  <2> QED  BY <1>1, <1>6, <2>1, <2>2, KeptStep
<1>8. ASSUME NEW v \in Workers \ {w}, pc[v] = "reply"
      PROVE  Kept(db', call[v])
  <2>1. Kept(db, call[v]) /\ call[v].uuids \subseteq Nat
          /\ batch[w].addTokens \cap call[v].revokes = {}
    BY <1>1, <1>8 DEF AnswersInv, TypeOK, Calls, Fresh
  <2> QED  BY <1>1, <1>6, <2>1, KeptStep
<1>9. /\ Kept(db', call'[w]) /\ Outcome(db', call'[w].code, call'[w].tries)
      /\ call'[w].revokes \subseteq seen /\ call'[w].uuids \subseteq call[w].uuids
  <2>1. CASE call'[w] = call[w] /\ db' = Apply(batch[w], db)
    <3>1. /\ Kept(db', call'[w]) /\ call'[w].code = "OK"
          /\ call'[w].tries \subseteq DOMAIN (db'.uuid)
      BY <1>1, <2>1 DEF Delivers
    <3>2. Outcome(db', call'[w].code, call'[w].tries)
      BY <3>1 DEF Outcome
    <3>3. call[w].revokes \subseteq seen
      BY DEF AnswersInv
    <3> QED  BY <2>1, <3>1, <3>2, <3>3
  <2>2. CASE call'[w] = failure
    BY <1>4, <2>2 DEF Kept, Owned, Outcome
  <2> QED  BY <1>5, <2>1, <2>2
<1>10. ASSUME NEW b \in inDoubt'
       PROVE  Built(b, db') /\ Fresh(b)'
  <2>1. db' = db /\ call'[w] = failure
    <3>1. WriteSucceeds(w) => inDoubt' = {}
      BY DEF WriteSucceeds
    <3> QED  BY <1>1, <1>6, <1>10, <3>1 DEF WriteFails, TypeOK, failure
  <2>2. Built(b, db) /\ Fresh(b)
    BY <1>1, <1>6, <1>10, ZenonT(60) DEF AnswersInv, Delivers
  <2>3. Fresh(b)'
    BY <1>2, <1>3, <1>4, <1>5, <2>1, <2>2 DEF Fresh
  <2> QED  BY <2>1, <2>2, <2>3
<1>11. ASSUME NEW v \in Workers
       PROVE  /\ call'[v].revokes \subseteq seen'
              /\ call'[v].uuids \cap issued' = {}
              /\ pc'[v] \in {"idle", "waiting"} => call'[v] = NoCall
              /\ pc'[v] # "commit"
              /\ pc'[v] \in {"unlock", "reply"} => Kept(db', call'[v])
              /\ pc'[v] = "unlock" => Outcome(db', call'[v].code, call'[v].tries)
  <2>1. CASE v = w
    BY <1>3, <1>5, <1>9, <2>1, ZenonT(60) DEF AnswersInv
  <2>2. CASE v # w
    BY <1>2, <1>3, <1>5, <1>8, <2>2 DEF AnswersInv
  <2> QED  BY <2>1, <2>2
<1>12. \A u, v \in Workers : u # v => call'[u].uuids \cap call'[v].uuids = {}
  BY <1>5, <1>9, SMT DEF AnswersInv
<1>13. Kept(db', Told') /\ revoked' \subseteq seen'
  BY <1>3, <1>7 DEF AnswersInv
<1> QED  BY <1>10, <1>11, <1>12, <1>13 DEF AnswersInv

(* The end of the lock_guard, the answer, a call that arrives.             *)
LEMMA UnlockAnswers ==
  ASSUME IInv, AnswersInv, NEW w \in Workers, Unlock(w)
  PROVE  AnswersInv'
<1> DEFINE shown == [call[w] EXCEPT !.tries = {}, !.cred = {}]
<1>1. TypeOK /\ pc[w] = "unlock" /\ Kept(db, call[w])
  BY DEF IInv, AnswersInv, Unlock
<1>2. /\ db' = db /\ inDoubt' = inDoubt /\ issued' = issued /\ acked' = acked
      /\ revoked' = revoked /\ seen' = seen /\ Told' = Told /\ batch' = batch
  BY DEF Unlock, history, storage, Told
<1>3. /\ NoCall.uuids = {} /\ NoCall.revokes = {} /\ NoCall.seqs = {}
  BY DEF NoCall
<1>4. /\ shown.uuids = call[w].uuids /\ shown.revokes = call[w].revokes
      /\ shown.seqs = call[w].seqs
  <2>1. call[w] \in Calls
    BY <1>1 DEF TypeOK
  <2> QED  BY <2>1 DEF Calls
<1>5. /\ \A v \in Workers \ {w} : pc'[v] = pc[v] /\ call'[v] = call[v]
      /\ \/ pc'[w] = "reply" /\ call'[w] = shown
         \/ pc'[w] = "idle" /\ call'[w] = NoCall
  BY <1>1 DEF Unlock, TypeOK, Calls
<1> HIDE DEF shown
<1>6. /\ Kept(db, call'[w]) /\ call'[w].uuids \subseteq call[w].uuids
      /\ call'[w].revokes \subseteq call[w].revokes
  BY <1>1, <1>3, <1>4, <1>5, ZenonT(60) DEF Kept, Owned
<1>7. \A b : Fresh(b) => Fresh(b)'
  BY <1>1, <1>2, <1>5, <1>6 DEF Fresh
<1>8. ASSUME NEW v \in Workers
      PROVE  /\ call'[v].revokes \subseteq seen'
             /\ call'[v].uuids \cap issued' = {}
             /\ pc'[v] \in {"idle", "waiting"} => call'[v] = NoCall
             /\ pc'[v] = "commit" => Delivers(batch'[v], db', call'[v])
                                       /\ Fresh(batch[v])'
             /\ pc'[v] \in {"unlock", "reply"} => Kept(db', call'[v])
             /\ pc'[v] = "unlock" => Outcome(db', call'[v].code, call'[v].tries)
  <2>1. CASE v = w
    BY <1>2, <1>5, <1>6, <2>1 DEF AnswersInv
  <2>2. CASE v # w
    <3>1. pc'[v] = "commit" => Fresh(batch[v])'
      <4>1. PICK b : b = batch[v]
        OBVIOUS
      <4>2. pc'[v] = "commit" => Fresh(b)'
        BY <1>5, <1>7, <2>2, <4>1 DEF AnswersInv
      <4>3. batch'[v] = b
        BY <1>2, <4>1
      <4> QED  BY <4>2, <4>3 DEF Fresh
    <3> QED  BY <1>2, <1>5, <2>2, <3>1 DEF AnswersInv
  <2> QED  BY <2>1, <2>2
<1>9. \A u, v \in Workers : u # v => call'[u].uuids \cap call'[v].uuids = {}
  BY <1>5, <1>6, ZenonT(60) DEF AnswersInv
<1>10. \A b \in inDoubt' : Built(b, db') /\ Fresh(b)'
  BY <1>2, <1>7 DEF AnswersInv
<1>11. Kept(db', Told') /\ revoked' \subseteq seen'
  BY <1>2 DEF AnswersInv
<1> QED  BY <1>8, <1>9, <1>10, <1>11 DEF AnswersInv

(* The client has its answer.                                              *)
LEMMA ReplyAnswers ==
  ASSUME IInv, AnswersInv, NEW w \in Workers, Reply(w)
  PROVE  AnswersInv'
<1>1. TypeOK /\ pc[w] = "reply" /\ Kept(db, call[w])
  BY DEF IInv, AnswersInv, Reply
<1>2. /\ db' = db /\ inDoubt' = inDoubt /\ batch' = batch /\ seen' = seen
      /\ issued' = issued \cup call[w].uuids /\ acked' = acked \cup call[w].seqs
      /\ revoked' = revoked \cup call[w].revokes
  BY DEF Reply, storage
<1>3. /\ pc'[w] = "idle" /\ call'[w] = NoCall
      /\ \A v \in Workers \ {w} : pc'[v] = pc[v] /\ call'[v] = call[v]
      /\ NoCall.uuids = {} /\ NoCall.revokes = {}
  BY <1>1 DEF Reply, TypeOK, NoCall
<1>4. Kept(db', Told')
  BY <1>1, <1>2 DEF AnswersInv, Kept, Owned, Told
<1>5. \A b : Fresh(b) => Fresh(b)'
  BY <1>1, <1>2, <1>3 DEF Fresh
<1>6. revoked' \subseteq seen'
  BY <1>2, SMT DEF AnswersInv
<1>7. ASSUME NEW v \in Workers
      PROVE  /\ call'[v].revokes \subseteq seen'
             /\ call'[v].uuids \cap issued' = {}
             /\ pc'[v] \in {"idle", "waiting"} => call'[v] = NoCall
             /\ pc'[v] = "commit" => Delivers(batch'[v], db', call'[v])
                                       /\ Fresh(batch[v])'
             /\ pc'[v] \in {"unlock", "reply"} => Kept(db', call'[v])
             /\ pc'[v] = "unlock" => Outcome(db', call'[v].code, call'[v].tries)
  <2>1. CASE v = w
    BY <1>2, <1>3, <2>1
  <2>2. CASE v # w
    <3>1. pc'[v] = "commit" => Fresh(batch[v])'
      <4>1. PICK b : b = batch[v]
        OBVIOUS
      <4>2. pc'[v] = "commit" => Fresh(b)'
        BY <1>3, <1>5, <2>2, <4>1 DEF AnswersInv
      <4>3. batch'[v] = b
        BY <1>2, <4>1
      <4> QED  BY <4>2, <4>3 DEF Fresh
    <3>2. call'[v].uuids \cap issued' = {}
      BY <1>2, <1>3, <2>2 DEF AnswersInv
    <3> QED  BY <1>2, <1>3, <2>2, <3>1, <3>2 DEF AnswersInv
  <2> QED  BY <2>1, <2>2
<1>8. \A u, v \in Workers : u # v => call'[u].uuids \cap call'[v].uuids = {}
  BY <1>3 DEF AnswersInv
<1>9. \A b \in inDoubt' : Built(b, db') /\ Fresh(b)'
  BY <1>2, <1>5 DEF AnswersInv
<1> QED  BY <1>4, <1>6, <1>7, <1>8, <1>9 DEF AnswersInv

(* A restart, whether or not the WAL still holds the batch in doubt.       *)
LEMMA CrashAnswers ==
  ASSUME IInv, AnswersInv, Crash
  PROVE  AnswersInv'
<1>1. /\ issued' = issued /\ acked' = acked /\ revoked' = revoked
      /\ seen' = seen /\ Told' = Told /\ inDoubt' = {}
  BY DEF Crash, history, Told
<1>2. \A v \in Workers : pc'[v] = "idle" /\ call'[v] = NoCall
  BY DEF Crash
<1>3. NoCall.uuids = {} /\ NoCall.revokes = {}
  BY DEF NoCall
<1>4. Kept(db', Told)
  <2>1. CASE db' = db
    BY <2>1 DEF AnswersInv
  <2>2. CASE \E b \in inDoubt : db' = Apply(b, db)
    <3>1. PICK b \in inDoubt : db' = Apply(b, db)
      BY <2>2
    <3>2. GoodDb(db) /\ GoodStep(b, db)
      BY DEF IInv, CoordinatorInv
    <3>3. /\ Kept(db, Told) /\ Told.uuids \subseteq Nat
          /\ b.addTokens \cap Told.revokes = {}
      BY DEF AnswersInv, Fresh, Told, IInv, TypeOK
    <3>4. PICK a : a = Told
      OBVIOUS
    <3> QED  BY <3>1, <3>2, <3>3, <3>4, KeptStep
  <2> QED  BY <2>1, <2>2 DEF Crash
<1>5. revoked \subseteq seen
  BY DEF AnswersInv
<1> QED  BY <1>1, <1>2, <1>3, <1>4, <1>5 DEF AnswersInv

(* A step that touches neither data nor answers.                           *)
LEMMA QuietAnswers ==
  ASSUME AnswersInv, UNCHANGED <<storage, batch, call, history>>,
         \A v \in Workers : \/ pc'[v] = pc[v]
                            \/ pc[v] = "idle" /\ pc'[v] = "waiting"
  PROVE  AnswersInv'
<1>1. /\ db' = db /\ inDoubt' = inDoubt /\ batch' = batch /\ call' = call
      /\ issued' = issued /\ acked' = acked /\ revoked' = revoked
      /\ seen' = seen /\ Told' = Told
  BY DEF storage, history, Told
<1>2. \A b : Fresh(b) => Fresh(b)'
  BY <1>1 DEF Fresh
<1>3. ASSUME NEW v \in Workers, pc'[v] = "commit"
      PROVE  Fresh(batch[v])'
  <2>1. PICK b : b = batch[v]
    OBVIOUS
  <2>2. Fresh(b)'
    BY <1>2, <1>3, <2>1 DEF AnswersInv
  <2>3. batch'[v] = b
    BY <1>1, <2>1
  <2> QED  BY <2>2, <2>3 DEF Fresh
<1>4. ASSUME NEW v \in Workers
      PROVE  /\ call'[v].revokes \subseteq seen'
             /\ call'[v].uuids \cap issued' = {}
             /\ pc'[v] \in {"idle", "waiting"} => call'[v] = NoCall
             /\ pc'[v] = "commit" => Delivers(batch'[v], db', call'[v])
             /\ pc'[v] \in {"unlock", "reply"} => Kept(db', call'[v])
             /\ pc'[v] = "unlock" => Outcome(db', call'[v].code, call'[v].tries)
  BY <1>1 DEF AnswersInv
<1>5. \A u, v \in Workers : u # v => call'[u].uuids \cap call'[v].uuids = {}
  BY <1>1 DEF AnswersInv
<1>6. \A b \in inDoubt' : Built(b, db') /\ Fresh(b)'
  BY <1>1, <1>2 DEF AnswersInv
<1>7. Kept(db', Told') /\ revoked' \subseteq seen'
  BY <1>1 DEF AnswersInv
<1> QED  BY <1>3, <1>4, <1>5, <1>6, <1>7 DEF AnswersInv

(* Every step keeps what clients have been told true.                      *)
LEMMA NextAnswers ==
  ASSUME IInv, AnswersInv, [Next]_vars
  PROVE  AnswersInv'
<1>1. ASSUME NEW w \in Workers, Enter(w)  PROVE AnswersInv'
  <2>1. \A v \in Workers : \/ pc'[v] = pc[v]
                           \/ pc[v] = "idle" /\ pc'[v] = "waiting"
    BY <1>1 DEF Enter, IInv, TypeOK
  <2> QED  BY <1>1, <2>1, QuietAnswers DEF Enter
<1>2. ASSUME Open  PROVE AnswersInv'
  BY <1>2, QuietAnswers DEF Open
<1>3. CASE UNCHANGED vars
  BY <1>3, QuietAnswers DEF vars, storage, history
<1>4. CASE \E w \in Workers : WorkerStep(w)
  <2>1. PICK w \in Workers : WorkerStep(w)
    BY <1>4
  <2> QED  BY <1>1, <2>1, ServeAnswers, WriteAnswers, UnlockAnswers,
              ReplyAnswers DEF WorkerStep
<1> QED  BY <1>2, <1>3, <1>4, CrashAnswers DEF Next

(* The inductive invariant of what clients are told.                       *)
THEOREM AnswersAreTrue == Spec => [](IInv /\ AnswersInv)
<1>1. IInv /\ AnswersInv /\ [Next]_vars => (IInv /\ AnswersInv)'
  BY NextIInv, NextAnswers
<1> QED  BY InitIInv, InitAnswers, <1>1, PTL DEF Spec

(* A seq returned for a uuid by Publish, PublishAutoSeq or GetSeqByUuid    *)
(* stays the seq of that uuid, through failed writes, crashes and restarts.*)
THEOREM AnsweredSeqsArePermanent == Spec => []AckedIsPermanent
<1>1. AnswersInv => AckedIsPermanent
  BY DEF AnswersInv, Kept, Told, AckedIsPermanent
<1> QED  BY AnswersAreTrue, <1>1, PTL

(* No uuid is returned by two AllocateUuids calls, and none that was       *)
(* returned is used by a system message of BuildChannelMutationBatch.      *)
THEOREM UuidsBelongToOneClient == Spec => []UuidsHaveOneOwner
<1>1. AnswersInv => UuidsHaveOneOwner
  BY DEF AnswersInv, Kept, Owned, Told, UuidsHaveOneOwner
<1> QED  BY AnswersAreTrue, <1>1, PTL

(* The status of a publication tells whether its uuid names a committed    *)
(* message (the order of the checks in Publish and PublishAutoSeq).        *)
THEOREM StatusesAreHonest == Spec => []StatusTellsOutcome
<1>1. AnswersInv => StatusTellsOutcome
  BY DEF AnswersInv, Outcome, StatusTellsOutcome
<1> QED  BY AnswersAreTrue, <1>1, PTL

(* After DeleteToken has returned OK the credential stays absent, and no   *)
(* write under it can commit, not even by a call already past the lock.    *)
THEOREM RevocationIsFinal == Spec => []RevokedIsShutOut
<1>1. AnswersInv => RevokedIsShutOut
  BY DEF AnswersInv, Kept, Told, Delivers, RevokedIsShutOut
<1> QED  BY AnswersAreTrue, <1>1, PTL

(* coordinator_mu_ has one holder, the data is good, and the batch about   *)
(* to be written, or left in the WAL, was built for the data it will meet. *)
THEOREM BatchesMeetTheirData == Spec => []CoordinatorInv
<1>1. IInv => CoordinatorInv
  BY DEF IInv
<1> QED  BY CoordinatorIsSafe, <1>1, PTL

(* A handler says nothing to its client before it replies.                 *)
LEMMA ServeKeepsHistory ==
  ASSUME NEW w \in Workers, Serve(w)
  PROVE  issued' = issued /\ acked' = acked /\ revoked' = revoked
<1> DEFINE Quiet == issued' = issued /\ acked' = acked /\ revoked' = revoked
<1>1. \A code, b, answer : Decide(w, code, b, answer) => Quiet
  BY DEF Decide
<1> HIDE DEF Quiet
<1>2. \A r, s, status : DecidePublish(w, r, s, status) => Quiet
  BY <1>1 DEF DecidePublish
<1>3. \A cred, status, b : DecideMutation(w, cred, status, b) => Quiet
  BY <1>1 DEF DecideMutation
<1>4. SnapshotFails(w) \/ AllocateUuids(w) \/ GetSeqByUuid(w) => Quiet
  BY <1>1 DEF SnapshotFails, AllocateUuids, GetSeqByUuid
<1>5. Publish(w) \/ PublishAutoSeq(w) => Quiet
  BY <1>2 DEF Publish, PublishAutoSeq
<1>6. CreateChannel(w) \/ AddMember(w) \/ RemoveMember(w) => Quiet
  BY <1>3 DEF CreateChannel, AddMember, RemoveMember
<1>7. AddToken(w) \/ DeleteToken(w) => Quiet
  BY <1>1 DEF AddToken, DeleteToken
<1>8. Quiet
  BY <1>4, <1>5, <1>6, <1>7 DEF Serve
<1> QED  BY <1>8 DEF Quiet

(* The three forms of a step of EventLog, as PublicationLog sees it:       *)
(* nothing, one built batch applied (by a write, or by a crash after the   *)
(* batch became durable), or a reply.                                      *)
LEMMA StepForms ==
  ASSUME IInv, AnswersInv, [Next]_vars
  PROVE  \/ UNCHANGED <<db, issued, acked, revoked>>
         \/ /\ UNCHANGED <<issued, acked, revoked>>
            /\ \E b : /\ Built(b, db) /\ b.addTokens \cap revoked = {}
                      /\ db' = Apply(b, db)
         \/ \E w \in Workers : Reply(w)
<1>1. ASSUME NEW w \in Workers, Serve(w)
      PROVE  UNCHANGED <<db, issued, acked, revoked>>
  BY <1>1, ServeKeepsData, ServeKeepsHistory
<1>2. ASSUME NEW w \in Workers, WriteSucceeds(w) \/ WriteFails(w)
      PROVE  /\ UNCHANGED <<issued, acked, revoked>>
             /\ Built(batch[w], db) /\ batch[w].addTokens \cap revoked = {}
             /\ db' = db \/ db' = Apply(batch[w], db)
  BY <1>2 DEF AnswersInv, Delivers, Fresh, WriteSucceeds, WriteFails, storage,
              history
<1>3. ASSUME NEW w \in Workers, Enter(w) \/ Unlock(w)
      PROVE  UNCHANGED <<db, issued, acked, revoked>>
  BY <1>3 DEF Enter, Unlock, storage, history
<1>4. ASSUME Crash
      PROVE  /\ UNCHANGED <<issued, acked, revoked>>
             /\ \/ db' = db
                \/ \E b : /\ Built(b, db) /\ b.addTokens \cap revoked = {}
                          /\ db' = Apply(b, db)
  BY <1>4 DEF Crash, AnswersInv, Fresh, history
<1>5. Open \/ UNCHANGED vars => UNCHANGED <<db, issued, acked, revoked>>
  BY DEF Open, storage, history, vars
<1>6. CASE \E w \in Workers : WorkerStep(w)
  <2>1. PICK w \in Workers : WorkerStep(w)
    BY <1>6
  <2> QED  BY <1>1, <1>2, <1>3, <2>1 DEF WorkerStep
<1> QED  BY <1>4, <1>5, <1>6 DEF Next

=============================================================================
