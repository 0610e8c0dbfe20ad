----------------------------- MODULE EventStore -----------------------------
(***************************************************************************)
(* The durable data of an OpenEvent server and the decisions the core      *)
(* takes on a snapshot of it: src/storage/unified_storage.cpp (records,    *)
(* write batches, validation) and the checks and batch builders of         *)
(* src/service/open_event_core.cpp.  No variables: a snapshot is a value,  *)
(* and every operator takes the snapshot it reads.                         *)
(*                                                                         *)
(* A snapshot d has one field per key family of the RocksDB schema:        *)
(*   d.meta    the counters max_seq, next_uuid and next_channel_id         *)
(*   d.log     message/<seq>  -> message                                   *)
(*   d.uuid    uuid/<uuid>    -> seq                                       *)
(*   d.chan    channel/<id>   -> channel                                   *)
(*   d.tokens  the stored <<principal, token>> pairs                       *)
(* Payload bytes, names and timestamps are abstracted away; of a payload   *)
(* the model keeps its kind and the principals it names (field who).       *)
(***************************************************************************)
EXTENDS Integers, FiniteSets

CONSTANTS
  Principals,        \* the principals that clients act for (uint64, never 0)
  Tokens,            \* the token strings in play
  kMaxChannelMembers \* 1024 in the code

ASSUME PrincipalsAssumption == 0 \notin Principals
ASSUME PrincipalsFiniteAssumption == IsFiniteSet(Principals)
ASSUME MembersBoundAssumption == kMaxChannelMembers \in Nat \ {0}

Credentials == Principals \X Tokens

MetaKeys == {"max_seq", "next_uuid", "next_channel_id"}

Visibilities == {"public", "protected", "private"}

SystemKinds == {"channel_initialized", "member_added", "member_removed"}

Kinds == SystemKinds \cup {"initialization", "user"}

Messages ==
  [channel: Nat, principal: Principals \cup {0}, uuid: Nat,
   recipients: SUBSET Principals, kind: Kinds, who: SUBSET Principals]

Channels ==
  [visibility: Visibilities, creator: Principals, members: SUBSET Principals]

(***************************************************************************)
(* Write batches.  Put(f, g) is what RocksDB holds after the pairs of g    *)
(* are written over f; a batch lists the pairs it puts in each family and  *)
(* the tokens it deletes, and is applied as a whole.                       *)
(***************************************************************************)
Put(f, g) ==
  [x \in DOMAIN f \cup DOMAIN g |-> IF x \in DOMAIN g THEN g[x] ELSE f[x]]

Pair(k, v) == [x \in {k} |-> v]

NoPairs == [x \in {} |-> 0]

EmptyBatch ==
  [meta |-> NoPairs, log |-> NoPairs, uuid |-> NoPairs, chan |-> NoPairs,
   addTokens |-> {}, delTokens |-> {}]

Apply(b, d) ==
  [meta   |-> Put(d.meta, b.meta),
   log    |-> Put(d.log, b.log),
   uuid   |-> Put(d.uuid, b.uuid),
   chan   |-> Put(d.chan, b.chan),
   tokens |-> (d.tokens \cup b.addTokens) \ b.delTokens]

GetMaxSeq(d) == d.meta["max_seq"]

GetNextUuid(d) == d.meta["next_uuid"]

GetNextChannelId(d) == d.meta["next_channel_id"]

(***************************************************************************)
(* What UnifiedStorage::InitializeNew commits in its single batch.         *)
(***************************************************************************)
InitializationMessage ==
  [channel |-> 0, principal |-> 0, uuid |-> 0, recipients |-> {},
   kind |-> "initialization", who |-> {}]

InitialDb ==
  [meta   |-> [k \in MetaKeys |-> IF k = "max_seq" THEN 0 ELSE 1],
   log    |-> Pair(0, InitializationMessage),
   uuid   |-> Pair(0, 0),
   chan   |-> NoPairs,
   tokens |-> {}]

(***************************************************************************)
(* What the storage layer accepts as sound when it reads the data back:    *)
(* Validate when the server opens the storage, ScanMessages for every      *)
(* message it passes to a reader, GetChannel and GetUsedUuidSeq for the    *)
(* records they return.  Anything else is StorageCorruption.               *)
(***************************************************************************)
ValidChannelSystemMessage(m) ==
  /\ m.recipients = {}
  /\ m.kind \in SystemKinds
  /\ m.who # {}

(* The check GetUsedUuidSeq makes of an entry of the uuid index.           *)
ValidUuidMapping(u, s) == u = 0 <=> s = 0

ValidStoredChannel(ch) == ch.creator \in ch.members /\ 0 \notin ch.members

ValidStoredMessage(s, m) ==
  IF s = 0
  THEN m = InitializationMessage
  ELSE /\ m.uuid # 0
       /\ m.channel # 0
       /\ m.principal = 0 => ValidChannelSystemMessage(m)
       /\ 0 \notin m.recipients

(* Its checks of schema_version, which is a constant, and next_object_id,  *)
(* which module ObjectStore keeps, are about keys this database leaves out. *)
Validate(d) ==
  /\ MetaKeys \subseteq DOMAIN d.meta
  /\ GetNextUuid(d) # 0
  /\ GetNextChannelId(d) # 0
  /\ 0 \in DOMAIN d.log /\ ValidStoredMessage(0, d.log[0])
  /\ 0 \in DOMAIN d.uuid /\ d.uuid[0] = 0

(***************************************************************************)
(* The checks of OpenEventCore.  Each returns a gRPC status code; e1 ?? e2 *)
(* is the early return "if (!e1.ok()) return e1; return e2;".              *)
(***************************************************************************)
e1 ?? e2 == IF e1 = "OK" THEN e2 ELSE e1

Check(cond, code) == IF cond THEN "OK" ELSE code

Authenticate(d, cred) == Check(cred \in d.tokens, "UNAUTHENTICATED")

(* Faulty variant: the uuid index is not consulted.                        *)
ForgetsUsedUuids(d, u) ==
  Check(u # 0 /\ u < GetNextUuid(d), "INVALID_ARGUMENT")

ValidateAvailableUuid(d, u) ==
  Check(u # 0 /\ u < GetNextUuid(d), "INVALID_ARGUMENT")
    ?? Check(u \notin DOMAIN d.uuid, "ALREADY_EXISTS")

CanWrite(ch, p) == ch.visibility = "public" \/ p \in ch.members

(* Faulty variant: ValidateRecipients is not called.                       *)
SkipsRecipients(d, p, c, recipients) ==
  Check(c # 0, "PERMISSION_DENIED")
    ?? Check(c \in DOMAIN d.chan, "NOT_FOUND")
    ?? Check(CanWrite(d.chan[c], p), "PERMISSION_DENIED")

(* The part of BuildPublishBatch that may refuse the message, objects aside. *)
ValidatePublishTarget(d, p, c, recipients) ==
  Check(c # 0, "PERMISSION_DENIED")
    ?? Check(c \in DOMAIN d.chan, "NOT_FOUND")
    ?? Check(CanWrite(d.chan[c], p), "PERMISSION_DENIED")
    ?? Check(recipients \subseteq d.chan[c].members, "INVALID_ARGUMENT")

(* The checks AddMember and RemoveMember share: only the creator may act.  *)
ValidateMemberChange(d, p, c) ==
  Check(c # 0, "PERMISSION_DENIED")
    ?? Check(c \in DOMAIN d.chan, "NOT_FOUND")
    ?? Check(d.chan[c].creator = p, "PERMISSION_DENIED")

(* Faulty variant: one member too many passes.                             *)
LimitOffByOne(d, p, c, q) ==
  ValidateMemberChange(d, p, c)
    ?? Check(q \notin d.chan[c].members, "ALREADY_EXISTS")
    ?? Check(Cardinality(d.chan[c].members) <= kMaxChannelMembers,
             "RESOURCE_EXHAUSTED")

ValidateAddMember(d, p, c, q) ==
  ValidateMemberChange(d, p, c)
    ?? Check(q \notin d.chan[c].members, "ALREADY_EXISTS")
    ?? Check(Cardinality(d.chan[c].members) < kMaxChannelMembers,
             "RESOURCE_EXHAUSTED")

(* Faulty variant: the creator may be removed.                             *)
CreatorMayLeave(d, p, c, q) == ValidateMemberChange(d, p, c)

ValidateRemoveMember(d, p, c, q) ==
  ValidateMemberChange(d, p, c)
    ?? Check(q # d.chan[c].creator, "PERMISSION_DENIED")

(***************************************************************************)
(* The write batches of the operations.                                    *)
(***************************************************************************)
(* Faulty variant: the last uuid of the batch stays available.             *)
AllocatesOneLess(d, count) ==
  [EmptyBatch EXCEPT !.meta = Pair("next_uuid", GetNextUuid(d) + count - 1)]

AllocateUuidsBatch(d, count) ==
  [EmptyBatch EXCEPT !.meta = Pair("next_uuid", GetNextUuid(d) + count)]

BuildPublishBatch(p, c, s, u, recipients) ==
  [EmptyBatch EXCEPT
     !.log  = Pair(s, [channel |-> c, principal |-> p, uuid |-> u,
                       recipients |-> recipients, kind |-> "user",
                       who |-> {}]),
     !.uuid = Pair(u, s),
     !.meta = Pair("max_seq", s)]

(* Faulty variant: the seq of the last message is taken again.             *)
ReusesLastSeq(d, c, ch, kind, who) ==
  LET s == GetMaxSeq(d)
      u == GetNextUuid(d)
  IN  [EmptyBatch EXCEPT
         !.chan = Pair(c, ch),
         !.log  = Pair(s, [channel |-> c, principal |-> 0, uuid |-> u,
                           recipients |-> {}, kind |-> kind, who |-> who]),
         !.uuid = Pair(u, s),
         !.meta = Pair("next_uuid", u + 1)]

(* Faulty variant: SetMaxSeq is missing.                                   *)
ForgetsMaxSeq(d, c, ch, kind, who) ==
  LET s == GetMaxSeq(d) + 1
      u == GetNextUuid(d)
  IN  [EmptyBatch EXCEPT
         !.chan = Pair(c, ch),
         !.log  = Pair(s, [channel |-> c, principal |-> 0, uuid |-> u,
                           recipients |-> {}, kind |-> kind, who |-> who]),
         !.uuid = Pair(u, s),
         !.meta = Pair("next_uuid", u + 1)]

(* A change of channel c to ch, recorded in the log by a system message.   *)
BuildChannelMutationBatch(d, c, ch, kind, who) ==
  LET s == GetMaxSeq(d) + 1
      u == GetNextUuid(d)
  IN  [EmptyBatch EXCEPT
         !.chan = Pair(c, ch),
         !.log  = Pair(s, [channel |-> c, principal |-> 0, uuid |-> u,
                           recipients |-> {}, kind |-> kind, who |-> who]),
         !.uuid = Pair(u, s),
         !.meta = [k \in {"max_seq", "next_uuid"} |->
                     IF k = "max_seq" THEN s ELSE u + 1]]

CreateChannelBatch(d, ch) ==
  LET c == GetNextChannelId(d)
      b == BuildChannelMutationBatch(d, c, ch, "channel_initialized",
                                     ch.members)
  IN  [b EXCEPT !.meta = Put(b.meta, Pair("next_channel_id", c + 1))]

AddMemberBatch(d, c, q) ==
  BuildChannelMutationBatch(
    d, c, [d.chan[c] EXCEPT !.members = d.chan[c].members \cup {q}],
    "member_added", {q})

(* Faulty variant: the wrong system message is recorded.                   *)
RecordsRemovalAsAddition(d, c, q) ==
  BuildChannelMutationBatch(
    d, c, [d.chan[c] EXCEPT !.members = d.chan[c].members \ {q}],
    "member_added", {q})

RemoveMemberBatch(d, c, q) ==
  BuildChannelMutationBatch(
    d, c, [d.chan[c] EXCEPT !.members = d.chan[c].members \ {q}],
    "member_removed", {q})

AddTokenBatch(cred) == [EmptyBatch EXCEPT !.addTokens = {cred}]

DeleteTokenBatch(cred) == [EmptyBatch EXCEPT !.delTokens = {cred}]

(***************************************************************************)
(* What makes the stored data sound, as predicates of one database value.  *)
(***************************************************************************)
DbTypeOK(d) ==
  /\ d.meta \in [MetaKeys -> Nat]
  /\ d.log \in [DOMAIN d.log -> Messages] /\ DOMAIN d.log \subseteq Nat
  /\ d.uuid \in [DOMAIN d.uuid -> Nat] /\ DOMAIN d.uuid \subseteq Nat
  /\ d.chan \in [DOMAIN d.chan -> Channels] /\ DOMAIN d.chan \subseteq Nat
  /\ d.tokens \subseteq Credentials

(* The log has no holes and ends at max_seq: ScanMessages never meets a    *)
(* "missing stored message".                                               *)
LogDense(d) == DOMAIN d.log = 0..GetMaxSeq(d)

(* The uuid index is the exact inverse of the log, so a uuid is consumed   *)
(* by at most one message, and only uuids handed out are consumed.         *)
UuidIndexExact(d) ==
  /\ \A s \in DOMAIN d.log :
       /\ d.log[s].uuid \in DOMAIN d.uuid
       /\ d.uuid[d.log[s].uuid] = s
  /\ \A u \in DOMAIN d.uuid :
       /\ u < GetNextUuid(d)
       /\ d.uuid[u] \in DOMAIN d.log
       /\ d.log[d.uuid[u]].uuid = u

(* Every record is one the storage layer reads back without reporting      *)
(* StorageCorruption, and every message belongs to a stored channel.       *)
RecordsValid(d) ==
  /\ Validate(d)
  /\ DOMAIN d.chan = 1..(GetNextChannelId(d) - 1)
  /\ \A s \in DOMAIN d.log :
       /\ ValidStoredMessage(s, d.log[s])
       /\ s > 0 => d.log[s].channel \in DOMAIN d.chan
  /\ \A c \in DOMAIN d.chan : ValidStoredChannel(d.chan[c])
  /\ \A u \in DOMAIN d.uuid : ValidUuidMapping(u, d.uuid[u])

(* A system message that makes p a member of channel c, or ends it.        *)
Adds(m, c, p) ==
  /\ m.principal = 0 /\ m.channel = c /\ p \in m.who
  /\ m.kind \in {"channel_initialized", "member_added"}

Removes(m, c, p) ==
  /\ m.principal = 0 /\ m.channel = c /\ p \in m.who
  /\ m.kind = "member_removed"

(* Membership of p in c as a reader of messages 0..n reconstructs it.      *)
MemberAt(log, c, p, n) ==
  \E s \in 0..n : /\ Adds(log[s], c, p)
                  /\ \A k \in 0..n : k > s => ~Removes(log[k], c, p)

(* Replaying the system messages gives exactly the stored membership.      *)
MembersMatchLog(d) ==
  \A c \in DOMAIN d.chan, p \in Principals :
    p \in d.chan[c].members <=> MemberAt(d.log, c, p, GetMaxSeq(d))

(* Every user message was admissible at its place in the order: its author *)
(* could write, and its recipients were members, as of the messages before *)
(* it.                                                                     *)
WritersWereMembers(d) ==
  \A s \in DOMAIN d.log :
    LET m == d.log[s]
    IN  m.principal # 0 =>
          /\ \/ d.chan[m.channel].visibility = "public"
             \/ MemberAt(d.log, m.channel, m.principal, s - 1)
          /\ \A q \in m.recipients : MemberAt(d.log, m.channel, q, s - 1)

(* From d to e nothing committed is lost or changed: messages stay, a      *)
(* channel keeps its creator and its visibility, next_uuid never goes back.*)
Extends(d, e) ==
  /\ \A s \in DOMAIN d.log : s \in DOMAIN e.log /\ e.log[s] = d.log[s]
  /\ \A c \in DOMAIN d.chan :
       /\ c \in DOMAIN e.chan
       /\ e.chan[c].creator = d.chan[c].creator
       /\ e.chan[c].visibility = d.chan[c].visibility
  /\ GetNextUuid(d) <= GetNextUuid(e)

(* Of the uuids handed out before d, only user messages consume any from   *)
(* d to e.                                                                 *)
SystemUuidsFresh(d, e) ==
  \A u \in DOMAIN e.uuid \ DOMAIN d.uuid :
    u < GetNextUuid(d) => e.log[e.uuid[u]].principal # 0

GoodDb(d) ==
  /\ DbTypeOK(d)
  /\ LogDense(d)
  /\ UuidIndexExact(d)
  /\ RecordsValid(d)
  /\ MembersMatchLog(d)
  /\ WritersWereMembers(d)

(* Batch b can be committed to d.                                          *)
GoodStep(b, d) ==
  /\ GoodDb(Apply(b, d))
  /\ Extends(d, Apply(b, d))
  /\ SystemUuidsFresh(d, Apply(b, d))

=============================================================================
