-------------------------- MODULE EventStoreProofs --------------------------
(***************************************************************************)
(* Every write batch of the core takes a good database to a good one and   *)
(* loses nothing committed.                                                *)
(***************************************************************************)
EXTENDS EventStore, TLAPS

(* First-order steps go to Zenon; steps with arithmetic name SMT.           *)
USE Zenon

(* Logs that agree on 0..n give the same membership after message n.       *)
LEMMA MemberAtPrefix ==
  ASSUME NEW f, NEW g, NEW c, NEW p, NEW n \in Int,
         \A k \in 0..n : f[k] = g[k]
  PROVE  MemberAt(f, c, p, n) <=> MemberAt(g, c, p, n)
BY DEF MemberAt

(* One more message changes the membership only if it adds or removes.     *)
LEMMA MemberAtStep ==
  ASSUME NEW f, NEW c, NEW p, NEW n \in Nat,
         ~(Adds(f[n + 1], c, p) /\ Removes(f[n + 1], c, p))
  PROVE  MemberAt(f, c, p, n + 1) <=>
           \/ Adds(f[n + 1], c, p)
           \/ MemberAt(f, c, p, n) /\ ~Removes(f[n + 1], c, p)
<1>1. ASSUME Adds(f[n + 1], c, p)
      PROVE  MemberAt(f, c, p, n + 1)
  BY <1>1, SMT DEF MemberAt
<1>2. ASSUME MemberAt(f, c, p, n), ~Removes(f[n + 1], c, p)
      PROVE  MemberAt(f, c, p, n + 1)
  <2>1. PICK s \in 0..n : /\ Adds(f[s], c, p)
                          /\ \A k \in 0..n : k > s => ~Removes(f[k], c, p)
    BY <1>2 DEF MemberAt
  <2>2. s \in 0..(n + 1) /\ \A k \in 0..(n + 1) : k \in 0..n \/ k = n + 1
    BY SMT
  <2> QED  BY <1>2, <2>1, <2>2 DEF MemberAt
<1>3. ASSUME MemberAt(f, c, p, n + 1), ~Adds(f[n + 1], c, p)
      PROVE  MemberAt(f, c, p, n) /\ ~Removes(f[n + 1], c, p)
  <2>1. PICK s \in 0..(n + 1) :
               /\ Adds(f[s], c, p)
               /\ \A k \in 0..(n + 1) : k > s => ~Removes(f[k], c, p)
    BY <1>3 DEF MemberAt
  <2>2. s # n + 1 /\ n + 1 > s /\ s \in 0..n
    BY <1>3, <2>1, SMT
  <2>3. \A k \in 0..n : k \in 0..(n + 1)
    BY SMT
  <2> QED  BY <2>1, <2>2, <2>3, SMT DEF MemberAt
<1> QED  BY <1>1, <1>2, <1>3

(* e is d with message m appended under a uuid that was not in use.  The   *)
(* channels may differ.                                                    *)
Appended(d, e, m) ==
  LET s == GetMaxSeq(d) + 1
  IN  /\ m \in Messages
      /\ e.log = Put(d.log, Pair(s, m))
      /\ e.uuid = Put(d.uuid, Pair(m.uuid, s))
      /\ e.meta \in [MetaKeys -> Nat]
      /\ GetMaxSeq(e) = s
      /\ m.uuid \notin DOMAIN d.uuid
      /\ m.uuid < GetNextUuid(e)
      /\ GetNextUuid(d) <= GetNextUuid(e)

(* What the log and the uuid index hold after an append.                   *)
LEMMA AppendMessage ==
  ASSUME NEW d, GoodDb(d), NEW e, NEW m, Appended(d, e, m),
         NEW s, s = GetMaxSeq(d) + 1
  PROVE  /\ s \in Nat \ {0}
         /\ DOMAIN d.log = 0..(s - 1) /\ GetMaxSeq(d) = s - 1
         /\ e.log \in [0..s -> Messages]
         /\ e.log[s] = m
         /\ \A k \in 0..(s - 1) : e.log[k] = d.log[k]
         /\ LogDense(e)
         /\ UuidIndexExact(e)
         /\ e.uuid \in [DOMAIN e.uuid -> Nat] /\ DOMAIN e.uuid \subseteq Nat
         /\ \A u \in DOMAIN d.uuid : u \in DOMAIN e.uuid /\ e.uuid[u] = d.uuid[u]
<1> USE DEF Appended
<1>1. /\ GetMaxSeq(d) \in Nat /\ GetNextUuid(d) \in Nat /\ GetNextUuid(e) \in Nat
      /\ DOMAIN d.log = 0..GetMaxSeq(d)
      /\ d.log \in [DOMAIN d.log -> Messages]
      /\ d.uuid \in [DOMAIN d.uuid -> Nat] /\ DOMAIN d.uuid \subseteq Nat
  BY DEF GoodDb, DbTypeOK, LogDense, GetMaxSeq, GetNextUuid, MetaKeys
<1>2. s \in Nat \ {0} /\ DOMAIN d.log = 0..(s - 1) /\ s \notin DOMAIN d.log
  <2>1. s \in Nat \ {0}
    BY <1>1, SMT
  <2>2. DOMAIN d.log = 0..(s - 1)
    BY <1>1, SMT
  <2>3. s \notin DOMAIN d.log
    BY <1>1, SMT
  <2> QED  BY <2>1, <2>2, <2>3
<1>3. e.log = [x \in DOMAIN d.log \cup {s} |-> IF x = s THEN m ELSE d.log[x]]
  BY DEF Put, Pair
<1>4. /\ e.log \in [0..s -> Messages]
      /\ e.log[s] = m
      /\ \A k \in 0..(s - 1) : e.log[k] = d.log[k]
      /\ DOMAIN e.log = 0..s
  <2>1. DOMAIN d.log \cup {s} = 0..s
    BY <1>2, SMT
  <2>2. e.log = [x \in 0..s |-> IF x = s THEN m ELSE d.log[x]]
    BY <1>3, <2>1
  <2>3. \A x \in 0..s : x # s => x \in 0..(s - 1) /\ d.log[x] \in Messages
    BY <1>1, <1>2, SMTT(30)
  <2>4. e.log \in [0..s -> Messages]
    BY <2>2, <2>3
  <2>5. e.log[s] = m /\ DOMAIN e.log = 0..s
    BY <1>2, <2>2, SMT
  <2>6. \A k \in 0..(s - 1) : e.log[k] = d.log[k]
    BY <1>2, <2>2, SMT
  <2> QED  BY <2>4, <2>5, <2>6
<1>5. e.uuid = [x \in DOMAIN d.uuid \cup {m.uuid} |->
                  IF x = m.uuid THEN s ELSE d.uuid[x]]
  BY DEF Put, Pair
<1>6. m.uuid \in Nat
  BY DEF Messages
<1>7. /\ e.uuid \in [DOMAIN e.uuid -> Nat] /\ DOMAIN e.uuid \subseteq Nat
      /\ \A u \in DOMAIN d.uuid : u \in DOMAIN e.uuid /\ e.uuid[u] = d.uuid[u]
      /\ e.uuid[m.uuid] = s
      /\ DOMAIN e.uuid = DOMAIN d.uuid \cup {m.uuid}
  <2>1. DOMAIN e.uuid = DOMAIN d.uuid \cup {m.uuid} /\ e.uuid[m.uuid] = s
    BY <1>5
  <2>2. \A u \in DOMAIN d.uuid : u \in DOMAIN e.uuid /\ e.uuid[u] = d.uuid[u]
    BY <1>5
  <2>3. \A u \in DOMAIN e.uuid : e.uuid[u] \in Nat /\ u \in Nat
    BY <1>1, <1>2, <1>5, <1>6
  <2>4. e.uuid \in [DOMAIN e.uuid -> Nat]
    BY <1>5, <2>3
  <2> QED  BY <2>1, <2>2, <2>3, <2>4
<1>8. UuidIndexExact(e)
  <2>1. UuidIndexExact(d)
    BY DEF GoodDb
  <2>2. ASSUME NEW k \in DOMAIN e.log
        PROVE  e.log[k].uuid \in DOMAIN e.uuid /\ e.uuid[e.log[k].uuid] = k
    <3>1. CASE k = s
      BY <3>1, <1>4, <1>7
    <3>2. CASE k # s
      <4>1. k \in DOMAIN d.log /\ e.log[k] = d.log[k]
        BY <3>2, <1>2, <1>4, SMT
      <4>2. d.log[k].uuid \in DOMAIN d.uuid /\ d.uuid[d.log[k].uuid] = k
        BY <2>1, <4>1 DEF UuidIndexExact
      <4> QED  BY <4>1, <4>2, <1>7
    <3> QED  BY <3>1, <3>2
  <2>3. ASSUME NEW u \in DOMAIN e.uuid
        PROVE  /\ u < GetNextUuid(e)
               /\ e.uuid[u] \in DOMAIN e.log
               /\ e.log[e.uuid[u]].uuid = u
    <3>1. CASE u = m.uuid
      BY <3>1, <1>2, <1>4, <1>7, SMT
    <3>2. CASE u # m.uuid
      <4>1. u \in DOMAIN d.uuid /\ e.uuid[u] = d.uuid[u] /\ u \in Nat
        BY <3>2, <1>7
      <4>2. /\ u < GetNextUuid(d)
            /\ d.uuid[u] \in DOMAIN d.log
            /\ d.log[d.uuid[u]].uuid = u
        BY <2>1, <4>1 DEF UuidIndexExact
      <4>3. e.log[d.uuid[u]] = d.log[d.uuid[u]] /\ d.uuid[u] \in DOMAIN e.log
        BY <4>2, <1>2, <1>4, SMT
      <4> QED  BY <4>1, <4>2, <4>3, <1>1, SMT
    <3> QED  BY <3>1, <3>2
  <2> QED  BY <2>2, <2>3 DEF UuidIndexExact
<1>9. LogDense(e)
  BY <1>4 DEF LogDense
<1>10. GetMaxSeq(d) = s - 1
  BY <1>1, SMT
<1> QED  BY <1>2, <1>4, <1>7, <1>8, <1>9, <1>10

(* The membership a reader reconstructs, one message later.                *)
LEMMA AppendMemberAt ==
  ASSUME NEW d, GoodDb(d), NEW e, NEW m, Appended(d, e, m), NEW c, NEW p
  PROVE  MemberAt(e.log, c, p, GetMaxSeq(e)) <=>
           \/ Adds(m, c, p)
           \/ MemberAt(d.log, c, p, GetMaxSeq(d)) /\ ~Removes(m, c, p)
<1> DEFINE n == GetMaxSeq(d)
<1>1. /\ n + 1 \in Nat \ {0} /\ n = (n + 1) - 1
      /\ e.log[n + 1] = m
      /\ \A k \in 0..((n + 1) - 1) : e.log[k] = d.log[k]
  BY AppendMessage, SMT
<1>2. n \in Nat
  BY DEF GoodDb, DbTypeOK, GetMaxSeq, MetaKeys
<1>3. GetMaxSeq(e) = n + 1
  BY DEF Appended
<1>4. ~(Adds(m, c, p) /\ Removes(m, c, p))
  BY DEF Adds, Removes
<1>5. MemberAt(e.log, c, p, n + 1) <=>
        \/ Adds(m, c, p)
        \/ MemberAt(e.log, c, p, n) /\ ~Removes(m, c, p)
  BY <1>1, <1>2, <1>4, MemberAtStep
<1>6. \A k \in 0..n : e.log[k] = d.log[k]
  BY <1>1
<1>7. MemberAt(e.log, c, p, n) <=> MemberAt(d.log, c, p, n)
  BY <1>2, <1>6, MemberAtPrefix, SMT
<1> QED  BY <1>3, <1>5, <1>7

(* Appending keeps every earlier author admitted, and adds an admitted one *)
(* if the new author is admitted by the stored channel.                    *)
LEMMA AppendWriters ==
  ASSUME NEW d, GoodDb(d), NEW e, NEW m, Appended(d, e, m), Extends(d, e),
         m.principal # 0 =>
           /\ m.channel \in DOMAIN d.chan
           /\ CanWrite(d.chan[m.channel], m.principal)
           /\ m.recipients \subseteq d.chan[m.channel].members
  PROVE  WritersWereMembers(e)
<1> DEFINE s == GetMaxSeq(d) + 1
<1>1. /\ s \in Nat \ {0}
      /\ DOMAIN d.log = 0..(s - 1) /\ GetMaxSeq(d) = s - 1
      /\ e.log \in [0..s -> Messages]
      /\ e.log[s] = m
      /\ \A k \in 0..(s - 1) : e.log[k] = d.log[k]
  BY AppendMessage, SMT
<1>2. SUFFICES ASSUME NEW k \in DOMAIN e.log, e.log[k].principal # 0
               PROVE  /\ \/ e.chan[e.log[k].channel].visibility = "public"
                         \/ MemberAt(e.log, e.log[k].channel,
                                     e.log[k].principal, k - 1)
                      /\ \A q \in e.log[k].recipients :
                           MemberAt(e.log, e.log[k].channel, q, k - 1)
  BY DEF WritersWereMembers
<1>3. k \in 0..s /\ k \in Int /\ k - 1 \in Int
  BY <1>1, SMT
<1>4. \A c, p : MemberAt(e.log, c, p, k - 1) <=> MemberAt(d.log, c, p, k - 1)
  <2>1. \A j \in 0..(k - 1) : e.log[j] = d.log[j]
    BY <1>1, <1>3, SMT
  <2> QED  BY <1>3, <2>1, MemberAtPrefix
<1>5. CASE k = s
  <2>1. \A p \in Principals :
          p \in d.chan[m.channel].members <=>
            MemberAt(d.log, m.channel, p, s - 1)
    BY <1>1, <1>2, <1>5 DEF GoodDb, MembersMatchLog
  <2>2. /\ m.principal \in Principals
        /\ m.recipients \subseteq Principals
    BY <1>1, <1>2, <1>5 DEF Messages, Appended
  <2>3. e.chan[m.channel].visibility = d.chan[m.channel].visibility
    BY <1>1, <1>2, <1>5 DEF Extends
  <2> QED  BY <1>1, <1>2, <1>4, <1>5, <2>1, <2>2, <2>3 DEF CanWrite
<1>6. CASE k # s
  <2>1. k \in DOMAIN d.log /\ e.log[k] = d.log[k]
    BY <1>1, <1>3, <1>6, SMT
  <2>2. /\ \/ d.chan[d.log[k].channel].visibility = "public"
           \/ MemberAt(d.log, d.log[k].channel, d.log[k].principal, k - 1)
        /\ \A q \in d.log[k].recipients :
             MemberAt(d.log, d.log[k].channel, q, k - 1)
    BY <1>2, <2>1 DEF GoodDb, WritersWereMembers
  <2>3. k # 0
    BY <1>2, <2>1, SMT
       DEF GoodDb, RecordsValid, ValidStoredMessage, InitializationMessage
  <2>4. d.log[k].channel \in DOMAIN d.chan
    BY <1>3, <2>1, <2>3, SMT DEF GoodDb, RecordsValid
  <2>5. e.chan[d.log[k].channel].visibility
          = d.chan[d.log[k].channel].visibility
    BY <2>4 DEF Extends
  <2> QED  BY <1>4, <2>1, <2>2, <2>5
<1> QED  BY <1>5, <1>6

(* An append consumes a uuid for a user message or a new one.              *)
LEMMA AppendFresh ==
  ASSUME NEW d, GoodDb(d), NEW e, NEW m, Appended(d, e, m),
         m.principal # 0 \/ m.uuid = GetNextUuid(d)
  PROVE  SystemUuidsFresh(d, e)
<1> DEFINE s == GetMaxSeq(d) + 1
<1>1. e.log[s] = m
  BY AppendMessage, SMT
<1>2. /\ DOMAIN e.uuid = DOMAIN d.uuid \cup {m.uuid} /\ e.uuid[m.uuid] = s
      /\ GetNextUuid(d) \in Nat
  BY DEF Appended, Put, Pair, GoodDb, DbTypeOK, GetNextUuid, MetaKeys
<1>3. ~(GetNextUuid(d) < GetNextUuid(d))
  BY <1>2, SMT
<1> QED  BY <1>1, <1>2, <1>3 DEF SystemUuidsFresh

(***************************************************************************)
(* The batches, one by one.                                                *)
(***************************************************************************)
(* A database that keeps log, uuid index and channels, and does not lower  *)
(* next_uuid, stays good: AllocateUuids, AddToken, DeleteToken.            *)
LEMMA SameLogGood ==
  ASSUME NEW d, GoodDb(d), NEW e,
         e.log = d.log, e.uuid = d.uuid, e.chan = d.chan,
         e.tokens \subseteq Credentials,
         e.meta \in [MetaKeys -> Nat],
         GetMaxSeq(e) = GetMaxSeq(d),
         GetNextChannelId(e) = GetNextChannelId(d),
         GetNextUuid(d) <= GetNextUuid(e)
  PROVE  GoodDb(e) /\ Extends(d, e) /\ SystemUuidsFresh(d, e)
<1>1. /\ d.meta \in [MetaKeys -> Nat] /\ DOMAIN d.uuid \subseteq Nat
      /\ GetNextUuid(d) \in Nat /\ GetNextUuid(e) \in Nat
  BY DEF GoodDb, DbTypeOK, GetNextUuid, MetaKeys
<1>2. DbTypeOK(e)
  BY DEF GoodDb, DbTypeOK
<1>3. LogDense(e)
  BY DEF GoodDb, LogDense
<1>4. UuidIndexExact(e)
  BY <1>1, SMT DEF GoodDb, UuidIndexExact
<1>5. RecordsValid(e)
  <2>1. RecordsValid(d) /\ GetNextUuid(d) # 0
    BY DEF GoodDb, RecordsValid, Validate
  <2>2. GetNextUuid(e) # 0 /\ MetaKeys \subseteq DOMAIN e.meta
    BY <1>1, <2>1, SMT
  <2> QED  BY <2>1, <2>2 DEF RecordsValid, Validate
<1>6. MembersMatchLog(e)
  BY DEF GoodDb, MembersMatchLog
<1>7. WritersWereMembers(e)
  BY DEF GoodDb, WritersWereMembers
<1>8. Extends(d, e) /\ SystemUuidsFresh(d, e)
  BY DEF Extends, SystemUuidsFresh
<1> QED  BY <1>2, <1>3, <1>4, <1>5, <1>6, <1>7, <1>8 DEF GoodDb

(* Writing no pairs changes nothing.                                       *)
LEMMA PutNothing ==
  ASSUME NEW S, NEW V, NEW f \in [S -> V]
  PROVE  Put(f, NoPairs) = f
BY DEF Put, NoPairs

(* AllocateUuids: a higher next_uuid can be committed to good data.        *)
LEMMA AllocateUuidsGood ==
  ASSUME NEW d, GoodDb(d), NEW count \in Nat
  PROVE  GoodStep(AllocateUuidsBatch(d, count), d)
<1> DEFINE b == AllocateUuidsBatch(d, count)
           e == Apply(b, d)
<1>1. /\ d.meta \in [MetaKeys -> Nat]
      /\ d.log \in [DOMAIN d.log -> Messages]
      /\ d.uuid \in [DOMAIN d.uuid -> Nat]
      /\ d.chan \in [DOMAIN d.chan -> Channels]
      /\ d.tokens \subseteq Credentials
  BY DEF GoodDb, DbTypeOK
<1>2. /\ b.meta = Pair("next_uuid", GetNextUuid(d) + count)
      /\ b.log = NoPairs /\ b.uuid = NoPairs /\ b.chan = NoPairs
      /\ b.addTokens = {} /\ b.delTokens = {}
  BY DEF AllocateUuidsBatch, EmptyBatch
<1>3. e.log = d.log /\ e.uuid = d.uuid /\ e.chan = d.chan
  BY <1>1, <1>2, PutNothing DEF Apply
<1>4. e.tokens = d.tokens
  BY <1>2 DEF Apply
<1>5. GetNextUuid(d) \in Nat /\ GetNextUuid(d) + count \in Nat
  BY <1>1, SMT DEF GetNextUuid, MetaKeys
<1>6. e.meta = Put(d.meta, Pair("next_uuid", GetNextUuid(d) + count))
  BY <1>2 DEF Apply
<1> HIDE DEF b, e
<1>7. /\ e.meta \in [MetaKeys -> Nat]
      /\ e.meta["next_uuid"] = GetNextUuid(d) + count
      /\ e.meta["max_seq"] = d.meta["max_seq"]
      /\ e.meta["next_channel_id"] = d.meta["next_channel_id"]
  <2>1. DOMAIN d.meta \cup {"next_uuid"} = MetaKeys
    BY <1>1 DEF MetaKeys
  <2>2. e.meta = [x \in MetaKeys |-> IF x = "next_uuid"
                                    THEN GetNextUuid(d) + count ELSE d.meta[x]]
    BY <1>6, <2>1 DEF Put, Pair
  <2>3. e.meta \in [MetaKeys -> Nat]
    BY <1>1, <1>5, <2>2
  <2> QED  BY <2>2, <2>3 DEF MetaKeys
<1>8. /\ GetMaxSeq(e) = GetMaxSeq(d)
      /\ GetNextChannelId(e) = GetNextChannelId(d)
      /\ GetNextUuid(d) <= GetNextUuid(e)
  BY <1>5, <1>7, SMT DEF GetMaxSeq, GetNextChannelId, GetNextUuid
<1>9. GoodDb(e) /\ Extends(d, e) /\ SystemUuidsFresh(d, e)
  BY <1>1, <1>3, <1>4, <1>7, <1>8, SameLogGood
<1> QED  BY <1>9 DEF GoodStep, e, b

(* A batch that only adds or deletes tokens.                               *)
LEMMA TokenBatchGood ==
  ASSUME NEW d, GoodDb(d), NEW b,
         b.meta = NoPairs, b.log = NoPairs, b.uuid = NoPairs, b.chan = NoPairs,
         b.addTokens \subseteq Credentials
  PROVE  GoodStep(b, d)
<1> DEFINE e == Apply(b, d)
<1>1. /\ d.meta \in [MetaKeys -> Nat]
      /\ d.log \in [DOMAIN d.log -> Messages]
      /\ d.uuid \in [DOMAIN d.uuid -> Nat]
      /\ d.chan \in [DOMAIN d.chan -> Channels]
      /\ d.tokens \subseteq Credentials
  BY DEF GoodDb, DbTypeOK
<1>2. e.meta = d.meta /\ e.log = d.log /\ e.uuid = d.uuid /\ e.chan = d.chan
  BY <1>1, PutNothing DEF Apply
<1>3. e.tokens \subseteq Credentials
  BY <1>1 DEF Apply
<1>4. /\ GetMaxSeq(e) = GetMaxSeq(d)
      /\ GetNextChannelId(e) = GetNextChannelId(d)
      /\ GetNextUuid(e) = GetNextUuid(d) /\ GetNextUuid(d) \in Nat
  BY <1>1, <1>2 DEF GetMaxSeq, GetNextChannelId, GetNextUuid, MetaKeys
<1>5. GetNextUuid(d) <= GetNextUuid(e)
  BY <1>4, SMT
<1> HIDE DEF e
<1>6. GoodDb(e) /\ Extends(d, e) /\ SystemUuidsFresh(d, e)
  BY <1>1, <1>2, <1>3, <1>4, <1>5, SameLogGood
<1> QED  BY <1>6 DEF GoodStep, e

(* AddToken: one more token can be committed to good data.                 *)
LEMMA AddTokenGood ==
  ASSUME NEW d, GoodDb(d), NEW cred \in Credentials
  PROVE  GoodStep(AddTokenBatch(cred), d)
BY TokenBatchGood DEF AddTokenBatch, EmptyBatch

(* DeleteToken: one token less can be committed to good data.              *)
LEMMA DeleteTokenGood ==
  ASSUME NEW d, GoodDb(d), NEW cred \in Credentials
  PROVE  GoodStep(DeleteTokenBatch(cred), d)
BY TokenBatchGood DEF DeleteTokenBatch, EmptyBatch

(* The records stay valid when one valid message of a stored channel is    *)
(* appended and the channels are valid.                                    *)
LEMMA AppendRecords ==
  ASSUME NEW d, GoodDb(d), NEW e, NEW m, Appended(d, e, m),
         DOMAIN d.chan \subseteq DOMAIN e.chan,
         DOMAIN e.chan = 1..(GetNextChannelId(e) - 1),
         GetNextChannelId(e) # 0,
         \A c \in DOMAIN e.chan : ValidStoredChannel(e.chan[c]),
         m.uuid # 0, m.channel \in DOMAIN e.chan, m.channel # 0,
         m.principal = 0 => ValidChannelSystemMessage(m)
  PROVE  RecordsValid(e)
<1> DEFINE s == GetMaxSeq(d) + 1
<1>1. /\ s \in Nat \ {0}
      /\ DOMAIN d.log = 0..(s - 1)
      /\ e.log \in [0..s -> Messages]
      /\ e.log[s] = m
      /\ \A k \in 0..(s - 1) : e.log[k] = d.log[k]
      /\ \A u \in DOMAIN d.uuid : u \in DOMAIN e.uuid /\ e.uuid[u] = d.uuid[u]
  BY AppendMessage, SMT
<1>2. RecordsValid(d) /\ Validate(d)
  BY DEF GoodDb, RecordsValid
<1>3. Validate(e)
  <2>1. 0 \in DOMAIN d.log /\ ValidStoredMessage(0, d.log[0])
    BY <1>2 DEF Validate
  <2>2. 0 \in DOMAIN e.log /\ e.log[0] = d.log[0]
    BY <1>1, <2>1, SMT
  <2>3. 0 \in DOMAIN e.uuid /\ e.uuid[0] = 0
    BY <1>1, <1>2 DEF Validate
  <2>4. GetNextUuid(e) # 0
    <3>1. GetNextUuid(d) \in Nat /\ GetNextUuid(e) \in Nat
      BY DEF GoodDb, DbTypeOK, Appended, GetNextUuid, MetaKeys
    <3>2. GetNextUuid(d) # 0 /\ GetNextUuid(d) <= GetNextUuid(e)
      BY <1>2 DEF Validate, Appended
    <3> QED  BY <3>1, <3>2, SMT
  <2>5. MetaKeys \subseteq DOMAIN e.meta
    BY DEF Appended
  <2> QED  BY <2>1, <2>2, <2>3, <2>4, <2>5 DEF Validate
<1>4. ASSUME NEW k \in DOMAIN e.log
      PROVE  /\ ValidStoredMessage(k, e.log[k])
             /\ k > 0 => e.log[k].channel \in DOMAIN e.chan
  <2>1. CASE k = s
    <3>1. m \in Messages /\ 0 \notin m.recipients
      BY <1>1, PrincipalsAssumption, SMT DEF Messages
    <3> QED  BY <1>1, <2>1, <3>1 DEF ValidStoredMessage
  <2>2. CASE k # s
    <3>1. k \in DOMAIN d.log /\ e.log[k] = d.log[k]
      BY <1>1, <2>2, SMT
    <3> QED  BY <1>2, <3>1 DEF RecordsValid
  <2> QED  BY <2>1, <2>2
<1>5. ASSUME NEW u \in DOMAIN e.uuid
      PROVE  ValidUuidMapping(u, e.uuid[u])
  <2>1. DOMAIN e.uuid = DOMAIN d.uuid \cup {m.uuid} /\ e.uuid[m.uuid] = s
    BY DEF Appended, Put, Pair
  <2>2. CASE u = m.uuid
    BY <1>1, <2>1, <2>2 DEF ValidUuidMapping
  <2>3. CASE u # m.uuid
    <3>1. u \in DOMAIN d.uuid /\ e.uuid[u] = d.uuid[u]
      BY <1>1, <2>1, <2>3
    <3> QED  BY <1>2, <3>1 DEF RecordsValid
  <2> QED  BY <2>2, <2>3
<1> QED  BY <1>3, <1>4, <1>5 DEF RecordsValid

(* A publication that passed its checks.                                   *)
LEMMA PublishGood ==
  ASSUME NEW d, GoodDb(d), NEW p \in Principals, NEW c, NEW u,
         NEW R \in SUBSET Principals, NEW s, s = GetMaxSeq(d) + 1, u \in Nat,
         ValidateAvailableUuid(d, u) = "OK",
         ValidatePublishTarget(d, p, c, R) = "OK"
  PROVE  GoodStep(BuildPublishBatch(p, c, s, u, R), d)
<1> DEFINE b == BuildPublishBatch(p, c, s, u, R)
           e == Apply(b, d)
           m == [channel |-> c, principal |-> p, uuid |-> u,
                 recipients |-> R, kind |-> "user", who |-> {}]
<1>1. /\ d.meta \in [MetaKeys -> Nat]
      /\ d.chan \in [DOMAIN d.chan -> Channels] /\ DOMAIN d.chan \subseteq Nat
      /\ d.tokens \subseteq Credentials
  BY DEF GoodDb, DbTypeOK
<1>2. u # 0 /\ u < GetNextUuid(d) /\ u \notin DOMAIN d.uuid
  BY DEF ValidateAvailableUuid, ??, Check
<1>3. /\ c # 0 /\ c \in DOMAIN d.chan
      /\ CanWrite(d.chan[c], p) /\ R \subseteq d.chan[c].members
  BY DEF ValidatePublishTarget, ??, Check
<1>4. /\ b.meta = Pair("max_seq", s) /\ b.log = Pair(s, m)
      /\ b.uuid = Pair(u, s) /\ b.chan = NoPairs
      /\ b.addTokens = {} /\ b.delTokens = {}
  BY DEF BuildPublishBatch, EmptyBatch
<1>5. e.chan = d.chan
  BY <1>1, <1>4, PutNothing DEF Apply
<1>6. e.tokens = d.tokens
  BY <1>4 DEF Apply
<1>7. s \in Nat /\ GetNextUuid(d) \in Nat
  BY <1>1, SMT DEF GetMaxSeq, GetNextUuid, MetaKeys
<1>8. /\ e.meta \in [MetaKeys -> Nat]
      /\ e.meta["max_seq"] = s
      /\ e.meta["next_uuid"] = d.meta["next_uuid"]
      /\ e.meta["next_channel_id"] = d.meta["next_channel_id"]
  <2>1. e.meta = Put(d.meta, Pair("max_seq", s))
    BY <1>4 DEF Apply
  <2>2. DOMAIN d.meta \cup {"max_seq"} = MetaKeys
    BY <1>1 DEF MetaKeys
  <2>3. e.meta = [x \in MetaKeys |-> IF x = "max_seq" THEN s ELSE d.meta[x]]
    BY <2>1, <2>2 DEF Put, Pair
  <2> HIDE DEF e
  <2>4. e.meta \in [MetaKeys -> Nat]
    BY <1>1, <1>7, <2>3
  <2> QED  BY <2>3, <2>4 DEF MetaKeys
<1>9. /\ GetMaxSeq(e) = s /\ GetNextUuid(e) = GetNextUuid(d)
      /\ GetNextChannelId(e) = GetNextChannelId(d)
  BY <1>8 DEF GetMaxSeq, GetNextUuid, GetNextChannelId
<1>10. m \in Messages
  BY <1>1, <1>3 DEF Messages, Kinds
<1>11. m.uuid = u /\ m.principal = p /\ m.channel = c /\ m.recipients = R
  OBVIOUS
<1>12. e.log = Put(d.log, Pair(s, m)) /\ e.uuid = Put(d.uuid, Pair(u, s))
  BY <1>4 DEF Apply
<1>13. p # 0
  BY PrincipalsAssumption
<1> HIDE DEF b, e, m
<1>14. Appended(d, e, m)
  BY <1>2, <1>7, <1>8, <1>9, <1>10, <1>11, <1>12, SMT DEF Appended
<1>15. /\ DOMAIN d.log = 0..(s - 1) /\ e.log \in [0..s -> Messages]
       /\ \A k \in 0..(s - 1) : e.log[k] = d.log[k]
       /\ LogDense(e) /\ UuidIndexExact(e)
       /\ e.uuid \in [DOMAIN e.uuid -> Nat] /\ DOMAIN e.uuid \subseteq Nat
  BY <1>14, AppendMessage, SMT
<1>16. Extends(d, e)
  <2>1. \A k \in DOMAIN d.log : k \in DOMAIN e.log /\ e.log[k] = d.log[k]
    BY <1>7, <1>15, SMT
  <2>2. GetNextUuid(d) <= GetNextUuid(e)
    BY <1>14 DEF Appended
  <2> QED  BY <1>5, <2>1, <2>2 DEF Extends
<1>17. DbTypeOK(e)
  <2>1. e.log \in [DOMAIN e.log -> Messages] /\ DOMAIN e.log \subseteq Nat
    BY <1>15, SMTT(30)
  <2> QED  BY <1>1, <1>5, <1>6, <1>8, <1>15, <2>1 DEF DbTypeOK
<1>18. RecordsValid(e)
  <2>1. /\ DOMAIN e.chan = 1..(GetNextChannelId(e) - 1)
        /\ GetNextChannelId(e) # 0
        /\ \A x \in DOMAIN e.chan : ValidStoredChannel(e.chan[x])
    BY <1>5, <1>9 DEF GoodDb, RecordsValid, Validate
  <2> QED  BY <1>2, <1>3, <1>5, <1>11, <1>13, <1>14, <2>1, AppendRecords
<1>19. MembersMatchLog(e)
  <2>1. SUFFICES ASSUME NEW x \in DOMAIN e.chan, NEW q \in Principals
                 PROVE  q \in e.chan[x].members <=>
                          MemberAt(e.log, x, q, GetMaxSeq(e))
    BY DEF MembersMatchLog
  <2>2. MemberAt(e.log, x, q, GetMaxSeq(e)) <=>
          \/ Adds(m, x, q)
          \/ MemberAt(d.log, x, q, GetMaxSeq(d)) /\ ~Removes(m, x, q)
    BY <1>14, AppendMemberAt
  <2>3. ~Adds(m, x, q) /\ ~Removes(m, x, q)
    BY <1>11, <1>13 DEF Adds, Removes
  <2>4. q \in d.chan[x].members <=> MemberAt(d.log, x, q, GetMaxSeq(d))
    BY <1>5 DEF GoodDb, MembersMatchLog
  <2> QED  BY <1>5, <2>2, <2>3, <2>4
<1>20. WritersWereMembers(e)
  BY <1>3, <1>11, <1>14, <1>16, AppendWriters
<1>21. GoodDb(e)
  BY <1>15, <1>17, <1>18, <1>19, <1>20 DEF GoodDb
<1>22. SystemUuidsFresh(d, e)
  BY <1>11, <1>13, <1>14, AppendFresh
<1> QED  BY <1>16, <1>21, <1>22 DEF GoodStep, e, b

(* A change of one channel, recorded by the system message m that          *)
(* BuildChannelMutationBatch writes with it.                               *)
LEMMA MutationGood ==
  ASSUME NEW d, GoodDb(d), NEW e, NEW m, Appended(d, e, m),
         NEW c \in Nat \ {0}, NEW ch \in Channels, ValidStoredChannel(ch),
         e.chan = Put(d.chan, Pair(c, ch)),
         e.tokens \subseteq Credentials,
         DOMAIN e.chan = 1..(GetNextChannelId(e) - 1), GetNextChannelId(e) # 0,
         m.principal = 0, m.uuid # 0, m.channel = c,
         ValidChannelSystemMessage(m),
         c \in DOMAIN d.chan => /\ ch.creator = d.chan[c].creator
                               /\ ch.visibility = d.chan[c].visibility,
         \A q \in Principals :
           q \in ch.members <=>
             \/ Adds(m, c, q)
             \/ MemberAt(d.log, c, q, GetMaxSeq(d)) /\ ~Removes(m, c, q)
  PROVE  GoodDb(e) /\ Extends(d, e)
<1> DEFINE s == GetMaxSeq(d) + 1
<1>1. /\ d.chan \in [DOMAIN d.chan -> Channels] /\ DOMAIN d.chan \subseteq Nat
  BY DEF GoodDb, DbTypeOK
<1>2. /\ s \in Nat \ {0}
      /\ DOMAIN d.log = 0..(s - 1) /\ e.log \in [0..s -> Messages]
      /\ \A k \in 0..(s - 1) : e.log[k] = d.log[k]
      /\ LogDense(e) /\ UuidIndexExact(e)
      /\ e.uuid \in [DOMAIN e.uuid -> Nat] /\ DOMAIN e.uuid \subseteq Nat
  BY AppendMessage, SMTT(30)
<1>3. e.chan = [x \in DOMAIN d.chan \cup {c} |->
                  IF x = c THEN ch ELSE d.chan[x]]
  BY DEF Put, Pair
<1>4. /\ DOMAIN e.chan = DOMAIN d.chan \cup {c} /\ e.chan[c] = ch
      /\ \A x \in DOMAIN d.chan : x # c => e.chan[x] = d.chan[x]
  BY <1>3
<1>5. Extends(d, e)
  <2>1. \A k \in DOMAIN d.log : k \in DOMAIN e.log /\ e.log[k] = d.log[k]
    BY <1>2, SMT
  <2>2. GetNextUuid(d) <= GetNextUuid(e)
    BY DEF Appended
  <2> QED  BY <1>4, <2>1, <2>2 DEF Extends
<1>6. DbTypeOK(e)
  <2>0. DOMAIN e.log = 0..s
    BY <1>2
  <2>1. e.log \in [DOMAIN e.log -> Messages] /\ DOMAIN e.log \subseteq Nat
    BY <1>2, <2>0, SMT
  <2>2. \A x \in DOMAIN e.chan : e.chan[x] \in Channels /\ x \in Nat
    BY <1>1, <1>4
  <2>3. e.chan \in [DOMAIN e.chan -> Channels]
    BY <1>3, <2>2
  <2>4. e.meta \in [MetaKeys -> Nat]
    BY DEF Appended
  <2> QED  BY <1>2, <2>1, <2>2, <2>3, <2>4 DEF DbTypeOK
<1>7. RecordsValid(e)
  <2>1. \A x \in DOMAIN e.chan : ValidStoredChannel(e.chan[x])
    BY <1>4 DEF GoodDb, RecordsValid
  <2> QED  BY <1>4, <2>1, AppendRecords
<1>8. MembersMatchLog(e)
  <2>1. SUFFICES ASSUME NEW x \in DOMAIN e.chan, NEW q \in Principals
                 PROVE  q \in e.chan[x].members <=>
                          MemberAt(e.log, x, q, GetMaxSeq(e))
    BY DEF MembersMatchLog
  <2>2. MemberAt(e.log, x, q, GetMaxSeq(e)) <=>
          \/ Adds(m, x, q)
          \/ MemberAt(d.log, x, q, GetMaxSeq(d)) /\ ~Removes(m, x, q)
    BY AppendMemberAt
  <2>3. CASE x = c
    BY <1>4, <2>2, <2>3
  <2>4. CASE x # c
    <3>1. ~Adds(m, x, q) /\ ~Removes(m, x, q)
      BY <2>4 DEF Adds, Removes
    <3>2. q \in d.chan[x].members <=> MemberAt(d.log, x, q, GetMaxSeq(d))
      BY <1>4, <2>4 DEF GoodDb, MembersMatchLog
    <3> QED  BY <1>4, <2>2, <2>4, <3>1, <3>2
  <2> QED  BY <2>3, <2>4
<1>9. WritersWereMembers(e)
  BY <1>5, AppendWriters
<1> QED  BY <1>2, <1>5, <1>6, <1>7, <1>8, <1>9 DEF GoodDb

(* The counters after a batch that advances max_seq and next_uuid.         *)
LEMMA PutSeqAndUuid ==
  ASSUME NEW f \in [MetaKeys -> Nat], NEW s \in Nat, NEW u \in Nat, NEW g,
         g = Put(f, [k \in {"max_seq", "next_uuid"} |->
                       IF k = "max_seq" THEN s ELSE u])
  PROVE  /\ g \in [MetaKeys -> Nat]
         /\ g["max_seq"] = s /\ g["next_uuid"] = u
         /\ g["next_channel_id"] = f["next_channel_id"]
<1>1. DOMAIN f \cup {"max_seq", "next_uuid"} = MetaKeys
  BY DEF MetaKeys
<1>2. g = [x \in MetaKeys |->
             IF x \in {"max_seq", "next_uuid"}
             THEN (IF x = "max_seq" THEN s ELSE u) ELSE f[x]]
  BY <1>1 DEF Put
<1> QED  BY <1>2 DEF MetaKeys

(* AddMember and RemoveMember: BuildChannelMutationBatch on a stored       *)
(* channel c.                                                              *)
LEMMA MemberChangeGood ==
  ASSUME NEW d, GoodDb(d), NEW c \in DOMAIN d.chan, NEW ch \in Channels,
         NEW kind \in SystemKinds, NEW who \in SUBSET Principals,
         who # {}, ValidStoredChannel(ch),
         ch.creator = d.chan[c].creator,
         ch.visibility = d.chan[c].visibility,
         \A q \in Principals :
           q \in ch.members <=>
             \/ kind # "member_removed" /\ q \in who
             \/ q \in d.chan[c].members
                  /\ ~(kind = "member_removed" /\ q \in who)
  PROVE  GoodStep(BuildChannelMutationBatch(d, c, ch, kind, who), d)
<1> DEFINE s == GetMaxSeq(d) + 1
           u == GetNextUuid(d)
           b == BuildChannelMutationBatch(d, c, ch, kind, who)
           e == Apply(b, d)
           m == [channel |-> c, principal |-> 0, uuid |-> u,
                 recipients |-> {}, kind |-> kind, who |-> who]
<1>1. /\ d.meta \in [MetaKeys -> Nat]
      /\ d.chan \in [DOMAIN d.chan -> Channels] /\ DOMAIN d.chan \subseteq Nat
      /\ d.tokens \subseteq Credentials
      /\ d.uuid \in [DOMAIN d.uuid -> Nat] /\ DOMAIN d.uuid \subseteq Nat
  BY DEF GoodDb, DbTypeOK
<1>2. /\ b.chan = Pair(c, ch) /\ b.log = Pair(s, m) /\ b.uuid = Pair(u, s)
      /\ b.meta = [k \in {"max_seq", "next_uuid"} |->
                     IF k = "max_seq" THEN s ELSE u + 1]
      /\ b.addTokens = {} /\ b.delTokens = {}
  BY DEF BuildChannelMutationBatch, EmptyBatch
<1>3. /\ e.chan = Put(d.chan, Pair(c, ch)) /\ e.log = Put(d.log, Pair(s, m))
      /\ e.uuid = Put(d.uuid, Pair(u, s)) /\ e.tokens = d.tokens
      /\ e.meta = Put(d.meta, [k \in {"max_seq", "next_uuid"} |->
                                 IF k = "max_seq" THEN s ELSE u + 1])
  BY <1>2 DEF Apply
<1>4. s \in Nat /\ u \in Nat /\ u + 1 \in Nat /\ u # 0
  <2>1. GetMaxSeq(d) \in Nat /\ GetNextUuid(d) \in Nat
    BY <1>1 DEF GetMaxSeq, GetNextUuid, MetaKeys
  <2>2. GetNextUuid(d) # 0
    BY DEF GoodDb, RecordsValid, Validate
  <2> QED  BY <2>1, <2>2, SMTT(30)
<1>5. m \in Messages
  BY <1>1, <1>4 DEF Messages, Kinds
<1>6. /\ m.uuid = u /\ m.principal = 0 /\ m.channel = c /\ m.kind = kind
      /\ m.who = who /\ m.recipients = {}
  OBVIOUS
<1> HIDE DEF b, e, m, s, u
<1>7. /\ e.meta \in [MetaKeys -> Nat]
      /\ e.meta["max_seq"] = s /\ e.meta["next_uuid"] = u + 1
      /\ e.meta["next_channel_id"] = d.meta["next_channel_id"]
  BY <1>1, <1>3, <1>4, PutSeqAndUuid, SMTT(30)
<1>8. /\ GetMaxSeq(e) = s /\ GetNextUuid(e) = u + 1 /\ GetNextUuid(d) = u
      /\ GetNextChannelId(e) = GetNextChannelId(d)
  BY <1>7 DEF GetMaxSeq, GetNextUuid, GetNextChannelId, u
<1>9. u \notin DOMAIN d.uuid
  BY <1>1, <1>4, <1>8, SMTT(30) DEF GoodDb, UuidIndexExact
<1>10. Appended(d, e, m)
  BY <1>3, <1>4, <1>5, <1>6, <1>7, <1>8, <1>9, SMTT(30) DEF Appended, s
<1>11. /\ c # 0 /\ c \in Nat
       /\ DOMAIN d.chan = 1..(GetNextChannelId(d) - 1)
       /\ GetNextChannelId(d) # 0
  BY <1>1, SMTT(30) DEF GoodDb, RecordsValid, Validate
<1>12. DOMAIN e.chan = DOMAIN d.chan
  BY <1>3 DEF Put, Pair
<1>13. ValidChannelSystemMessage(m)
  BY <1>6 DEF ValidChannelSystemMessage
<1>14. \A q \in Principals :
         q \in ch.members <=>
           \/ Adds(m, c, q)
           \/ MemberAt(d.log, c, q, GetMaxSeq(d)) /\ ~Removes(m, c, q)
  <2>1. \A q \in Principals :
          q \in d.chan[c].members <=> MemberAt(d.log, c, q, GetMaxSeq(d))
    BY DEF GoodDb, MembersMatchLog
  <2>2. \A q : /\ Adds(m, c, q) <=> kind # "member_removed" /\ q \in who
               /\ Removes(m, c, q) <=> kind = "member_removed" /\ q \in who
    BY <1>6 DEF Adds, Removes, SystemKinds
  <2> QED  BY <2>1, <2>2
<1>15. GoodDb(e) /\ Extends(d, e)
  BY <1>1, <1>3, <1>4, <1>6, <1>8, <1>10, <1>11, <1>12, <1>13, <1>14,
     MutationGood
<1>16. SystemUuidsFresh(d, e)
  BY <1>6, <1>8, <1>10, AppendFresh
<1> QED  BY <1>15, <1>16 DEF GoodStep, e, b

(* AddMember: what passes ValidateAddMember can be committed to good data. *)
LEMMA AddMemberGood ==
  ASSUME NEW d, GoodDb(d), NEW p, NEW c, NEW q \in Principals,
         ValidateAddMember(d, p, c, q) = "OK"
  PROVE  GoodStep(AddMemberBatch(d, c, q), d)
<1> DEFINE ch == [d.chan[c] EXCEPT !.members = d.chan[c].members \cup {q}]
<1>1. c \in DOMAIN d.chan
  BY DEF ValidateAddMember, ValidateMemberChange, ??, Check
<1>2. d.chan[c] \in Channels /\ ValidStoredChannel(d.chan[c])
  BY <1>1 DEF GoodDb, DbTypeOK, RecordsValid
<1>3. /\ ch \in Channels /\ ch.members = d.chan[c].members \cup {q}
      /\ ch.creator = d.chan[c].creator
      /\ ch.visibility = d.chan[c].visibility
  BY <1>2 DEF Channels
<1>4. ValidStoredChannel(ch)
  BY <1>2, <1>3, PrincipalsAssumption DEF ValidStoredChannel
<1> HIDE DEF ch
<1>5. GoodStep(BuildChannelMutationBatch(d, c, ch, "member_added", {q}), d)
  BY <1>1, <1>3, <1>4, MemberChangeGood, SMTT(60) DEF SystemKinds
<1> QED  BY <1>5 DEF AddMemberBatch, ch

(* RemoveMember: what passes ValidateRemoveMember can be committed to good *)
(* data, if the target is a member.                                        *)
LEMMA RemoveMemberGood ==
  ASSUME NEW d, GoodDb(d), NEW p, NEW c, NEW q \in Principals,
         ValidateRemoveMember(d, p, c, q) = "OK"
  PROVE  GoodStep(RemoveMemberBatch(d, c, q), d)
<1> DEFINE ch == [d.chan[c] EXCEPT !.members = d.chan[c].members \ {q}]
<1>1. c \in DOMAIN d.chan /\ q # d.chan[c].creator
  BY DEF ValidateRemoveMember, ValidateMemberChange, ??, Check
<1>2. d.chan[c] \in Channels /\ ValidStoredChannel(d.chan[c])
  BY <1>1 DEF GoodDb, DbTypeOK, RecordsValid
<1>3. /\ ch \in Channels /\ ch.members = d.chan[c].members \ {q}
      /\ ch.creator = d.chan[c].creator
      /\ ch.visibility = d.chan[c].visibility
  BY <1>2 DEF Channels
<1>4. ValidStoredChannel(ch)
  BY <1>1, <1>2, <1>3 DEF ValidStoredChannel
<1> HIDE DEF ch
<1>5. GoodStep(BuildChannelMutationBatch(d, c, ch, "member_removed", {q}), d)
  BY <1>1, <1>3, <1>4, MemberChangeGood, SMTT(30) DEF SystemKinds
<1> QED  BY <1>5 DEF RemoveMemberBatch, ch

(* No message mentions a channel that does not exist yet.                  *)
LEMMA NoMemberOfNewChannel ==
  ASSUME NEW d, GoodDb(d), NEW c, c # 0, c \notin DOMAIN d.chan, NEW q
  PROVE  ~MemberAt(d.log, c, q, GetMaxSeq(d))
<1>1. SUFFICES ASSUME NEW k \in 0..GetMaxSeq(d)
               PROVE  ~Adds(d.log[k], c, q)
  BY DEF MemberAt
<1>2. k \in DOMAIN d.log
  BY DEF GoodDb, LogDense
<1>3. CASE k = 0
  BY <1>2, <1>3, SMTT(30) DEF GoodDb, RecordsValid, ValidStoredMessage,
                    InitializationMessage, Adds
<1>4. CASE k # 0
  <2>1. k > 0
    BY <1>4, SMT
  <2> QED  BY <1>2, <2>1 DEF GoodDb, RecordsValid, Adds
<1> QED  BY <1>3, <1>4

(* CreateChannel: a new channel that contains its creator can be committed *)
(* to good data.                                                           *)
LEMMA CreateChannelGood ==
  ASSUME NEW d, GoodDb(d), NEW ch \in Channels, ch.creator \in ch.members
  PROVE  GoodStep(CreateChannelBatch(d, ch), d)
<1> DEFINE s == GetMaxSeq(d) + 1
           u == GetNextUuid(d)
           c == GetNextChannelId(d)
           who == ch.members
           b == CreateChannelBatch(d, ch)
           e == Apply(b, d)
           m == [channel |-> c, principal |-> 0, uuid |-> u,
                 recipients |-> {}, kind |-> "channel_initialized",
                 who |-> who]
           g == [k \in {"max_seq", "next_uuid"} |->
                   IF k = "max_seq" THEN s ELSE u + 1]
<1>1. /\ d.meta \in [MetaKeys -> Nat]
      /\ d.chan \in [DOMAIN d.chan -> Channels] /\ DOMAIN d.chan \subseteq Nat
      /\ d.tokens \subseteq Credentials
      /\ d.uuid \in [DOMAIN d.uuid -> Nat] /\ DOMAIN d.uuid \subseteq Nat
  BY DEF GoodDb, DbTypeOK
<1>2. /\ b.chan = Pair(c, ch) /\ b.log = Pair(s, m) /\ b.uuid = Pair(u, s)
      /\ b.meta = Put(g, Pair("next_channel_id", c + 1))
      /\ b.addTokens = {} /\ b.delTokens = {}
  BY DEF CreateChannelBatch, BuildChannelMutationBatch, EmptyBatch
<1>3. /\ e.chan = Put(d.chan, Pair(c, ch)) /\ e.log = Put(d.log, Pair(s, m))
      /\ e.uuid = Put(d.uuid, Pair(u, s)) /\ e.tokens = d.tokens
      /\ e.meta = Put(d.meta, Put(g, Pair("next_channel_id", c + 1)))
  BY <1>2 DEF Apply
<1>4. /\ s \in Nat /\ u \in Nat /\ u + 1 \in Nat /\ u # 0
      /\ c \in Nat \ {0} /\ c + 1 \in Nat
  BY <1>1, SMTT(30) DEF GetMaxSeq, GetNextUuid, GetNextChannelId, MetaKeys, GoodDb,
              RecordsValid, Validate
<1>5. m \in Messages
  BY <1>4 DEF Messages, Kinds, SystemKinds, Channels
<1>6. /\ m.uuid = u /\ m.principal = 0 /\ m.channel = c
      /\ m.kind = "channel_initialized" /\ m.who = who /\ m.recipients = {}
  OBVIOUS
<1>7. /\ e.meta \in [MetaKeys -> Nat]
      /\ e.meta["max_seq"] = s /\ e.meta["next_uuid"] = u + 1
      /\ e.meta["next_channel_id"] = c + 1
  <2>1. Put(g, Pair("next_channel_id", c + 1))
          = [k \in MetaKeys |-> IF k = "next_channel_id" THEN c + 1
                                ELSE IF k = "max_seq" THEN s ELSE u + 1]
    BY DEF Put, Pair, MetaKeys
  <2>2. e.meta = [k \in MetaKeys |-> IF k = "next_channel_id" THEN c + 1
                                     ELSE IF k = "max_seq" THEN s ELSE u + 1]
    <3>1. DOMAIN d.meta \cup MetaKeys = MetaKeys
      BY <1>1
    <3> QED  BY <1>3, <2>1, <3>1 DEF Put
  <2> QED  BY <1>4, <2>2 DEF MetaKeys
<1> HIDE DEF b, e, m, s, u, g, c
<1>8. /\ GetMaxSeq(e) = s /\ GetNextUuid(e) = u + 1 /\ GetNextUuid(d) = u
      /\ GetNextChannelId(e) = c + 1 /\ GetNextChannelId(d) = c
  BY <1>7 DEF GetMaxSeq, GetNextUuid, GetNextChannelId, u, c
<1>9. u \notin DOMAIN d.uuid
  BY <1>1, <1>4, <1>8, SMTT(30) DEF GoodDb, UuidIndexExact
<1>10. Appended(d, e, m)
  BY <1>3, <1>4, <1>5, <1>6, <1>7, <1>8, <1>9, SMT DEF Appended, s
<1>11. DOMAIN d.chan = 1..(c - 1) /\ c \notin DOMAIN d.chan
  <2>1. DOMAIN d.chan = 1..(c - 1)
    BY <1>8 DEF GoodDb, RecordsValid
  <2> QED  BY <1>4, <2>1, SMT
<1>12. DOMAIN e.chan = 1..(GetNextChannelId(e) - 1)
  <2>1. DOMAIN e.chan = 1..(c - 1) \cup {c}
    BY <1>3, <1>11 DEF Put, Pair
  <2>2. 1..(c - 1) \cup {c} = 1..((c + 1) - 1)
    BY <1>4, SMT
  <2> QED  BY <1>8, <2>1, <2>2
<1>13. ValidChannelSystemMessage(m)
  BY <1>6 DEF ValidChannelSystemMessage, SystemKinds
<1>14. \A q \in Principals :
         q \in ch.members <=>
           \/ Adds(m, c, q)
           \/ MemberAt(d.log, c, q, GetMaxSeq(d)) /\ ~Removes(m, c, q)
  <2>1. \A q : ~MemberAt(d.log, c, q, GetMaxSeq(d))
    BY <1>4, <1>11, NoMemberOfNewChannel
  <2>2. \A q : Adds(m, c, q) <=> q \in ch.members
    BY <1>6 DEF Adds
  <2> QED  BY <2>1, <2>2
<1>15. ValidStoredChannel(ch)
  BY PrincipalsAssumption DEF ValidStoredChannel, Channels
<1>16. GetNextChannelId(e) # 0
  BY <1>4, <1>8, SMT
<1>17. GoodDb(e) /\ Extends(d, e)
  BY <1>1, <1>3, <1>4, <1>6, <1>10, <1>11, <1>12, <1>13, <1>14, <1>15, <1>16,
     MutationGood
<1>18. SystemUuidsFresh(d, e)
  BY <1>6, <1>8, <1>10, AppendFresh
<1> QED  BY <1>17, <1>18 DEF GoodStep, e, b

(* The storage that InitializeNew creates is good.                         *)
LEMMA InitialDbGood == GoodDb(InitialDb)
<1> DEFINE d == InitialDb
<1>1. /\ d.meta = [k \in MetaKeys |-> IF k = "max_seq" THEN 0 ELSE 1]
      /\ d.log = [x \in {0} |-> InitializationMessage]
      /\ d.uuid = [x \in {0} |-> 0] /\ d.chan = [x \in {} |-> 0]
      /\ d.tokens = {}
  BY DEF InitialDb, Pair, NoPairs
<1>2. GetMaxSeq(d) = 0 /\ GetNextUuid(d) = 1 /\ GetNextChannelId(d) = 1
  BY <1>1 DEF GetMaxSeq, GetNextUuid, GetNextChannelId, MetaKeys
<1>3. /\ InitializationMessage \in Messages
      /\ InitializationMessage.uuid = 0 /\ InitializationMessage.principal = 0
  BY DEF InitializationMessage, Messages, Kinds
<1> HIDE DEF d
<1>4. DbTypeOK(d)
  BY <1>1, <1>3, SMT DEF DbTypeOK
<1>5. LogDense(d)
  BY <1>1, <1>2, SMT DEF LogDense
<1>6. UuidIndexExact(d)
  BY <1>1, <1>2, <1>3, SMT DEF UuidIndexExact
<1>7. RecordsValid(d)
  <2>1. Validate(d)
    BY <1>1, <1>2, SMT DEF Validate, ValidStoredMessage
  <2>2. DOMAIN d.chan = 1..(GetNextChannelId(d) - 1)
    BY <1>1, <1>2, SMT
  <2>3. \A k \in DOMAIN d.log : k = 0 /\ d.log[k] = InitializationMessage
    BY <1>1
  <2>4. \A u \in DOMAIN d.uuid : ValidUuidMapping(u, d.uuid[u])
    BY <1>1 DEF ValidUuidMapping
  <2> QED  BY <1>1, <2>1, <2>2, <2>3, <2>4, SMT DEF RecordsValid, ValidStoredMessage
<1>8. MembersMatchLog(d)
  BY <1>1 DEF MembersMatchLog
<1>9. WritersWereMembers(d)
  BY <1>1, <1>3 DEF WritersWereMembers
<1>10. GoodDb(d)
  BY <1>4, <1>5, <1>6, <1>7, <1>8, <1>9 DEF GoodDb
<1> QED  BY <1>10 DEF d

=============================================================================
