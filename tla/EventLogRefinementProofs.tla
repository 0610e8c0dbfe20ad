----------------------- MODULE EventLogRefinementProofs -----------------------
(***************************************************************************)
(* Proof that EventLog implements PublicationLog, for any number of         *)
(* workers, principals, tokens and requests.  The mapping is that of        *)
(* EventLogRefinement.  A batch of the coordinator is one step of the       *)
(* abstract log at the moment it is applied; a reply is an Answer; every    *)
(* other step is a stutter.  Beyond the invariants of EventLogProofs the    *)
(* mapping needs that the stored member lists are what the log's system     *)
(* messages say (MapInv).                                                  *)
(***************************************************************************)
EXTENDS EventLogRefinement, EventLogProofs, Sequences

(* First-order steps go to Zenon; steps with arithmetic name SMT.           *)
USE Zenon

(* A system message about the membership of p in c, and membership as the  *)
(* last such message of a sequence has it: About and Member of             *)
(* PublicationLog, of any sequence.                                        *)
Mentions(m, c, p) == m.kind \in SystemKinds /\ m.channel = c /\ p \in m.who

SaysMember(L, c, p) ==
  \E i \in DOMAIN L :
    /\ Mentions(L[i], c, p) /\ L[i].kind # "member_removed"
    /\ \A j \in DOMAIN L : j > i => ~Mentions(L[j], c, p)

(* What the mapping needs of the data, beyond GoodDb.                      *)
MapInv(d) ==
  /\ \A s \in DOMAIN d.log : d.log[s].principal # 0 => d.log[s].kind = "user"
  /\ \A c \in DOMAIN d.chan, p \in Principals :
       p \in d.chan[c].members <=> SaysMember(MessageSequence(d), c, p)

(* A sequence that is longer than another by one place.                    *)
LEMMA AppendIs ==
  ASSUME NEW S, NEW D \in Seq(S), NEW E \in Seq(S), NEW row \in S,
         NEW n \in Nat, Len(D) = n, Len(E) = n + 1,
         \A i \in 1..n : E[i] = D[i], E[n + 1] = row
  PROVE  E = Append(D, row)
<1>1. /\ Append(D, row) \in Seq(S) /\ Len(Append(D, row)) = n + 1
      /\ \A i \in 1..n : Append(D, row)[i] = D[i]
      /\ Append(D, row)[n + 1] = row
  BY SMT
<1>2. PICK F \in Seq(S) : F = Append(D, row)
  BY <1>1
<1>3. \A i \in 1..(n + 1) : i \in 1..n \/ i = n + 1
  BY SMT
<1>4. \A i \in 1..(n + 1) : E[i] = F[i]
  BY <1>1, <1>2, <1>3
<1>5. /\ E = [i \in 1..Len(E) |-> E[i]] /\ F = [i \in 1..Len(F) |-> F[i]]
  BY SMT
<1>6. Len(F) = n + 1
  BY <1>1, <1>2
<1> QED  BY <1>2, <1>4, <1>5, <1>6

(* The elements of the mapped log are the stored messages.                 *)
LEMMA SequenceOfLog ==
  ASSUME NEW d, GoodDb(d)
  PROVE  /\ GetMaxSeq(d) \in Nat
         /\ MessageSequence(d) \in Seq(Messages)
         /\ Len(MessageSequence(d)) = GetMaxSeq(d) + 1
         /\ DOMAIN MessageSequence(d) = 1..(GetMaxSeq(d) + 1)
         /\ \A i \in 1..(GetMaxSeq(d) + 1) :
              MessageSequence(d)[i] = d.log[i - 1] /\ i - 1 \in DOMAIN d.log
<1>1. GetMaxSeq(d) \in Nat /\ DOMAIN d.log = 0..GetMaxSeq(d)
  BY DEF GoodDb, DbTypeOK, LogDense, GetMaxSeq, MetaKeys
<1>2. \A i \in 1..(GetMaxSeq(d) + 1) : i - 1 \in DOMAIN d.log
  BY <1>1, SMT
<1>3. \A i \in 1..(GetMaxSeq(d) + 1) : d.log[i - 1] \in Messages
  BY <1>2 DEF GoodDb, DbTypeOK
<1>4. MessageSequence(d) \in Seq(Messages)
  BY <1>1, <1>3, SMTT(30) DEF MessageSequence
<1>5. Len(MessageSequence(d)) = GetMaxSeq(d) + 1
  BY <1>1, SMT DEF MessageSequence
<1> QED  BY <1>1, <1>2, <1>4, <1>5 DEF MessageSequence

(* A committed message is appended to the mapped log.                      *)
LEMMA SequenceGrows ==
  ASSUME NEW d, GoodDb(d), NEW e, GoodDb(e), NEW m \in Messages,
         e.log = Put(d.log, Pair(GetMaxSeq(d) + 1, m)),
         GetMaxSeq(e) = GetMaxSeq(d) + 1
  PROVE  /\ MessageSequence(e) = Append(MessageSequence(d), m)
         /\ \A i \in 1..(GetMaxSeq(d) + 1) :
              MessageSequence(e)[i] = MessageSequence(d)[i]
         /\ MessageSequence(e)[GetMaxSeq(d) + 2] = m
<1> DEFINE n == GetMaxSeq(d) + 1
           D == MessageSequence(d)
           E == MessageSequence(e)
<1>1. /\ n \in Nat /\ n > 0 /\ GetMaxSeq(e) = n /\ D \in Seq(Messages)
      /\ E \in Seq(Messages)
      /\ Len(D) = n /\ Len(E) = n + 1
      /\ \A i \in 1..n : D[i] = d.log[i - 1] /\ i - 1 \in DOMAIN d.log
      /\ \A i \in 1..(n + 1) : E[i] = e.log[i - 1]
  BY SequenceOfLog, SMT
<1>2. e.log[n] = m /\ \A s \in DOMAIN d.log \ {n} : e.log[s] = d.log[s]
  BY DEF Put, Pair
<1> HIDE DEF n, D, E
<1>3. ASSUME NEW i \in 1..n  PROVE E[i] = D[i]
  <2>1. i \in 1..(n + 1) /\ i - 1 # n /\ i - 1 \in DOMAIN d.log
    <3>1. n \in Nat
      BY <1>1
    <3>2. i \in 1..(n + 1) /\ i - 1 # n
      BY <3>1, SMT
    <3>3. i - 1 \in DOMAIN d.log
      BY <1>1
    <3> QED  BY <3>2, <3>3
  <2>2. E[i] = e.log[i - 1] /\ D[i] = d.log[i - 1]
    BY <1>1, <2>1
  <2>3. PICK s : s = i - 1
    OBVIOUS
  <2>4. e.log[s] = d.log[s]
    BY <1>2, <2>1, <2>3
  <2> QED  BY <2>2, <2>3, <2>4
<1>4. E[n + 1] = m
  BY <1>1, <1>2, SMT
<1>5. E = Append(D, m)
  <2>1. PICK k \in Nat, A \in Seq(Messages), B \in Seq(Messages) :
          k = n /\ A = D /\ B = E
    BY <1>1
  <2>2. /\ Len(A) = k /\ Len(B) = k + 1
        /\ \A i \in 1..k : B[i] = A[i]
        /\ B[k + 1] = m
    BY <1>1, <1>3, <1>4, <2>1
  <2>3. B = Append(A, m)
    BY <2>2, AppendIs, SMT
  <2> QED  BY <2>1, <2>3
<1>6. GetMaxSeq(d) + 1 = n /\ GetMaxSeq(d) + 2 = n + 1
  <2>1. GetMaxSeq(d) \in Nat
    BY SequenceOfLog
  <2> QED  BY <2>1, SMT DEF n
<1> QED  BY <1>3, <1>4, <1>5, <1>6 DEF D, E

(* The last message decides, if it is about p's membership of c.           *)
LEMMA SaysMemberStep ==
  ASSUME NEW n \in Nat, NEW L, NEW K, NEW m, NEW c, NEW p,
         DOMAIN L = 1..n, DOMAIN K = 1..(n + 1),
         \A i \in 1..n : K[i] = L[i], K[n + 1] = m
  PROVE  SaysMember(K, c, p) <=> IF Mentions(m, c, p)
                                 THEN m.kind # "member_removed"
                                 ELSE SaysMember(L, c, p)
<1>1. CASE Mentions(m, c, p)
  <2>1. ASSUME SaysMember(K, c, p)  PROVE m.kind # "member_removed"
    <3>1. PICK i \in DOMAIN K :
            /\ K[i].kind # "member_removed"
            /\ \A j \in DOMAIN K : j > i => ~Mentions(K[j], c, p)
      BY <2>1 DEF SaysMember
    <3>2. ~(n + 1 > i)
      BY <1>1, <3>1, SMT
    <3>3. i = n + 1
      BY <3>1, <3>2, SMT
    <3> QED  BY <3>1, <3>3
  <2>2. ASSUME m.kind # "member_removed"  PROVE SaysMember(K, c, p)
    <3>1. n + 1 \in DOMAIN K /\ \A j \in DOMAIN K : ~(j > n + 1)
      BY SMT
    <3> QED  BY <1>1, <2>2, <3>1 DEF SaysMember
  <2> QED  BY <1>1, <2>1, <2>2
<1>2. CASE ~Mentions(m, c, p)
  <2>1. ASSUME SaysMember(K, c, p)  PROVE SaysMember(L, c, p)
    <3>1. PICK i \in DOMAIN K :
            /\ Mentions(K[i], c, p) /\ K[i].kind # "member_removed"
            /\ \A j \in DOMAIN K : j > i => ~Mentions(K[j], c, p)
      BY <2>1 DEF SaysMember
    <3>2. i # n + 1
      BY <1>2, <3>1
    <3>3. i \in 1..n
      BY <3>1, <3>2, SMT
    <3>4. \A j \in DOMAIN L : j \in DOMAIN K /\ K[j] = L[j]
      BY SMT
    <3> QED  BY <3>1, <3>3, <3>4 DEF SaysMember
  <2>2. ASSUME SaysMember(L, c, p)  PROVE SaysMember(K, c, p)
    <3>1. PICK i \in DOMAIN L :
            /\ Mentions(L[i], c, p) /\ L[i].kind # "member_removed"
            /\ \A j \in DOMAIN L : j > i => ~Mentions(L[j], c, p)
      BY <2>2 DEF SaysMember
    <3>2. \A j \in DOMAIN K : j # n + 1 => j \in DOMAIN L /\ K[j] = L[j]
      BY SMT
    <3>3. i \in DOMAIN K /\ K[i] = L[i]
      BY <3>1, SMT
    <3>4. \A j \in DOMAIN K : j > i => ~Mentions(K[j], c, p)
      BY <1>2, <3>1, <3>2
    <3> QED  BY <3>1, <3>3, <3>4 DEF SaysMember
  <2> QED  BY <1>2, <2>1, <2>2
<1> QED  BY <1>1, <1>2

(* Both together, for data to which message m is appended.                 *)
LEMMA MembersAfter ==
  ASSUME NEW d, GoodDb(d), NEW e, GoodDb(e), NEW m \in Messages,
         e.log = Put(d.log, Pair(GetMaxSeq(d) + 1, m)),
         GetMaxSeq(e) = GetMaxSeq(d) + 1, NEW c, NEW p
  PROVE  SaysMember(MessageSequence(e), c, p)
           <=> IF Mentions(m, c, p) THEN m.kind # "member_removed"
               ELSE SaysMember(MessageSequence(d), c, p)
<1>1. /\ GetMaxSeq(d) \in Nat
      /\ DOMAIN MessageSequence(d) = 1..(GetMaxSeq(d) + 1)
      /\ DOMAIN MessageSequence(e) = 1..(GetMaxSeq(d) + 2)
  BY SequenceOfLog, SMT
<1>2. PICK n \in Nat : n = GetMaxSeq(d) + 1
  BY <1>1, SMT
<1>3. /\ DOMAIN MessageSequence(d) = 1..n
      /\ DOMAIN MessageSequence(e) = 1..(n + 1)
      /\ \A i \in 1..n : MessageSequence(e)[i] = MessageSequence(d)[i]
      /\ MessageSequence(e)[n + 1] = m
  BY <1>1, <1>2, SequenceGrows, SMT
<1> QED  BY <1>3, SaysMemberStep, SMT


(***************************************************************************)
(* The steps of PublicationLog that append a message, as relations between *)
(* the data d before and e after.                                          *)
(***************************************************************************)
Appends(d, e, m) ==
  /\ m \in Messages
  /\ MessageSequence(e) = Append(MessageSequence(d), m)
  /\ MessageSequence(e)[GetMaxSeq(d) + 2] = m /\ GetMaxSeq(e) = GetMaxSeq(d) + 1
  /\ \A i \in DOMAIN MessageSequence(d) : MessageSequence(d)[i].uuid # m.uuid
  /\ e.tokens = d.tokens

AppendsUser(d, e, m) ==
  /\ Appends(d, e, m) /\ ChannelTable(e) = ChannelTable(d)
  /\ m.kind = "user"
  /\ \E cred \in d.tokens : cred[1] = m.principal
  /\ m.channel \in DOMAIN ChannelTable(d)
  /\ \/ ChannelTable(d)[m.channel].visibility = "public"
     \/ SaysMember(MessageSequence(d), m.channel, m.principal)
  /\ \A q \in m.recipients : SaysMember(MessageSequence(d), m.channel, q)

AppendsSystem(d, e, m, kind) ==
  /\ Appends(d, e, m)
  /\ m.kind = kind /\ m.principal = 0 /\ m.recipients = {}
  /\ m.uuid = GetNextUuid(d)

CreatesChannel(d, e, m) ==
  /\ AppendsSystem(d, e, m, "channel_initialized")
  /\ m.channel = Len(ChannelTable(d)) + 1
  /\ \E ch \in {ChannelTable(e)[c] : c \in DOMAIN ChannelTable(e)} :
       /\ ChannelTable(e) = Append(ChannelTable(d), ch)
       /\ ch.creator \in m.who /\ \E cred \in d.tokens : cred[1] = ch.creator

ChangesMember(d, e, m, kind) ==
  /\ AppendsSystem(d, e, m, kind) /\ ChannelTable(e) = ChannelTable(d)
  /\ m.channel \in DOMAIN ChannelTable(d)
  /\ \E cred \in d.tokens : cred[1] = ChannelTable(d)[m.channel].creator

AddsMember(d, e, m) ==
  /\ ChangesMember(d, e, m, "member_added")
  /\ \E q \in m.who : /\ m.who = {q}
                      /\ ~SaysMember(MessageSequence(d), m.channel, q)

RemovesMember(d, e, m) ==
  /\ ChangesMember(d, e, m, "member_removed")
  /\ \E q \in m.who : /\ m.who = {q}
                      /\ SaysMember(MessageSequence(d), m.channel, q)
                      /\ q # ChannelTable(d)[m.channel].creator

(* The mapped channels are the stored ones.                                *)
LEMMA TableOfChannels ==
  ASSUME NEW d, GoodDb(d)
  PROVE  /\ GetNextChannelId(d) \in Nat \ {0}
         /\ DOMAIN ChannelTable(d) = DOMAIN d.chan
         /\ DOMAIN d.chan = 1..(GetNextChannelId(d) - 1)
         /\ \A c \in DOMAIN d.chan :
              /\ ChannelTable(d)[c].visibility = d.chan[c].visibility
              /\ ChannelTable(d)[c].creator = d.chan[c].creator
<1>1. /\ GetNextChannelId(d) \in Nat \ {0}
      /\ DOMAIN d.chan = 1..(GetNextChannelId(d) - 1)
  BY DEF GoodDb, DbTypeOK, RecordsValid, Validate, GetNextChannelId, MetaKeys
<1> QED  BY <1>1 DEF ChannelTable

(* A uuid that is not in the index is the uuid of no message.              *)
LEMMA UnusedUuid ==
  ASSUME NEW d, GoodDb(d), NEW u, u \notin DOMAIN d.uuid
  PROVE  \A i \in DOMAIN MessageSequence(d) : MessageSequence(d)[i].uuid # u
<1> SUFFICES ASSUME NEW i \in DOMAIN MessageSequence(d)
             PROVE  MessageSequence(d)[i].uuid # u
  OBVIOUS
<1>1. i \in 1..(GetMaxSeq(d) + 1)
  BY SequenceOfLog
<1>2. MessageSequence(d)[i] = d.log[i - 1] /\ i - 1 \in DOMAIN d.log
  BY <1>1, SequenceOfLog
<1>3. \A s \in DOMAIN d.log : d.log[s].uuid \in DOMAIN d.uuid
  BY DEF GoodDb, UuidIndexExact
<1> QED  BY <1>2, <1>3

(* Publish and PublishAutoSeq append an admissible user message.           *)
LEMMA PublishMaps ==
  ASSUME NEW d, GoodDb(d), MapInv(d), NEW cred \in d.tokens, NEW c \in Nat,
         NEW u \in Nat, NEW R \in SUBSET Principals,
         ValidateAvailableUuid(d, u) = "OK",
         ValidatePublishTarget(d, cred[1], c, R) = "OK",
         NEW e, e = Apply(BuildPublishBatch(cred[1], c, GetMaxSeq(d) + 1, u, R), d),
         GoodDb(e)
  PROVE  MapInv(e) /\ \E m : AppendsUser(d, e, m)
<1> DEFINE s == GetMaxSeq(d) + 1
           m == [channel |-> c, principal |-> cred[1], uuid |-> u,
                 recipients |-> R, kind |-> "user", who |-> {}]
           b == BuildPublishBatch(cred[1], c, s, u, R)
<1>1. /\ d.meta \in [MetaKeys -> Nat] /\ cred[1] \in Principals
      /\ d.chan \in [DOMAIN d.chan -> Channels]
  BY DEF GoodDb, DbTypeOK, Credentials
<1>2. /\ b.meta = Pair("max_seq", s) /\ b.log = Pair(s, m)
      /\ b.chan = NoPairs /\ b.addTokens = {} /\ b.delTokens = {}
  BY DEF BuildPublishBatch, EmptyBatch
<1>3. m \in Messages
  BY <1>1 DEF Messages, Kinds
<1>4. /\ e.meta = Put(d.meta, Pair("max_seq", s))
      /\ e.log = Put(d.log, Pair(s, m))
      /\ e.chan = d.chan /\ e.tokens = d.tokens
  <2>1. Put(d.chan, NoPairs) = d.chan
    BY <1>1, PutNothing
  <2>2. e = Apply(b, d)
    OBVIOUS
  <2> HIDE DEF b, m
  <2>3. e.tokens = d.tokens
    BY <1>2, <2>2, SMT DEF Apply
  <2> QED  BY <1>2, <2>1, <2>2, <2>3, SMT DEF Apply
<1>5. /\ m.channel = c /\ m.principal = cred[1] /\ m.uuid = u
      /\ m.recipients = R /\ m.kind = "user" /\ m.who = {}
  OBVIOUS
<1>6. s \in Nat
  BY SequenceOfLog, SMT
<1>7. GetMaxSeq(e) = s /\ GetNextChannelId(e) = GetNextChannelId(d)
  <2>1. e.meta["max_seq"] = s
          /\ e.meta["next_channel_id"] = d.meta["next_channel_id"]
    <3>1. PICK f \in [MetaKeys -> Nat] : f = d.meta
      BY <1>1
    <3>2. e.meta = Put(f, Pair("max_seq", s))
      BY <1>4, <3>1
    <3> HIDE DEF s
    <3>3. e.meta = [x \in MetaKeys |-> IF x = "max_seq" THEN s ELSE f[x]]
      <4>1. DOMAIN f \cup {"max_seq"} = MetaKeys
        BY DEF MetaKeys
      <4> QED  BY <3>2, <4>1 DEF Put, Pair
    <3> QED  BY <3>1, <3>3 DEF MetaKeys
  <2> QED  BY <2>1 DEF GetMaxSeq, GetNextChannelId
<1>8. u \notin DOMAIN d.uuid
  BY DEF ValidateAvailableUuid, ??, Check
<1>9. /\ c \in DOMAIN d.chan
      /\ d.chan[c].visibility = "public" \/ cred[1] \in d.chan[c].members
      /\ R \subseteq d.chan[c].members
  BY DEF ValidatePublishTarget, ??, Check, CanWrite
<1> HIDE DEF m, b, s
<1>10. Appends(d, e, m)
  <2>1. /\ MessageSequence(e) = Append(MessageSequence(d), m)
        /\ MessageSequence(e)[GetMaxSeq(d) + 2] = m
    BY <1>3, <1>4, <1>7, SequenceGrows, ZenonT(30) DEF s
  <2>2. \A i \in DOMAIN MessageSequence(d) : MessageSequence(d)[i].uuid # m.uuid
    BY <1>5, <1>8, UnusedUuid
  <2> QED  BY <1>3, <1>4, <1>7, <2>1, <2>2 DEF Appends, s
<1>11. ChannelTable(e) = ChannelTable(d)
  BY <1>4, <1>7 DEF ChannelTable
<1>12. \A q \in d.chan[c].members : SaysMember(MessageSequence(d), c, q)
  <2>1. d.chan[c].members \subseteq Principals
    BY <1>1, <1>9 DEF Channels
  <2> QED  BY <1>9, <2>1 DEF MapInv
<1>13. AppendsUser(d, e, m)
  <2>1. /\ c \in DOMAIN ChannelTable(d)
        /\ ChannelTable(d)[c].visibility = d.chan[c].visibility
    BY <1>9, TableOfChannels
  <2> QED  BY <1>5, <1>9, <1>10, <1>11, <1>12, <2>1 DEF AppendsUser
<1>14. MapInv(e)
  <2>1. ~\E x, p : Mentions(m, x, p)
    BY <1>5 DEF Mentions
  <2>2. \A x, p : SaysMember(MessageSequence(e), x, p)
                    <=> SaysMember(MessageSequence(d), x, p)
    BY <1>3, <1>4, <1>7, <2>1, MembersAfter DEF s
  <2>3. \A k \in DOMAIN e.log : e.log[k].principal # 0 => e.log[k].kind = "user"
    BY <1>4, <1>5, SMT DEF MapInv, Put, Pair
  <2> QED  BY <1>4, <2>2, <2>3 DEF MapInv
<1> QED  BY <1>13, <1>14


(* A channel operation appends the system message that records it.         *)
LEMMA MutationMaps ==
  ASSUME NEW d, GoodDb(d), MapInv(d), NEW e, GoodDb(e),
         NEW c \in Nat, NEW ch \in Channels, NEW kind \in SystemKinds,
         NEW who \in SUBSET Principals, NEW m,
         m = [channel |-> c, principal |-> 0, uuid |-> GetNextUuid(d),
              recipients |-> {}, kind |-> kind, who |-> who],
         e.log = Put(d.log, Pair(GetMaxSeq(d) + 1, m)),
         e.chan = Put(d.chan, Pair(c, ch)), e.tokens = d.tokens,
         GetMaxSeq(e) = GetMaxSeq(d) + 1,
         \A p \in Principals :
           p \in ch.members <=> IF p \in who THEN kind # "member_removed"
                                ELSE SaysMember(MessageSequence(d), c, p)
  PROVE  /\ MapInv(e) /\ AppendsSystem(d, e, m, kind)
         /\ m.channel = c /\ m.who = who
<1>1. /\ m.channel = c /\ m.principal = 0 /\ m.uuid = GetNextUuid(d)
      /\ m.recipients = {} /\ m.kind = kind /\ m.who = who
  OBVIOUS
<1>2. GetNextUuid(d) \in Nat /\ DOMAIN d.uuid \subseteq Nat
  BY DEF GoodDb, DbTypeOK, GetNextUuid, MetaKeys
<1>3. m \in Messages
  BY <1>2 DEF Messages, Kinds
<1>4. GetNextUuid(d) \notin DOMAIN d.uuid
  BY <1>2, SMT DEF GoodDb, UuidIndexExact
<1>5. Appends(d, e, m)
  <2>1. /\ MessageSequence(e) = Append(MessageSequence(d), m)
        /\ MessageSequence(e)[GetMaxSeq(d) + 2] = m
    BY <1>3, SequenceGrows, ZenonT(30)
  <2>2. \A i \in DOMAIN MessageSequence(d) : MessageSequence(d)[i].uuid # m.uuid
    BY <1>1, <1>4, UnusedUuid
  <2> QED  BY <1>3, <2>1, <2>2 DEF Appends
<1>6. AppendsSystem(d, e, m, kind)
  BY <1>1, <1>5 DEF AppendsSystem
<1>7. \A x, p : SaysMember(MessageSequence(e), x, p)
                  <=> IF Mentions(m, x, p) THEN m.kind # "member_removed"
                      ELSE SaysMember(MessageSequence(d), x, p)
  BY <1>3, MembersAfter, SMT
<1>8. \A x, p : Mentions(m, x, p) <=> x = c /\ p \in who
  BY <1>1 DEF Mentions
<1>9. ASSUME NEW x \in DOMAIN e.chan, NEW p \in Principals
      PROVE  p \in e.chan[x].members <=> SaysMember(MessageSequence(e), x, p)
  <2>1. CASE x = c
    <3>1. e.chan[x] = ch
      BY <2>1 DEF Put, Pair
    <3> QED  BY <1>1, <1>7, <1>8, <2>1, <3>1
  <2>2. CASE x # c
    <3>1. x \in DOMAIN d.chan /\ e.chan[x] = d.chan[x]
      BY <1>9, <2>2 DEF Put, Pair
    <3>2. p \in d.chan[x].members <=> SaysMember(MessageSequence(d), x, p)
      BY <3>1 DEF MapInv
    <3> QED  BY <1>7, <1>8, <2>2, <3>1, <3>2
  <2> QED  BY <2>1, <2>2
<1>10. \A k \in DOMAIN e.log : e.log[k].principal # 0 => e.log[k].kind = "user"
  <2>1. \A k \in DOMAIN e.log :
          e.log[k] = m \/ (k \in DOMAIN d.log /\ e.log[k] = d.log[k])
    BY DEF Put, Pair
  <2> QED  BY <1>1, <2>1, ZenonT(30) DEF MapInv
<1>11. MapInv(e)
  BY <1>9, <1>10 DEF MapInv
<1> QED  BY <1>1, <1>6, <1>11

(* BuildChannelMutationBatch, applied to a stored channel that keeps its   *)
(* creator and its visibility.                                             *)
LEMMA MemberChangeMaps ==
  ASSUME NEW d, GoodDb(d), MapInv(d), NEW c \in DOMAIN d.chan, c \in Nat,
         NEW ch \in Channels, NEW kind \in SystemKinds,
         NEW who \in SUBSET Principals, NEW e, GoodDb(e),
         e = Apply(BuildChannelMutationBatch(d, c, ch, kind, who), d),
         ch.creator = d.chan[c].creator, ch.visibility = d.chan[c].visibility,
         NEW cred \in d.tokens, cred[1] = d.chan[c].creator,
         \A p \in Principals :
           p \in ch.members <=> IF p \in who THEN kind # "member_removed"
                                ELSE SaysMember(MessageSequence(d), c, p)
  PROVE  MapInv(e) /\ \E m : /\ ChangesMember(d, e, m, kind)
                             /\ m.channel = c /\ m.who = who
<1> DEFINE s == GetMaxSeq(d) + 1
           u == GetNextUuid(d)
           b == BuildChannelMutationBatch(d, c, ch, kind, who)
           m == [channel |-> c, principal |-> 0, uuid |-> u,
                 recipients |-> {}, kind |-> kind, who |-> who]
           g == [k \in {"max_seq", "next_uuid"} |->
                   IF k = "max_seq" THEN s ELSE u + 1]
<1>1. /\ b.chan = Pair(c, ch) /\ b.log = Pair(s, m) /\ b.meta = g
      /\ b.addTokens = {} /\ b.delTokens = {}
  BY DEF BuildChannelMutationBatch, EmptyBatch
<1>2. e = Apply(b, d)
  OBVIOUS
<1>3. d.meta \in [MetaKeys -> Nat] /\ s \in Nat /\ u + 1 \in Nat
  BY SMT DEF GoodDb, DbTypeOK, GetMaxSeq, GetNextUuid, MetaKeys
<1>4. /\ e.chan = Put(d.chan, Pair(c, ch)) /\ e.log = Put(d.log, Pair(s, m))
      /\ e.meta = Put(d.meta, g) /\ e.tokens = d.tokens
  <2> HIDE DEF b, g, m
  <2> QED  BY <1>1, <1>2, SMT DEF Apply
<1>5. GetMaxSeq(e) = s /\ GetNextChannelId(e) = GetNextChannelId(d)
  <2>1. PICK n \in Nat, v \in Nat, f \in [MetaKeys -> Nat] :
          n = s /\ v = u + 1 /\ f = d.meta
    BY <1>3
  <2>2. e.meta = Put(f, [k \in {"max_seq", "next_uuid"} |->
                           IF k = "max_seq" THEN n ELSE v])
    BY <1>4, <2>1
  <2>3. e.meta["max_seq"] = n /\ e.meta["next_channel_id"] = f["next_channel_id"]
    BY <2>1, <2>2, PutSeqAndUuid, SMT
  <2> QED  BY <2>1, <2>3 DEF GetMaxSeq, GetNextChannelId
<1> HIDE DEF b, g
<1>6. PICK mm : mm = m
  OBVIOUS
<1>7. MapInv(e) /\ AppendsSystem(d, e, mm, kind) /\ mm.channel = c /\ mm.who = who
  BY <1>4, <1>5, <1>6, MutationMaps, SMTT(30)
<1>8. ChannelTable(e) = ChannelTable(d)
  <2>1. \A x \in DOMAIN d.chan : /\ e.chan[x].creator = d.chan[x].creator
                                 /\ e.chan[x].visibility = d.chan[x].visibility
    BY <1>4, SMT DEF Put, Pair
  <2>2. DOMAIN d.chan = 1..(GetNextChannelId(d) - 1)
    BY TableOfChannels
  <2> QED  BY <1>5, <2>1, <2>2 DEF ChannelTable
<1>9. c \in DOMAIN ChannelTable(d) /\ ChannelTable(d)[c].creator = cred[1]
  BY TableOfChannels
<1>10. ChangesMember(d, e, mm, kind)
  BY <1>7, <1>8, <1>9 DEF ChangesMember
<1> QED  BY <1>7, <1>10

(* AddMember, after its checks.                                            *)
LEMMA AddMemberMaps ==
  ASSUME NEW d, GoodDb(d), MapInv(d), NEW cred \in d.tokens, NEW c \in Nat,
         NEW q \in Principals, ValidateAddMember(d, cred[1], c, q) = "OK",
         NEW e, e = Apply(AddMemberBatch(d, c, q), d), GoodDb(e)
  PROVE  MapInv(e) /\ \E m : AddsMember(d, e, m)
<1> DEFINE ch == [d.chan[c] EXCEPT !.members = d.chan[c].members \cup {q}]
<1>1. /\ c \in DOMAIN d.chan /\ q \notin d.chan[c].members
      /\ cred[1] = d.chan[c].creator
  BY DEF ValidateAddMember, ValidateMemberChange, ??, Check
<1>2. d.chan[c] \in Channels
  BY <1>1 DEF GoodDb, DbTypeOK
<1>3. /\ ch \in Channels /\ ch.members = d.chan[c].members \cup {q}
      /\ ch.creator = d.chan[c].creator
      /\ ch.visibility = d.chan[c].visibility
  BY <1>2 DEF Channels
<1>4. e = Apply(BuildChannelMutationBatch(d, c, ch, "member_added", {q}), d)
  BY DEF AddMemberBatch
<1> HIDE DEF ch
<1>5. \A p \in Principals : p \in d.chan[c].members
                              <=> SaysMember(MessageSequence(d), c, p)
  BY <1>1 DEF MapInv
<1>6. PICK who \in SUBSET Principals, kind \in SystemKinds :
        who = {q} /\ kind = "member_added"
  BY DEF SystemKinds
<1>7. \A p \in Principals :
        p \in ch.members <=> IF p \in who THEN kind # "member_removed"
                             ELSE SaysMember(MessageSequence(d), c, p)
  BY <1>3, <1>5, <1>6
<1>8. PICK x \in Channels : x = ch
  BY <1>3
<1>9. e = Apply(BuildChannelMutationBatch(d, c, x, kind, who), d)
  BY <1>4, <1>6, <1>8
<1>10. MapInv(e) /\ \E m : /\ ChangesMember(d, e, m, kind)
                           /\ m.channel = c /\ m.who = who
  BY <1>1, <1>3, <1>7, <1>8, <1>9, MemberChangeMaps, SMT
<1>11. PICK m : ChangesMember(d, e, m, kind) /\ m.channel = c /\ m.who = who
  BY <1>10
<1>12. AddsMember(d, e, m)
  BY <1>1, <1>5, <1>6, <1>11 DEF AddsMember
<1> QED  BY <1>10, <1>12

(* RemoveMember, after its checks, of a principal that is a member.        *)
LEMMA RemoveMemberMaps ==
  ASSUME NEW d, GoodDb(d), MapInv(d), NEW cred \in d.tokens, NEW c \in Nat,
         NEW q \in Principals, ValidateRemoveMember(d, cred[1], c, q) = "OK",
         q \in d.chan[c].members,
         NEW e, e = Apply(RemoveMemberBatch(d, c, q), d), GoodDb(e)
  PROVE  MapInv(e) /\ \E m : RemovesMember(d, e, m)
<1> DEFINE ch == [d.chan[c] EXCEPT !.members = d.chan[c].members \ {q}]
<1>1. /\ c \in DOMAIN d.chan /\ q # d.chan[c].creator
      /\ cred[1] = d.chan[c].creator
  BY DEF ValidateRemoveMember, ValidateMemberChange, ??, Check
<1>2. d.chan[c] \in Channels
  BY <1>1 DEF GoodDb, DbTypeOK
<1>3. /\ ch \in Channels /\ ch.members = d.chan[c].members \ {q}
      /\ ch.creator = d.chan[c].creator
      /\ ch.visibility = d.chan[c].visibility
  BY <1>2 DEF Channels
<1>4. e = Apply(BuildChannelMutationBatch(d, c, ch, "member_removed", {q}), d)
  BY DEF RemoveMemberBatch
<1> HIDE DEF ch
<1>5. \A p \in Principals : p \in d.chan[c].members
                              <=> SaysMember(MessageSequence(d), c, p)
  BY <1>1 DEF MapInv
<1>6. PICK who \in SUBSET Principals, kind \in SystemKinds :
        who = {q} /\ kind = "member_removed"
  BY DEF SystemKinds
<1>7. \A p \in Principals :
        p \in ch.members <=> IF p \in who THEN kind # "member_removed"
                             ELSE SaysMember(MessageSequence(d), c, p)
  BY <1>3, <1>5, <1>6
<1>8. PICK x \in Channels : x = ch
  BY <1>3
<1>9. e = Apply(BuildChannelMutationBatch(d, c, x, kind, who), d)
  BY <1>4, <1>6, <1>8
<1>10. MapInv(e) /\ \E m : /\ ChangesMember(d, e, m, kind)
                           /\ m.channel = c /\ m.who = who
  BY <1>1, <1>3, <1>7, <1>8, <1>9, MemberChangeMaps, SMT
<1>11. PICK m : ChangesMember(d, e, m, kind) /\ m.channel = c /\ m.who = who
  BY <1>10
<1>12. ChannelTable(d)[c].creator = d.chan[c].creator
  BY <1>1, TableOfChannels
<1>13. RemovesMember(d, e, m)
  BY <1>1, <1>5, <1>6, <1>11, <1>12 DEF RemovesMember
<1> QED  BY <1>10, <1>13


(* No message mentions a channel that does not exist yet.                  *)
LEMMA NothingSaidOfNewChannel ==
  ASSUME NEW d, GoodDb(d), NEW c, c # 0, c \notin DOMAIN d.chan, NEW p
  PROVE  ~SaysMember(MessageSequence(d), c, p)
<1> SUFFICES ASSUME NEW i \in DOMAIN MessageSequence(d),
                    Mentions(MessageSequence(d)[i], c, p)
             PROVE  FALSE
  BY DEF SaysMember
<1>1. i \in 1..(GetMaxSeq(d) + 1) /\ GetMaxSeq(d) \in Nat
  BY SequenceOfLog
<1>2. MessageSequence(d)[i] = d.log[i - 1] /\ i - 1 \in DOMAIN d.log
  BY <1>1, SequenceOfLog
<1>3. PICK k \in DOMAIN d.log : k = i - 1
  BY <1>2
<1>4. Mentions(d.log[k], c, p) /\ k \in Nat
  BY <1>1, <1>2, <1>3, SMT
<1>5. CASE k = 0
  <2>1. d.log[k] = InitializationMessage
    BY <1>5 DEF GoodDb, RecordsValid, ValidStoredMessage
  <2> QED  BY <1>4, <2>1, SMT DEF InitializationMessage, Mentions, SystemKinds
<1>6. CASE k # 0
  <2>1. d.log[k].channel \in DOMAIN d.chan
    <3>1. k > 0
      BY <1>4, <1>6, SMT
    <3> QED  BY <3>1 DEF GoodDb, RecordsValid
  <2> QED  BY <1>4, <2>1 DEF Mentions
<1> QED  BY <1>5, <1>6

(* CreateChannel, after its checks.                                        *)
LEMMA CreateChannelMaps ==
  ASSUME NEW d, GoodDb(d), MapInv(d), NEW cred \in d.tokens,
         NEW ch \in Channels, ch.creator = cred[1], cred[1] \in ch.members,
         NEW e, e = Apply(CreateChannelBatch(d, ch), d), GoodDb(e)
  PROVE  MapInv(e) /\ \E m : CreatesChannel(d, e, m)
<1> DEFINE s == GetMaxSeq(d) + 1
           u == GetNextUuid(d)
           c == GetNextChannelId(d)
           who == ch.members
           b == CreateChannelBatch(d, ch)
           m == [channel |-> c, principal |-> 0, uuid |-> u,
                 recipients |-> {}, kind |-> "channel_initialized",
                 who |-> who]
           g == [k \in {"max_seq", "next_uuid"} |->
                   IF k = "max_seq" THEN s ELSE u + 1]
<1>1. /\ b.chan = Pair(c, ch) /\ b.log = Pair(s, m)
      /\ b.meta = Put(g, Pair("next_channel_id", c + 1))
      /\ b.addTokens = {} /\ b.delTokens = {}
  BY DEF CreateChannelBatch, BuildChannelMutationBatch, EmptyBatch
<1>2. e = Apply(b, d)
  OBVIOUS
<1>3. /\ d.meta \in [MetaKeys -> Nat] /\ s \in Nat /\ u \in Nat
      /\ c \in Nat \ {0} /\ DOMAIN d.chan = 1..(c - 1)
  <2>1. d.meta \in [MetaKeys -> Nat] /\ s \in Nat /\ u \in Nat
    BY SMT DEF GoodDb, DbTypeOK, GetMaxSeq, GetNextUuid, MetaKeys
  <2> QED  BY <2>1, TableOfChannels
<1>4. /\ e.chan = Put(d.chan, Pair(c, ch)) /\ e.log = Put(d.log, Pair(s, m))
      /\ e.meta = Put(d.meta, Put(g, Pair("next_channel_id", c + 1)))
      /\ e.tokens = d.tokens
  <2> HIDE DEF b, g, m
  <2> QED  BY <1>1, <1>2, SMT DEF Apply
<1>5. GetMaxSeq(e) = s /\ GetNextChannelId(e) = c + 1
  <2>1. Put(g, Pair("next_channel_id", c + 1))
          = [k \in MetaKeys |-> IF k = "next_channel_id" THEN c + 1
                                ELSE IF k = "max_seq" THEN s ELSE u + 1]
    BY DEF Put, Pair, MetaKeys
  <2>2. e.meta = [k \in MetaKeys |-> IF k = "next_channel_id" THEN c + 1
                                     ELSE IF k = "max_seq" THEN s ELSE u + 1]
    <3>1. DOMAIN d.meta \cup MetaKeys = MetaKeys
      BY <1>3
    <3> QED  BY <1>4, <2>1, <3>1, ZenonT(60) DEF Put
  <2>3. e.meta["max_seq"] = s /\ e.meta["next_channel_id"] = c + 1
    <3> HIDE DEF s, c, u
    <3> QED  BY <2>2 DEF MetaKeys
  <2> QED  BY <2>3 DEF GetMaxSeq, GetNextChannelId
<1> HIDE DEF b, g
<1>6. c \notin DOMAIN d.chan /\ c # 0
  BY <1>3, SMT
<1>7. PICK mm, kind, k, W :
        /\ kind \in SystemKinds /\ k \in Nat /\ W \in SUBSET Principals
        /\ mm = m /\ kind = "channel_initialized" /\ k = c /\ W = ch.members
  <2>1. /\ "channel_initialized" \in SystemKinds /\ c \in Nat
        /\ ch.members \in SUBSET Principals
    BY <1>3 DEF SystemKinds, Channels
  <2> HIDE DEF c, m
  <2> QED  BY <2>1
<1>8. \A p \in Principals :
        p \in ch.members <=> IF p \in W THEN kind # "member_removed"
                             ELSE SaysMember(MessageSequence(d), k, p)
  <2>1. \A p : ~SaysMember(MessageSequence(d), k, p)
    BY <1>6, <1>7, NothingSaidOfNewChannel
  <2> QED  BY <1>7, <2>1
<1>9. mm = [channel |-> k, principal |-> 0, uuid |-> GetNextUuid(d),
            recipients |-> {}, kind |-> kind, who |-> W]
  BY <1>7
<1>10. /\ e.log = Put(d.log, Pair(GetMaxSeq(d) + 1, mm))
       /\ e.chan = Put(d.chan, Pair(k, ch)) /\ e.tokens = d.tokens
       /\ GetMaxSeq(e) = GetMaxSeq(d) + 1
  BY <1>4, <1>5, <1>7
<1> HIDE DEF m, s, u
<1>11. /\ MapInv(e) /\ AppendsSystem(d, e, mm, kind)
       /\ mm.channel = k /\ mm.who = W
  BY <1>7, <1>8, <1>9, <1>10, MutationMaps, SMTT(30)
<1> DEFINE S == [visibility : Visibilities, creator : Principals]
           row == [visibility |-> ch.visibility, creator |-> ch.creator]
           D == ChannelTable(d)
           E == ChannelTable(e)
<1>12. PICK n \in Nat : c = n + 1
  BY <1>3, SMT
<1>13. /\ D = [x \in 1..n |-> [visibility |-> d.chan[x].visibility,
                              creator |-> d.chan[x].creator]]
       /\ E = [x \in 1..(n + 1) |-> [visibility |-> e.chan[x].visibility,
                                     creator |-> e.chan[x].creator]]
  <2>1. GetNextChannelId(d) - 1 = n /\ GetNextChannelId(e) - 1 = n + 1
    BY <1>5, <1>12, SMT
  <2> QED  BY <2>1 DEF ChannelTable
<1>14. /\ \A x \in 1..n : d.chan[x] \in Channels /\ e.chan[x] = d.chan[x]
       /\ e.chan[n + 1] = ch
  <2>1. DOMAIN d.chan = 1..n
    BY <1>3, <1>12, SMT
  <2>2. \A x \in 1..n : d.chan[x] \in Channels
    BY <2>1 DEF GoodDb, DbTypeOK
  <2>3. \A x \in 1..n : x # c /\ x \in DOMAIN d.chan
    BY <1>12, <2>1, SMT
  <2> HIDE DEF c
  <2>4. \A x \in 1..n : e.chan[x] = d.chan[x]
    BY <1>4, <2>3, SMT DEF Put, Pair
  <2>5. e.chan[c] = ch
    BY <1>4 DEF Put, Pair
  <2> QED  BY <1>12, <2>2, <2>4, <2>5
<1>15. row \in S /\ row.creator = ch.creator
  BY DEF Channels
<1>16. /\ \A x \in 1..n : D[x] \in S /\ E[x] = D[x]
       /\ E[n + 1] = row
  <2>1. \A x \in 1..n : D[x] \in S
    BY <1>13, <1>14, SMT DEF Channels
  <2>2. \A x \in 1..n : E[x] = D[x]
    BY <1>13, <1>14, SMT
  <2>3. E[n + 1] = row
    BY <1>13, <1>14, SMT
  <2> QED  BY <2>1, <2>2, <2>3
<1> HIDE DEF S, row
<1>17. D \in Seq(S) /\ Len(D) = n /\ E \in Seq(S) /\ Len(E) = n + 1
  <2>1. DOMAIN D = 1..n /\ DOMAIN E = 1..(n + 1)
    BY <1>13
  <2>2. \A x \in 1..(n + 1) : E[x] \in S
    BY <1>15, <1>16, SMT
  <2>3. D = [x \in 1..n |-> D[x]] /\ E = [x \in 1..(n + 1) |-> E[x]]
    BY <1>13
  <2> HIDE DEF D, E
  <2>4. D \in Seq(S)
    <3>1. \A x \in 1..n : D[x] \in S
      BY <1>16
    <3> QED  BY <2>3, <3>1, SMTT(30)
  <2>5. E \in Seq(S)
    BY <2>2, <2>3, SMTT(30)
  <2>6. Len(D) = n
    BY <2>1, <2>4, SMT
  <2>7. Len(E) = n + 1
    BY <2>1, <2>5, SMT
  <2> QED  BY <2>4, <2>5, <2>6, <2>7
<1> HIDE DEF D, E
<1>18. E = Append(D, row)
  <2>1. PICK A \in Seq(S), B \in Seq(S), r \in S : A = D /\ B = E /\ r = row
    BY <1>15, <1>17
  <2>2. /\ Len(A) = n /\ Len(B) = n + 1
        /\ \A x \in 1..n : B[x] = A[x]
        /\ B[n + 1] = r
    BY <1>16, <1>17, <2>1
  <2>3. B = Append(A, r)
    BY <2>2, AppendIs, SMT
  <2> QED  BY <2>1, <2>3
<1>19. row \in {E[x] : x \in DOMAIN E}
  <2>1. n + 1 \in DOMAIN E
    BY <1>17, SMT
  <2> QED  BY <1>16, <2>1
<1>20. CreatesChannel(d, e, mm)
  <2>1. mm.channel = Len(D) + 1
    BY <1>7, <1>11, <1>12, <1>17
  <2>2. row.creator \in mm.who /\ row.creator = cred[1]
    BY <1>7, <1>11, <1>15
  <2>3. \E x \in {E[y] : y \in DOMAIN E} :
          /\ E = Append(D, x)
          /\ x.creator \in mm.who /\ \E k1 \in d.tokens : k1[1] = x.creator
    BY <1>18, <1>19, <2>2
  <2>4. AppendsSystem(d, e, mm, "channel_initialized")
    BY <1>7, <1>11
  <2> QED  BY <2>1, <2>3, <2>4 DEF CreatesChannel, D, E
<1> QED  BY <1>11, <1>20


(* What a built batch is to PublicationLog: a message appended, a token    *)
(* added or removed, or nothing.                                           *)
SameMap(d, e) ==
  MessageSequence(e) = MessageSequence(d) /\ ChannelTable(e) = ChannelTable(d)

(* A batch that leaves log, channels and their counters alone changes      *)
(* neither mapped sequence.                                                *)
LEMMA SameLogMaps ==
  ASSUME NEW d, GoodDb(d), MapInv(d), NEW e, e.log = d.log, e.chan = d.chan,
         GetMaxSeq(e) = GetMaxSeq(d), GetNextChannelId(e) = GetNextChannelId(d)
  PROVE  MapInv(e) /\ SameMap(d, e)
<1>1. SameMap(d, e)
  BY DEF SameMap, MessageSequence, ChannelTable
<1> QED  BY <1>1 DEF SameMap, MapInv

(* What applying a batch does to the mapped log, for every batch the       *)
(* coordinator builds: nothing, one token more or less, or one appended    *)
(* message that PublicationLog allows.                                     *)
LEMMA BuiltMaps ==
  ASSUME NEW d, GoodDb(d), MapInv(d), NEW b, Built(b, d), NEW e,
         e = Apply(b, d), GoodDb(e)
  PROVE  /\ MapInv(e)
         /\ \/ SameMap(d, e) /\ e.tokens = d.tokens
            \/ SameMap(d, e) /\ \E cred \in b.addTokens :
                                  e.tokens = d.tokens \cup {cred}
            \/ SameMap(d, e) /\ \E cred \in d.tokens : e.tokens = d.tokens \ {cred}
            \/ \E m : \/ AppendsUser(d, e, m) \/ CreatesChannel(d, e, m)
                      \/ AddsMember(d, e, m) \/ RemovesMember(d, e, m)
<1>0. /\ d.meta \in [MetaKeys -> Nat] /\ d.chan \in [DOMAIN d.chan -> Channels]
      /\ d.log \in [DOMAIN d.log -> Messages]
  BY DEF GoodDb, DbTypeOK
<1>1. b.log = NoPairs /\ b.chan = NoPairs => e.log = d.log /\ e.chan = d.chan
  BY <1>0, PutNothing DEF Apply
<1>2. b.meta = NoPairs => e.meta = d.meta
  BY <1>0, PutNothing DEF Apply
<1>3. e.tokens = (d.tokens \cup b.addTokens) \ b.delTokens
  BY DEF Apply
<1>4. ASSUME NEW count \in Nat, b = AllocateUuidsBatch(d, count)
      PROVE  MapInv(e) /\ SameMap(d, e) /\ e.tokens = d.tokens
  <2>1. /\ b.log = NoPairs /\ b.chan = NoPairs /\ b.addTokens = {}
        /\ b.delTokens = {} /\ b.meta = Pair("next_uuid", GetNextUuid(d) + count)
    BY <1>4 DEF AllocateUuidsBatch, EmptyBatch
  <2>2. PICK v \in Nat, f \in [MetaKeys -> Nat] :
          v = GetNextUuid(d) + count /\ f = d.meta
    BY <1>0, SMT DEF GetNextUuid, MetaKeys
  <2>3. e.meta = Put(f, Pair("next_uuid", v))
    BY <2>1, <2>2 DEF Apply
  <2>4. e.meta = [x \in MetaKeys |-> IF x = "next_uuid" THEN v ELSE f[x]]
    <3>1. DOMAIN f \cup {"next_uuid"} = MetaKeys
      BY DEF MetaKeys
    <3> QED  BY <2>3, <3>1 DEF Put, Pair
  <2>5. GetMaxSeq(e) = GetMaxSeq(d) /\ GetNextChannelId(e) = GetNextChannelId(d)
    BY <2>2, <2>4 DEF MetaKeys, GetMaxSeq, GetNextChannelId
  <2>6. e.tokens = d.tokens
    BY <1>3, <2>1
  <2> QED  BY <1>1, <2>1, <2>5, <2>6, SameLogMaps
<1>5. ASSUME b.log = NoPairs, b.chan = NoPairs, b.meta = NoPairs
      PROVE  MapInv(e) /\ SameMap(d, e)
  BY <1>1, <1>2, <1>5, SameLogMaps DEF GetMaxSeq, GetNextChannelId
<1>6. ASSUME NEW cred \in Credentials, b = AddTokenBatch(cred)
      PROVE  /\ MapInv(e) /\ SameMap(d, e)
             /\ cred \in b.addTokens /\ e.tokens = d.tokens \cup {cred}
  <2>1. /\ b.log = NoPairs /\ b.chan = NoPairs /\ b.meta = NoPairs
        /\ b.addTokens = {cred} /\ b.delTokens = {}
    BY <1>6 DEF AddTokenBatch, EmptyBatch
  <2> QED  BY <1>3, <1>5, <2>1
<1>7. ASSUME NEW cred \in Credentials, b = DeleteTokenBatch(cred)
      PROVE  MapInv(e) /\ SameMap(d, e) /\ e.tokens = d.tokens \ {cred}
  <2>1. /\ b.log = NoPairs /\ b.chan = NoPairs /\ b.meta = NoPairs
        /\ b.addTokens = {} /\ b.delTokens = {cred}
    BY <1>7 DEF DeleteTokenBatch, EmptyBatch
  <2> QED  BY <1>3, <1>5, <2>1
<1>8. CASE \E cred \in d.tokens, c \in Nat, u \in Nat, R \in SUBSET Principals :
             /\ b = BuildPublishBatch(cred[1], c, GetMaxSeq(d) + 1, u, R)
             /\ ValidateAvailableUuid(d, u) = "OK"
             /\ ValidatePublishTarget(d, cred[1], c, R) = "OK"
  BY <1>8, PublishMaps
<1>9. CASE \E cred \in d.tokens, ch \in Channels :
             /\ b = CreateChannelBatch(d, ch)
             /\ ch.creator = cred[1] /\ cred[1] \in ch.members
             /\ Cardinality(ch.members) <= kMaxChannelMembers
  BY <1>9, CreateChannelMaps
<1>10. CASE \E cred \in d.tokens, c \in Nat, q \in Principals :
              /\ ValidateAddMember(d, cred[1], c, q) = "OK"
              /\ b = AddMemberBatch(d, c, q)
  BY <1>10, AddMemberMaps
<1>11. CASE \E cred \in d.tokens, c \in Nat, q \in Principals :
              /\ ValidateRemoveMember(d, cred[1], c, q) = "OK"
              /\ q \in d.chan[c].members
              /\ b = RemoveMemberBatch(d, c, q)
  BY <1>11, RemoveMemberMaps
<1>12. CASE \E count \in Nat : b = AllocateUuidsBatch(d, count)
  BY <1>4, <1>12
<1>13. CASE \E cred \in Credentials : b = AddTokenBatch(cred)
  BY <1>6, <1>13
<1>14. CASE \E cred \in Credentials : b = DeleteTokenBatch(cred)
  <2>1. PICK cred \in Credentials : b = DeleteTokenBatch(cred)
    BY <1>14
  <2>2. MapInv(e) /\ SameMap(d, e) /\ e.tokens = d.tokens \ {cred}
    BY <1>7, <2>1
  <2>3. cred \notin d.tokens => e.tokens = d.tokens
    BY <2>2
  <2> QED  BY <2>2, <2>3
<1> QED  BY <1>8, <1>9, <1>10, <1>11, <1>12, <1>13, <1>14 DEF Built

(* Membership is said by the same messages on both sides.                  *)
LEMMA SameMember ==
  \A c, p : Promise!Member(c, p) <=> SaysMember(MessageSequence(db), c, p)
BY DEF Promise!Member, Promise!About, SaysMember, Mentions, SystemKinds

(* An appended message is one of the abstract log's steps: the uuid the    *)
(* coordinator takes for a system message was never issued to a client.    *)
LEMMA AppendStep ==
  ASSUME IInv, AnswersInv, UNCHANGED <<issued, acked, revoked>>, NEW m,
         \/ AppendsUser(db, db', m) \/ CreatesChannel(db, db', m)
         \/ AddsMember(db, db', m) \/ RemovesMember(db, db', m)
  PROVE  Promise!AppendMessage
<1>1. /\ Appends(db, db', m) /\ GoodDb(db)
  BY DEF AppendsUser, CreatesChannel, AddsMember, RemovesMember,
         ChangesMember, AppendsSystem, IInv, CoordinatorInv
<1>2. GetMaxSeq(db) \in Nat
  BY <1>1, SequenceOfLog
<1>3. GetNextUuid(db) \notin issued
  <2>1. issued \subseteq Nat /\ GetNextUuid(db) \in Nat
    BY <1>1 DEF IInv, TypeOK, GoodDb, DbTypeOK, GetNextUuid, MetaKeys
  <2>2. \A u \in issued : u < GetNextUuid(db)
    BY DEF AnswersInv, Kept, Owned, Told
  <2> QED  BY <2>1, <2>2, SMT
<1>4. m \in {MessageSequence(db')[i] : i \in DOMAIN MessageSequence(db')
                                            \ DOMAIN MessageSequence(db)}
  <2>1. /\ DOMAIN MessageSequence(db) = 1..(GetMaxSeq(db) + 1)
        /\ DOMAIN MessageSequence(db') = 1..(GetMaxSeq(db) + 2)
        /\ MessageSequence(db')[GetMaxSeq(db) + 2] = m
    <3>1. DOMAIN MessageSequence(db) = 1..(GetMaxSeq(db) + 1)
      BY <1>1, SequenceOfLog
    <3>2. DOMAIN MessageSequence(db') = 1..(GetMaxSeq(db') + 1)
      BY DEF MessageSequence
    <3> QED  BY <1>1, <1>2, <3>1, <3>2, SMT DEF Appends
  <2>2. GetMaxSeq(db) + 2 \in DOMAIN MessageSequence(db')
                                \ DOMAIN MessageSequence(db)
    BY <1>2, <2>1, SMT
  <2> QED  BY <2>1, <2>2
<1>5. CASE AppendsUser(db, db', m)
  <2>1. Promise!AppendUser(m)
    BY <1>5, SameMember DEF Promise!AppendUser, Promise!Unused,
       Promise!Authenticated, AppendsUser, Appends
  <2> QED  BY <1>4, <2>1 DEF Promise!AppendMessage
<1>6. ASSUME NEW kind, AppendsSystem(db, db', m, kind)
      PROVE  Promise!AppendSystem(m, kind)
  BY <1>3, <1>6 DEF Promise!AppendSystem, Promise!Unused, AppendsSystem, Appends
<1>7. CASE CreatesChannel(db, db', m)
  <2>1. Promise!CreateChannel(m)
    BY <1>6, <1>7 DEF Promise!CreateChannel, Promise!Authenticated,
       CreatesChannel
  <2> QED  BY <1>4, <2>1 DEF Promise!AppendMessage
<1>8. ASSUME NEW kind, ChangesMember(db, db', m, kind)
      PROVE  Promise!ChangeMember(m, kind)
  BY <1>6, <1>8 DEF Promise!ChangeMember, Promise!Authenticated, ChangesMember
<1>9. CASE AddsMember(db, db', m)
  <2>1. Promise!AddMember(m)
    BY <1>8, <1>9, SameMember DEF Promise!AddMember, AddsMember
  <2> QED  BY <1>4, <2>1 DEF Promise!AppendMessage
<1>10. CASE RemovesMember(db, db', m)
  <2>1. Promise!RemoveMember(m)
    BY <1>8, <1>10, SameMember DEF Promise!RemoveMember, RemovesMember
  <2> QED  BY <1>4, <2>1 DEF Promise!AppendMessage
<1> QED  BY <1>5, <1>7, <1>9, <1>10

(* A reply of the service is an Answer: the uuids it issues were not used  *)
(* by the server itself, the seqs it reports hold those uuids, and the     *)
(* tokens it calls deleted are gone.                                       *)
LEMMA AnswerStep ==
  ASSUME IInv, AnswersInv, MapInv(db), NEW w \in Workers, Reply(w)
  PROVE  Promise!Answer
<1>1. /\ GoodDb(db) /\ Kept(db, call[w]) /\ Kept(db, Told)
  BY DEF IInv, CoordinatorInv, AnswersInv, Reply
<1>2. /\ db' = db /\ issued' = issued \cup call[w].uuids
      /\ acked' = acked \cup call[w].seqs
      /\ revoked' = revoked \cup call[w].revokes
  BY DEF Reply, storage
<1>3. ASSUME NEW u \in issued' \ issued, NEW i \in DOMAIN MessageSequence(db),
             MessageSequence(db)[i].uuid = u
      PROVE  MessageSequence(db)[i].kind = "user"
  <2>1. i \in 1..(GetMaxSeq(db) + 1)
    BY <1>1, SequenceOfLog
  <2>2. MessageSequence(db)[i] = db.log[i - 1] /\ i - 1 \in DOMAIN db.log
    BY <1>1, <2>1, SequenceOfLog
  <2>3. PICK k \in DOMAIN db.log : k = i - 1
    BY <2>2
  <2>4. db.log[k].uuid = u /\ MessageSequence(db)[i] = db.log[k]
    BY <1>3, <2>2, <2>3
  <2>5. u \in DOMAIN db.uuid /\ db.uuid[u] = k
    BY <1>1, <2>4 DEF GoodDb, UuidIndexExact
  <2>6. u \in call[w].uuids
    BY <1>2, <1>3
  <2>7. db.log[k].principal # 0
    BY <1>1, <2>5, <2>6 DEF Kept, Owned
  <2> QED  BY <2>4, <2>7 DEF MapInv
<1>4. ASSUME NEW p \in acked' \ acked
      PROVE  /\ p[2] + 1 \in DOMAIN MessageSequence(db)
             /\ MessageSequence(db)[p[2] + 1].uuid = p[1]
  <2>1. p \in call[w].seqs /\ call[w].seqs \subseteq Nat \X Nat
    BY <1>2, <1>4 DEF IInv, TypeOK, Calls
  <2>2. PICK u \in Nat, k \in Nat : p[1] = u /\ p[2] = k
    BY <2>1
  <2>3. u \in DOMAIN db.uuid /\ db.uuid[u] = k
    BY <1>1, <2>1, <2>2 DEF Kept
  <2>4. k \in DOMAIN db.log /\ db.log[k].uuid = u
    BY <1>1, <2>3 DEF GoodDb, UuidIndexExact
  <2>5. k \in 0..GetMaxSeq(db) /\ GetMaxSeq(db) \in Nat
    BY <1>1, <2>4, SequenceOfLog DEF GoodDb, LogDense
  <2>6. k + 1 \in 1..(GetMaxSeq(db) + 1) /\ (k + 1) - 1 = k
    BY <2>5, SMT
  <2>7. /\ k + 1 \in DOMAIN MessageSequence(db)
        /\ MessageSequence(db)[k + 1] = db.log[k]
    BY <2>6 DEF MessageSequence
  <2> QED  BY <2>2, <2>4, <2>7
<1>5. revoked' \cap db.tokens = {}
  BY <1>1, <1>2 DEF Kept, Told
<1> QED  BY <1>2, <1>3, <1>4, <1>5 DEF Promise!Answer

(* Every step of EventLog preserves MapInv, and is a step or a stutter of  *)
(* PublicationLog.                                                         *)
LEMMA PromiseStep ==
  ASSUME IInv, AnswersInv, MapInv(db), [Next]_vars
  PROVE  MapInv(db') /\ [Promise!Next]_(Promise!vars)
<1>0. GoodDb(db) /\ GoodDb(db')
  BY NextIInv DEF IInv, CoordinatorInv
<1>1. CASE UNCHANGED <<db, issued, acked, revoked>>
  <2>1. db' = db /\ issued' = issued /\ acked' = acked /\ revoked' = revoked
    BY <1>1
  <2>2. UNCHANGED Promise!vars
    BY <2>1 DEF Promise!vars
  <2> QED  BY <2>1, <2>2
<1>2. CASE /\ UNCHANGED <<issued, acked, revoked>>
           /\ \E b : /\ Built(b, db) /\ b.addTokens \cap revoked = {}
                     /\ db' = Apply(b, db)
  <2>0. issued' = issued /\ acked' = acked /\ revoked' = revoked
    BY <1>2
  <2>1. PICK b : /\ Built(b, db) /\ b.addTokens \cap revoked = {}
                 /\ db' = Apply(b, db)
    BY <1>2
  <2>2. PICK d, e : d = db /\ e = db'
    OBVIOUS
  <2>3. /\ MapInv(e)
        /\ \/ SameMap(d, e) /\ e.tokens = d.tokens
           \/ SameMap(d, e) /\ \E cred \in b.addTokens :
                                 e.tokens = d.tokens \cup {cred}
           \/ SameMap(d, e) /\ \E cred \in d.tokens : e.tokens = d.tokens \ {cred}
           \/ \E m : \/ AppendsUser(d, e, m) \/ CreatesChannel(d, e, m)
                     \/ AddsMember(d, e, m) \/ RemovesMember(d, e, m)
    BY <1>0, <2>1, <2>2, BuiltMaps
  <2>4. CASE SameMap(d, e) /\ e.tokens = d.tokens
    BY <2>0, <2>2, <2>3, <2>4 DEF SameMap, Promise!vars
  <2>5. CASE SameMap(d, e) /\ \E cred \in b.addTokens :
                                e.tokens = d.tokens \cup {cred}
    <3>1. Promise!ChangeToken
      BY <2>0, <2>1, <2>2, <2>5 DEF SameMap, Promise!ChangeToken
    <3> QED  BY <2>2, <2>3, <3>1 DEF Promise!Next
  <2>6. CASE SameMap(d, e) /\ \E cred \in d.tokens : e.tokens = d.tokens \ {cred}
    <3>1. Promise!ChangeToken
      BY <2>0, <2>2, <2>6 DEF SameMap, Promise!ChangeToken
    <3> QED  BY <2>2, <2>3, <3>1 DEF Promise!Next
  <2>7. CASE \E m : \/ AppendsUser(d, e, m) \/ CreatesChannel(d, e, m)
                    \/ AddsMember(d, e, m) \/ RemovesMember(d, e, m)
    <3>1. PICK m : \/ AppendsUser(db, db', m) \/ CreatesChannel(db, db', m)
                   \/ AddsMember(db, db', m) \/ RemovesMember(db, db', m)
      BY <2>2, <2>7
    <3>2. Promise!AppendMessage
      BY <2>0, <3>1, AppendStep
    <3> QED  BY <2>2, <2>3, <3>2 DEF Promise!Next
  <2> QED  BY <2>3, <2>4, <2>5, <2>6, <2>7
<1>3. CASE \E w \in Workers : Reply(w)
  <2>1. PICK w \in Workers : Reply(w)
    BY <1>3
  <2>2. db' = db
    BY <2>1 DEF Reply, storage
  <2>3. Promise!Answer
    BY <2>1, AnswerStep
  <2> QED  BY <2>2, <2>3 DEF Promise!Next
<1> QED  BY <1>1, <1>2, <1>3, StepForms

(* A fresh database maps to the one-message log of PublicationLog.         *)
LEMMA InitPromise == Init => Promise!Init /\ MapInv(db)
<1> SUFFICES ASSUME Init  PROVE Promise!Init /\ MapInv(db)
  OBVIOUS
<1>1. /\ db = InitialDb /\ acked = {} /\ revoked = {}
  BY DEF Init
<1>2. /\ db.log = [x \in {0} |-> InitializationMessage]
      /\ GetMaxSeq(db) = 0 /\ GetNextChannelId(db) = 1 /\ DOMAIN db.chan = {}
  BY <1>1 DEF InitialDb, Pair, NoPairs, GetMaxSeq, GetNextChannelId, MetaKeys
<1>3. MessageSequence(db) = [i \in 1..1 |-> InitializationMessage]
  BY <1>2, SMT DEF MessageSequence
<1>4. Len(MessageSequence(db)) = 1 /\ MessageSequence(db)[1] = InitializationMessage
  BY <1>3, SMT
<1>5. ChannelTable(db) = << >>
  <2>1. ChannelTable(db) = [c \in 1..0 |->
          [visibility |-> db.chan[c].visibility, creator |-> db.chan[c].creator]]
    BY <1>2, SMT DEF ChannelTable
  <2> QED  BY <2>1, SMT
<1>6. /\ InitializationMessage.uuid = 0 /\ InitializationMessage.principal = 0
      /\ InitializationMessage.kind = "initialization"
  BY DEF InitializationMessage
<1>7. Promise!Init
  BY <1>1, <1>4, <1>5, <1>6 DEF Promise!Init
<1>8. MapInv(db)
  BY <1>2, <1>6 DEF MapInv
<1> QED  BY <1>7, <1>8

(* The write coordinator, with its workers, lock, batches, failed writes,  *)
(* crashes and restarts, keeps the promise of PublicationLog: one message  *)
(* at a time, by authenticated members only, each uuid once, and nothing   *)
(* said to a client is ever untrue.                                        *)
THEOREM EventLogImplementsPublicationLog == Spec => ImplementsPublicationLog
<1>1. IInv /\ AnswersInv /\ MapInv(db) /\ [Next]_vars
        => MapInv(db)' /\ [Promise!Next]_(Promise!vars)
  BY PromiseStep
<1> QED  BY InitPromise, AnswersAreTrue, <1>1, PTL
         DEF Spec, ImplementsPublicationLog, Promise!Spec

=============================================================================
