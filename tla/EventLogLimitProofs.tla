------------------------ MODULE EventLogLimitProofs ------------------------
(***************************************************************************)
(* Proof that no channel outgrows kMaxChannelMembers, in a module of its    *)
(* own because it alone reasons about the cardinality of sets.              *)
(***************************************************************************)
EXTENDS EventLogProofs, FiniteSetTheorems

(* First-order steps go to Zenon; steps with arithmetic name SMT.           *)
USE Zenon

(* The member limit, of any database value.                                *)
WithinLimit(d) ==
  \A c \in DOMAIN d.chan : Cardinality(d.chan[c].members) <= kMaxChannelMembers

(* Writing one channel that respects the limit keeps the limit.            *)
LEMMA OneChannelWithinLimit ==
  ASSUME NEW d, WithinLimit(d), NEW b, NEW c, NEW ch, b.chan = Pair(c, ch),
         Cardinality(ch.members) <= kMaxChannelMembers
  PROVE  WithinLimit(Apply(b, d))
<1>1. Apply(b, d).chan = Put(d.chan, Pair(c, ch))
  BY SMT DEF Apply
<1> QED  BY <1>1, SMT DEF WithinLimit, Put, Pair

(* The checks of CreateChannel and AddMember keep every channel within     *)
(* kMaxChannelMembers; no other batch makes a channel larger.              *)
LEMMA BuiltWithinLimit ==
  ASSUME NEW d, GoodDb(d), WithinLimit(d), NEW b, Built(b, d)
  PROVE  WithinLimit(Apply(b, d))
<1>1. b.chan = NoPairs => WithinLimit(Apply(b, d))
  <2>1. d.chan \in [DOMAIN d.chan -> Channels]
    BY DEF GoodDb, DbTypeOK
  <2>2. b.chan = NoPairs => Apply(b, d).chan = d.chan
    BY <2>1, PutNothing DEF Apply
  <2> QED  BY <2>2, SMT DEF WithinLimit
<1>2. CASE \E count \in Nat : b = AllocateUuidsBatch(d, count)
  BY <1>1, <1>2, SMT DEF AllocateUuidsBatch, EmptyBatch
<1>3. CASE \E cred \in Credentials : b = AddTokenBatch(cred) \/ b = DeleteTokenBatch(cred)
  BY <1>1, <1>3, SMT DEF AddTokenBatch, DeleteTokenBatch, EmptyBatch
<1>4. CASE \E p, c, s, u, R : b = BuildPublishBatch(p, c, s, u, R)
  BY <1>1, <1>4 DEF BuildPublishBatch, EmptyBatch
<1>5. CASE \E ch \in Channels : /\ b = CreateChannelBatch(d, ch)
                                /\ Cardinality(ch.members) <= kMaxChannelMembers
  <2>1. PICK ch \in Channels : /\ b = CreateChannelBatch(d, ch)
                               /\ Cardinality(ch.members) <= kMaxChannelMembers
    BY <1>5
  <2>2. b.chan = Pair(GetNextChannelId(d), ch)
    BY <2>1 DEF CreateChannelBatch, BuildChannelMutationBatch, EmptyBatch
  <2> QED  BY <2>1, <2>2, OneChannelWithinLimit, SMT
<1>6. ASSUME NEW c, c \in DOMAIN d.chan, NEW ch, ch = d.chan[c]
      PROVE  /\ ch \in Channels
             /\ IsFiniteSet(ch.members) /\ Cardinality(ch.members) \in Nat
             /\ Cardinality(ch.members) <= kMaxChannelMembers
  <2>1. ch \in Channels
    BY <1>6 DEF GoodDb, DbTypeOK
  <2>2. ch.members \in SUBSET Principals
    BY <2>1 DEF Channels
  <2>3. IsFiniteSet(ch.members)
    BY <2>2, PrincipalsFiniteAssumption, FS_Subset, SMT
  <2>4. Cardinality(ch.members) \in Nat
    BY <2>3, FS_CardinalityType
  <2> QED  BY <1>6, <2>1, <2>3, <2>4, SMT DEF WithinLimit
<1>7. ASSUME NEW p, NEW c, NEW q, ValidateMemberChange(d, p, c) = "OK"
      PROVE  c \in DOMAIN d.chan
  BY <1>7 DEF ValidateMemberChange, ??, Check
<1>8. CASE \E cred \in d.tokens, c \in Nat, q \in Principals :
             /\ ValidateAddMember(d, cred[1], c, q) = "OK"
             /\ b = AddMemberBatch(d, c, q)
  <2>0. PICK cred \in d.tokens, c \in Nat, q \in Principals :
          /\ ValidateAddMember(d, cred[1], c, q) = "OK"
          /\ b = AddMemberBatch(d, c, q)
    BY <1>8
  <2>1. PICK p : ValidateAddMember(d, p, c, q) = "OK" /\ b = AddMemberBatch(d, c, q)
    BY <2>0
  <2>2. PICK ch : ch = d.chan[c]
    BY SMT
  <2>3. /\ ValidateMemberChange(d, p, c) = "OK" /\ q \notin ch.members
        /\ Cardinality(ch.members) < kMaxChannelMembers
    BY <2>1, <2>2, SMT DEF ValidateAddMember, ??, Check
  <2>4. c \in DOMAIN d.chan
    BY <1>7, <2>3
  <2>5. /\ ch \in Channels
        /\ IsFiniteSet(ch.members) /\ Cardinality(ch.members) \in Nat
    BY <1>6, <2>2, <2>4, SMT
  <2>6. PICK M : M = ch.members \cup {q}
    OBVIOUS
  <2>7. Cardinality(M) = Cardinality(ch.members) + 1
    BY <2>3, <2>5, <2>6, FS_AddElement
  <2>8. Cardinality(M) <= kMaxChannelMembers
    BY <2>3, <2>5, <2>7, MembersBoundAssumption, SMT
  <2>9. PICK x : x = [ch EXCEPT !.members = M]
    OBVIOUS
  <2>10. x.members = M
    BY <2>5, <2>9 DEF Channels
  <2>11. b.chan = Pair(c, x)
    BY <2>1, <2>2, <2>6, <2>9, SMT
       DEF AddMemberBatch, BuildChannelMutationBatch, EmptyBatch
  <2> QED  BY <2>8, <2>10, <2>11, OneChannelWithinLimit, SMT
<1>9. CASE \E cred \in d.tokens, c \in Nat, q \in Principals :
             /\ ValidateRemoveMember(d, cred[1], c, q) = "OK"
             /\ b = RemoveMemberBatch(d, c, q)
  <2>0. PICK cred \in d.tokens, c \in Nat, q \in Principals :
          /\ ValidateRemoveMember(d, cred[1], c, q) = "OK"
          /\ b = RemoveMemberBatch(d, c, q)
    BY <1>9
  <2>1. PICK p : ValidateRemoveMember(d, p, c, q) = "OK" /\ b = RemoveMemberBatch(d, c, q)
    BY <2>0
  <2>2. PICK ch : ch = d.chan[c]
    OBVIOUS
  <2>3. ValidateMemberChange(d, p, c) = "OK"
    BY <2>1, SMT DEF ValidateRemoveMember, ??, Check
  <2>4. c \in DOMAIN d.chan
    BY <1>7, <2>3, SMT
  <2>5. /\ ch \in Channels
        /\ IsFiniteSet(ch.members) /\ Cardinality(ch.members) \in Nat
        /\ Cardinality(ch.members) <= kMaxChannelMembers
    BY <1>6, <2>2, <2>4
  <2>6. PICK M : M = ch.members \ {q}
    OBVIOUS
  <2>7. Cardinality(M) <= Cardinality(ch.members) /\ Cardinality(M) \in Nat
    <3>1. M \in SUBSET ch.members
      BY <2>6
    <3>2. IsFiniteSet(M) /\ Cardinality(M) <= Cardinality(ch.members)
      BY <2>5, <3>1, FS_Subset, SMT
    <3> QED  BY <3>2, FS_CardinalityType, SMT
  <2>8. Cardinality(M) <= kMaxChannelMembers
    BY <2>5, <2>7, MembersBoundAssumption, SMT
  <2>9. PICK x : x = [ch EXCEPT !.members = M]
    OBVIOUS
  <2>10. x.members = M
    BY <2>5, <2>9 DEF Channels
  <2>11. b.chan = Pair(c, x)
    BY <2>1, <2>2, <2>6, <2>9, SMT
       DEF RemoveMemberBatch, BuildChannelMutationBatch, EmptyBatch
  <2> QED  BY <2>8, <2>10, <2>11, OneChannelWithinLimit
<1>10. CASE \E cred \in d.tokens, c \in Nat, u \in Nat, R \in SUBSET Principals :
                b = BuildPublishBatch(cred[1], c, GetMaxSeq(d) + 1, u, R)
  BY <1>4, <1>10
<1> QED  BY <1>2, <1>3, <1>5, <1>8, <1>9, <1>10 DEF Built

(* No channel ever has more members than kMaxChannelMembers, whichever of  *)
(* CreateChannel and AddMember made it grow, and across restarts.          *)
THEOREM MembersStayWithinLimit == Spec => []MembersWithinLimit
<1> DEFINE Limit == WithinLimit(db)
<1>1. Init => Limit
  BY SMT DEF Init, InitialDb, NoPairs, WithinLimit
<1>2. IInv /\ AnswersInv /\ Limit /\ [Next]_vars => Limit'
  <2> SUFFICES ASSUME IInv, AnswersInv, WithinLimit(db), [Next]_vars
               PROVE  WithinLimit(db')
    OBVIOUS
  <2>1. GoodDb(db)
    BY DEF IInv, CoordinatorInv
  <2>2. db' = db \/ \E b : Built(b, db) /\ db' = Apply(b, db)
    BY StepForms DEF Reply, storage
  <2> QED  BY <2>1, <2>2, BuiltWithinLimit
<1>3. Limit => MembersWithinLimit
  BY DEF WithinLimit, MembersWithinLimit
<1> HIDE DEF Limit
<1> QED  BY AnswersAreTrue, <1>1, <1>2, <1>3, PTL DEF Spec

=============================================================================
