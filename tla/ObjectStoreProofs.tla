-------------------------- MODULE ObjectStoreProofs --------------------------
(***************************************************************************)
(* The safety of object storage, and of the messages that name its         *)
(* objects, for any number of workers, credentials, objects, messages,     *)
(* kills, power losses and restarts.                                       *)
(*                                                                         *)
(* The inductive invariant follows an object through WriteObject: a worker *)
(* between its PREPARING record and its COMMITTED record owns that record, *)
(* in every state of the database a restart may find, and the step it is   *)
(* at tells what the directory may hold under the object's names.          *)
(***************************************************************************)
EXTENDS ObjectReferences, TLAPS

(* First-order steps go to Zenon; steps with arithmetic name SMT.           *)
USE Zenon

(* The states of the database that the next start may find.                *)
Possible == {meta} \cup inDoubt

Recorded(m) == m.preparing \cup m.committed

WriteLabels == {"create", "write", "fsync", "rename", "dirsync", "finish"}

CleanLabels == {"cleanTmp", "cleanFinal", "cleanSync", "cleanRecord"}

Labels ==
  {"idle", "entered", "reply", "read"} \cup WriteLabels \cup CleanLabels

(* The worker works on a PREPARING object of its own.                      *)
Owns(w) == pc[w] \in WriteLabels \cup CleanLabels

(* What the files of object i are like when its worker is at label.        *)
FileAt(label, i) ==
  /\ label \in {"create", "cleanRecord"} => maybe[i] = {{}}
  /\ label \in {"write", "fsync", "rename"} =>
       \A N \in maybe[i] : "final" \notin N
  /\ label = "fsync" => data[i] = "full"
  /\ label \in {"rename", "dirsync", "finish"} => data[i] = "full" /\ synced[i]
  /\ label = "dirsync" => names[i] = {"final"}
  /\ label = "finish" => maybe[i] = {{"final"}}
  /\ label = "cleanFinal" => "tmp" \notin names[i]
  /\ label = "cleanSync" => names[i] = {}

(* What the types of the variables for the directory are.                  *)
FileTypes ==
  /\ names \in [Ids -> SUBSET {"tmp", "final"}]
  /\ maybe \in [Ids -> SUBSET SUBSET {"tmp", "final"}]
  /\ data \in [Ids -> {"none", "partial", "full"}]
  /\ synced \in [Ids -> BOOLEAN]

(* A step that touches no file but those of object i.                      *)
OnlyFile(i) ==
  \A k \in Ids \ {i} : /\ names'[k] = names[k] /\ maybe'[k] = maybe[k]
                       /\ data'[k] = data[k] /\ synced'[k] = synced[k]

Complete(i) == maybe[i] = {{"final"}} /\ data[i] = "full" /\ synced[i]

(* One id, one object; nothing committed is missing from what a restart    *)
(* may find, and what a restart may add was committed under a valid token. *)
RecordsInv ==
  /\ acked \subseteq meta.committed
  /\ \A m \in Possible :
       /\ \A o, q \in Recorded(m) : o.id = q.id => o = q
       /\ m.preparing \cap m.committed = {}
       /\ meta.committed \subseteq m.committed
       /\ \A o \in m.committed \ meta.committed : o.creator \in m.tokens

(* Workers own different objects, whose records no restart will miss.      *)
OwnersInv ==
  /\ pc \in [Workers -> Labels]
  /\ \A w \in Workers :
       /\ Owns(w) => /\ \A m \in Possible : obj[w] \in m.preparing
                     /\ FileAt(pc[w], obj[w].id)
       /\ pc[w] \in {"reply", "read"} => obj[w] \in meta.committed
  /\ \A v, w \in Workers :
       pc[v] \notin {"idle", "entered", "read"}
         /\ pc[w] \notin {"idle", "entered", "read"} /\ v # w
         => obj[v].id # obj[w].id

(* The directory: its present state is one a power loss may leave; files   *)
(* of committed objects are complete, and other files have a record.       *)
FilesInv ==
  /\ \A i \in Ids : names[i] \in maybe[i]
  /\ \A m \in Possible :
       /\ \A o \in m.committed : Complete(o.id)
       /\ \A i \in Ids :
            (\A o \in Recorded(m) : o.id # i) => maybe[i] = {{}}

(* A start that recovers PREPARING objects works on settled data, and has  *)
(* removed their names, then made that durable.                            *)
RecoveryInv ==
  /\ mode \in {"down", "unlink", "sync", "record"} => inDoubt = {}
  /\ mode = "sync" => \A o \in meta.preparing : names[o.id] = {}
  /\ mode = "record" => \A o \in meta.preparing : maybe[o.id] = {{}}

StoreInv ==
  /\ TypeOK
  /\ RecordsInv
  /\ OwnersInv
  /\ FilesInv
  /\ RecoveryInv
  /\ ~loss

-----------------------------------------------------------------------------
(* An empty store satisfies the invariant.                                 *)
LEMMA InitStoreInv == Init => StoreInv
<1> SUFFICES ASSUME Init PROVE StoreInv
  OBVIOUS
<1> USE ObjectBoundsAssumption DEF Init, Possible, Recorded
<1>1. TypeOK
  <2>1. meta \in Metas /\ inDoubt \subseteq Metas
    BY SMT DEF Metas
  <2>2. obj \in [Workers -> Objects \cup {NoObject}]
    OBVIOUS
  <2>3. maybe \in [Ids -> SUBSET SUBSET {"tmp", "final"}]
    OBVIOUS
  <2>4. /\ names \in [Ids -> SUBSET {"tmp", "final"}]
        /\ data \in [Ids -> {"none", "partial", "full"}]
        /\ synced \in [Ids -> BOOLEAN]
    OBVIOUS
  <2>5. \A w \in Workers : pc[w] # "idle" => mode = "up"
    OBVIOUS
  <2>6. \A m \in {meta} \cup inDoubt :
          \A o \in m.preparing \cup m.committed : o.id < m.next
    BY SMT
  <2> QED  BY <2>1, <2>2, <2>3, <2>4, <2>5, <2>6 DEF TypeOK
<1>2. RecordsInv
  BY SMT DEF RecordsInv
<1>3. OwnersInv
  BY DEF OwnersInv, Owns, Labels, WriteLabels, CleanLabels
<1>4. FilesInv
  BY SMT DEF FilesInv, Ids
<1>5. RecoveryInv
  BY DEF RecoveryInv
<1> QED  BY <1>1, <1>2, <1>3, <1>4, <1>5 DEF StoreInv

(* A worker that is not in the middle of a call owns nothing, so a step    *)
(* that moves one to such a label and leaves storage and files alone keeps *)
(* the invariant.                                                          *)
LEMMA MoveInv ==
  ASSUME StoreInv, NEW w \in Workers, NEW label \in {"idle", "entered", "read"},
         NEW o \in Objects \cup {NoObject},
         label = "read" => o \in meta.committed,
         label # "idle" => mode = "up",
         pc' = [pc EXCEPT ![w] = label], obj' = [obj EXCEPT ![w] = o],
         UNCHANGED <<storage, files, mode, loss>>, fatal' \in BOOLEAN,
         acked \subseteq acked', acked' \subseteq meta.committed
  PROVE  StoreInv'
<1>1. TypeOK /\ RecordsInv /\ OwnersInv /\ FilesInv /\ RecoveryInv /\ ~loss
  BY DEF StoreInv
<1>2. /\ meta' = meta /\ inDoubt' = inDoubt /\ names' = names
      /\ maybe' = maybe /\ data' = data /\ synced' = synced
      /\ mode' = mode /\ loss' = loss
  BY DEF storage, files
<1>3. meta.committed \subseteq Objects
  BY <1>1 DEF TypeOK, Metas
<1>4. TypeOK'
  <2>1. obj' \in [Workers -> Objects \cup {NoObject}]
    BY <1>1 DEF TypeOK
  <2>2. \A v \in Workers : pc'[v] # "idle" => mode = "up"
    BY <1>1 DEF TypeOK, OwnersInv
  <2> QED  BY <1>1, <1>2, <1>3, <2>1, <2>2 DEF TypeOK
<1>5. RecordsInv'
  BY <1>1, <1>2 DEF RecordsInv, Possible, Recorded
<1>6. OwnersInv'
  <2>1. pc' \in [Workers -> Labels]
    BY <1>1 DEF OwnersInv, Labels
  <2>2. ASSUME NEW v \in Workers
        PROVE  /\ Owns(v)' => Owns(v) /\ obj'[v] = obj[v] /\ pc'[v] = pc[v]
               /\ pc'[v] \in {"reply", "read"} => obj'[v] \in meta.committed
               /\ pc'[v] \notin {"idle", "entered", "read"} =>
                    v # w /\ obj'[v] = obj[v] /\ pc'[v] = pc[v]
    BY <1>1 DEF OwnersInv, Owns, WriteLabels, CleanLabels, TypeOK
  <2>3. ASSUME NEW v \in Workers, Owns(v)'
        PROVE  /\ \A m \in Possible' : obj'[v] \in m.preparing
               /\ FileAt(pc[v], obj[v].id)'
    <3>1. FileAt(pc[v], obj[v].id) /\ \A m \in Possible : obj[v] \in m.preparing
      BY <1>1, <2>2, <2>3 DEF OwnersInv
    <3> QED  BY <1>2, <2>2, <2>3, <3>1 DEF FileAt, Possible
  <2>4. \A u, v \in Workers :
          pc'[u] \notin {"idle", "entered", "read"}
            /\ pc'[v] \notin {"idle", "entered", "read"} /\ u # v
            => obj'[u].id # obj'[v].id
    BY <1>1, <2>2, SMT DEF OwnersInv
  <2> QED  BY <1>2, <2>1, <2>2, <2>3, <2>4 DEF OwnersInv
<1>7. FilesInv'
  BY <1>1, <1>2 DEF FilesInv, Possible, Recorded, Complete
<1>8. RecoveryInv'
  BY <1>1, <1>2 DEF RecoveryInv
<1> QED  BY <1>1, <1>2, <1>4, <1>5, <1>6, <1>7, <1>8, SMT DEF StoreInv

(* The object a worker owns has a record of its own, in whatever state a   *)
(* restart finds the database.                                             *)
LEMMA OwnedObject ==
  ASSUME StoreInv, NEW w \in Workers, Owns(w), NEW i, i = obj[w].id
  PROVE  /\ obj[w] \in Objects /\ i \in Ids
         /\ \A m \in Possible : /\ obj[w] \in m.preparing
                                /\ \A o \in m.committed : o.id # i
                                /\ \E o \in Recorded(m) : o.id = i
         /\ \A v \in Workers : Owns(v) /\ v # w => obj[v].id # i
         /\ mode = "up"
<1>1. \A m \in Possible : obj[w] \in m.preparing
  BY DEF StoreInv, OwnersInv
<1>2. obj[w] \in Objects /\ i \in Ids
  BY <1>1, SMT DEF StoreInv, TypeOK, Possible, Metas, Objects
<1>3. \A m \in Possible : \A o \in m.committed : o.id # i
  BY <1>1, SMT DEF StoreInv, RecordsInv, Recorded
<1>4. \A v \in Workers : Owns(v) /\ v # w => obj[v].id # i
  BY DEF StoreInv, OwnersInv, Owns, WriteLabels, CleanLabels
<1>5. mode = "up"
  BY DEF StoreInv, TypeOK, Owns, WriteLabels, CleanLabels
<1> QED  BY <1>1, <1>2, <1>3, <1>4, <1>5 DEF Recorded

(* A step of the owner of i on the files of i keeps the invariant, if it   *)
(* leaves them as the owner's next label says.                             *)
LEMMA LocalInv ==
  ASSUME StoreInv, NEW w \in Workers, Owns(w), NEW i, i = obj[w].id,
         NEW label \in WriteLabels \cup CleanLabels,
         pc' = [pc EXCEPT ![w] = label],
         UNCHANGED <<storage, mode, obj, fatal, loss, acked>>,
         FileTypes', OnlyFile(i), names'[i] \in maybe'[i], FileAt(label, i)'
  PROVE  StoreInv'
<1>1. TypeOK /\ RecordsInv /\ OwnersInv /\ FilesInv /\ RecoveryInv /\ ~loss
  BY DEF StoreInv
<1>2. /\ meta' = meta /\ inDoubt' = inDoubt /\ mode' = mode /\ obj' = obj
      /\ fatal' = fatal /\ loss' = loss /\ acked' = acked
  BY DEF storage
<1>3. /\ i \in Ids
      /\ \A m \in Possible : /\ \A o \in m.committed : o.id # i
                             /\ \E o \in Recorded(m) : o.id = i
      /\ \A v \in Workers : Owns(v) /\ v # w => obj[v].id # i
      /\ mode = "up"
  BY OwnedObject, SMT
<1>4. \A k \in Ids \ {i} : /\ names'[k] = names[k] /\ maybe'[k] = maybe[k]
                           /\ data'[k] = data[k] /\ synced'[k] = synced[k]
  BY DEF OnlyFile
<1>5. TypeOK'
  BY <1>1, <1>2, <1>3 DEF TypeOK, FileTypes
<1>6. RecordsInv'
  BY <1>1, <1>2 DEF RecordsInv, Possible, Recorded
<1>7. OwnersInv'
  <2>1. pc' \in [Workers -> Labels]
    BY <1>1 DEF OwnersInv, Labels
  <2>2. \A v \in Workers \ {w} : pc'[v] = pc[v]
    BY <1>1 DEF OwnersInv
  <2>3. pc'[w] = label
    BY <1>1 DEF OwnersInv
  <2>4. ASSUME NEW v \in Workers, Owns(v)'
        PROVE  /\ \A m \in Possible' : obj'[v] \in m.preparing
               /\ FileAt(pc[v], obj[v].id)'
    <3>1. CASE v = w
      BY <1>1, <1>2, <2>3, <3>1 DEF OwnersInv, Possible
    <3>2. CASE v # w
      <4>1. Owns(v) /\ obj[v].id # i
        BY <1>3, <2>2, <2>4, <3>2 DEF Owns
      <4>2. FileAt(pc[v], obj[v].id) /\ \A m \in Possible : obj[v] \in m.preparing
        BY <1>1, <4>1 DEF OwnersInv
      <4>3. obj[v].id \in Ids
        BY <4>1, OwnedObject
      <4>4. FileAt(pc[v], obj[v].id)'
        BY <1>2, <1>4, <2>2, <3>2, <4>1, <4>2, <4>3, SMTT(30) DEF FileAt
      <4> QED  BY <1>2, <4>2, <4>4 DEF Possible
    <3> QED  BY <3>1, <3>2
  <2>5. \A v \in Workers : pc'[v] \in {"reply", "read"} => obj'[v] \in meta'.committed
    BY <1>1, <1>2, <2>2, <2>3 DEF OwnersInv, WriteLabels, CleanLabels
  <2>6. \A v \in Workers : pc'[v] \notin {"idle", "entered", "read"}
                             => pc[v] \notin {"idle", "entered", "read"}
    BY <2>2 DEF Owns, WriteLabels, CleanLabels
  <2> QED  BY <1>1, <1>2, <2>1, <2>4, <2>5, <2>6 DEF OwnersInv
<1>8. FilesInv'
  <2>1. \A k \in Ids : names'[k] \in maybe'[k]
    BY <1>1, <1>4 DEF FilesInv
  <2>2. ASSUME NEW m \in Possible, NEW o \in m.committed  PROVE Complete(o.id)'
    <3>1. o.id \in Ids /\ o.id # i /\ Complete(o.id)
      BY <1>1, <1>3, <2>2, SMT DEF FilesInv, TypeOK, Possible, Metas, Objects
    <3> QED  BY <1>4, <3>1 DEF Complete
  <2>3. ASSUME NEW m \in Possible, NEW k \in Ids,
               \A o \in Recorded(m) : o.id # k
        PROVE  maybe'[k] = {{}}
    BY <1>1, <1>3, <1>4, <2>3, SMT DEF FilesInv
  <2> QED  BY <1>2, <2>1, <2>2, <2>3 DEF FilesInv, Possible, Recorded
<1>9. RecoveryInv'
  BY <1>2, <1>3 DEF RecoveryInv
<1> QED  BY <1>1, <1>2, <1>5, <1>6, <1>7, <1>8, <1>9, SMT DEF StoreInv

(* An fsync of the directory, by whichever worker or start, suits the      *)
(* owners of all other files too: it only rules out what might be left.    *)
LEMMA SyncFiles ==
  ASSUME StoreInv, SyncDirectory, UNCHANGED storage
  PROVE  /\ names' = names /\ data' = data /\ synced' = synced
         /\ maybe' \in [Ids -> SUBSET SUBSET {"tmp", "final"}]
         /\ \A i \in Ids : maybe'[i] = {names[i]}
         /\ \A i \in Ids : \A label : FileAt(label, i) => FileAt(label, i)'
         /\ FilesInv'
<1>1. TypeOK /\ FilesInv
  BY DEF StoreInv
<1>2. names' = names /\ data' = data /\ synced' = synced
  BY DEF SyncDirectory
<1>3. \A i \in Ids : maybe'[i] = {names[i]}
  BY DEF SyncDirectory
<1>4. maybe' \in [Ids -> SUBSET SUBSET {"tmp", "final"}]
  <2>1. \A i \in Ids : {names[i]} \in SUBSET SUBSET {"tmp", "final"}
    BY <1>1, SMT DEF TypeOK
  <2> QED  BY <2>1 DEF SyncDirectory
<1>5. \A i \in Ids : names[i] \in maybe[i]
  BY <1>1 DEF FilesInv
<1>6. ASSUME NEW i \in Ids, NEW label, FileAt(label, i)  PROVE FileAt(label, i)'
  BY <1>2, <1>3, <1>5, <1>6 DEF FileAt
<1>7. FilesInv'
  <2>1. ASSUME NEW m \in Possible, NEW o \in m.committed  PROVE Complete(o.id)'
    <3>1. o.id \in Ids /\ Complete(o.id)
      BY <1>1, <2>1, SMT DEF FilesInv, TypeOK, Possible, Metas, Objects
    <3> QED  BY <1>2, <1>3, <1>5, <3>1 DEF Complete
  <2>2. ASSUME NEW m \in Possible, NEW i \in Ids,
               \A o \in Recorded(m) : o.id # i
        PROVE  maybe'[i] = {{}}
    BY <1>1, <1>3, <1>5, <2>2 DEF FilesInv
  <2>3. Possible' = Possible
    BY DEF Possible, storage
  <2> QED  BY <1>2, <1>3, <2>1, <2>2, <2>3 DEF FilesInv, Recorded
<1> QED  BY <1>2, <1>3, <1>4, <1>6, <1>7

(* The fsync of the directory by WriteObject or by its clean-up.           *)
LEMMA SyncInv ==
  ASSUME StoreInv, NEW w \in Workers, NEW label,
         \/ pc[w] = "dirsync" /\ label = "finish"
         \/ pc[w] = "cleanSync" /\ label = "cleanRecord",
         SyncDirectory, pc' = [pc EXCEPT ![w] = label],
         UNCHANGED <<storage, mode, obj, fatal, loss, acked>>
  PROVE  StoreInv'
<1>1. TypeOK /\ RecordsInv /\ OwnersInv /\ FilesInv /\ RecoveryInv /\ ~loss
  BY DEF StoreInv
<1>2. /\ meta' = meta /\ inDoubt' = inDoubt /\ mode' = mode /\ obj' = obj
      /\ fatal' = fatal /\ loss' = loss /\ acked' = acked
  BY DEF storage
<1>3. /\ names' = names /\ data' = data /\ synced' = synced
      /\ maybe' \in [Ids -> SUBSET SUBSET {"tmp", "final"}]
      /\ \A i \in Ids : maybe'[i] = {names[i]}
      /\ \A i \in Ids : \A l : FileAt(l, i) => FileAt(l, i)'
      /\ FilesInv'
  BY <1>2, SyncFiles DEF storage
<1>4. Owns(w) /\ mode = "up"
  BY <1>1 DEF Owns, WriteLabels, CleanLabels, TypeOK
<1>5. label \in WriteLabels \cup CleanLabels
  BY DEF WriteLabels, CleanLabels
<1>6. TypeOK'
  BY <1>1, <1>2, <1>3, <1>4 DEF TypeOK
<1>7. RecordsInv'
  BY <1>1, <1>2 DEF RecordsInv, Possible, Recorded
<1>8. OwnersInv'
  <2>1. pc' \in [Workers -> Labels]
    BY <1>1, <1>5 DEF OwnersInv, Labels
  <2>2. \A v \in Workers \ {w} : pc'[v] = pc[v]
    BY <1>1 DEF OwnersInv
  <2>3. pc'[w] = label
    BY <1>1 DEF OwnersInv
  <2>4. ASSUME NEW v \in Workers, Owns(v)'
        PROVE  /\ \A m \in Possible' : obj'[v] \in m.preparing
               /\ FileAt(pc[v], obj[v].id)'
    <3>1. Owns(v)
      BY <1>4, <2>2, <2>4 DEF Owns
    <3>2. FileAt(pc[v], obj[v].id) /\ \A m \in Possible : obj[v] \in m.preparing
      BY <1>1, <3>1 DEF OwnersInv
    <3>3. obj[v].id \in Ids
      BY <3>1, OwnedObject
    <3>4. PICK i \in Ids, l \in Labels : i = obj[v].id /\ l = pc[v]
      BY <1>1, <3>3 DEF OwnersInv
    <3>5. FileAt(l, i) /\ FileAt(l, i)'
      BY <1>3, <3>2, <3>4
    <3>6. obj'[v].id = i
      BY <1>2, <3>4
    <3>7. FileAt(pc[v], obj[v].id)'
      <4>1. CASE v = w
        <5>1. pc'[v] = label /\ pc[w] = l
          BY <2>3, <3>4, <4>1
        <5> QED  BY <1>3, <3>5, <3>6, <5>1, ZenonT(60) DEF FileAt
      <4>2. CASE v # w
        <5>1. pc'[v] = l
          BY <2>2, <3>4, <4>2
        <5> QED  BY <3>5, <3>6, <5>1 DEF FileAt
      <4> QED  BY <4>1, <4>2
    <3> QED  BY <1>2, <3>2, <3>7 DEF Possible
  <2>5. \A v \in Workers : pc'[v] \in {"reply", "read"} => obj'[v] \in meta'.committed
    BY <1>1, <1>2, <1>5, <2>2, <2>3 DEF OwnersInv, WriteLabels, CleanLabels
  <2>6. \A v \in Workers : pc'[v] \notin {"idle", "entered", "read"}
                             => pc[v] \notin {"idle", "entered", "read"}
    BY <1>4, <2>2 DEF Owns, WriteLabels, CleanLabels
  <2> QED  BY <1>1, <1>2, <2>1, <2>4, <2>5, <2>6 DEF OwnersInv
<1>9. RecoveryInv'
  BY <1>2, <1>4 DEF RecoveryInv
<1> QED  BY <1>1, <1>2, <1>3, <1>6, <1>7, <1>8, <1>9, SMT DEF StoreInv

-----------------------------------------------------------------------------
(* m can take the place of meta: what is committed stays so, what is new   *)
(* has its file and a valid token, and no file loses its record.           *)
Fits(m) ==
  /\ m \in Metas
  /\ \A o \in Recorded(m) : o.id < m.next
  /\ \A o, q \in Recorded(m) : o.id = q.id => o = q
  /\ m.preparing \cap m.committed = {}
  /\ meta.committed \subseteq m.committed
  /\ \A o \in m.committed \ meta.committed : o.creator \in m.tokens
  /\ \A o \in m.committed : Complete(o.id)
  /\ \A i \in Ids : (\A o \in Recorded(m) : o.id # i) => maybe[i] = {{}}

(* A write of m that succeeds, fails or remains in doubt.                  *)
LEMMA StorageStep ==
  ASSUME StoreInv, NEW STATE m, Fits(m), Commit(m) \/ CommitFails(m),
         UNCHANGED <<files, acked>>
  PROVE  /\ RecordsInv' /\ FilesInv'
         /\ meta' \in Metas /\ inDoubt' \subseteq Metas
         /\ \A x \in Possible' : \A o \in Recorded(x) : o.id < x.next
         /\ fatal' \in BOOLEAN
         /\ \A x \in Possible' : x \in Possible \/ x = m
         /\ meta.committed \subseteq meta'.committed
<1>1. TypeOK /\ RecordsInv /\ FilesInv
  BY DEF StoreInv
<1>2. /\ names' = names /\ maybe' = maybe /\ data' = data /\ synced' = synced
      /\ acked' = acked
  BY DEF files
<1>3. \/ meta' = meta /\ inDoubt' = inDoubt
      \/ inDoubt = {} /\ meta' = m /\ inDoubt' = {}
      \/ inDoubt = {} /\ meta' = meta /\ inDoubt' = {m}
  BY DEF Commit, CommitFails, storage
<1>4. fatal' \in BOOLEAN
  BY <1>1 DEF Commit, CommitFails, TypeOK
<1>5. /\ \A o \in m.committed : Complete(o.id)'
      /\ \A x \in Possible : \A o \in x.committed : Complete(o.id)'
  BY <1>1, <1>2 DEF Fits, FilesInv, Complete
<1>6. CASE meta' = meta /\ inDoubt' = inDoubt
  <2>1. Possible' = Possible
    BY <1>6 DEF Possible
  <2>2. RecordsInv'
    BY <1>1, <1>2, <1>6, <2>1 DEF RecordsInv, Recorded
  <2>3. FilesInv'
    BY <1>1, <1>2, <1>5, <2>1 DEF FilesInv, Recorded
  <2> QED  BY <1>1, <1>4, <1>6, <2>1, <2>2, <2>3 DEF TypeOK, Possible, Recorded
<1>7. CASE inDoubt = {} /\ meta' = m /\ inDoubt' = {}
  <2>1. Possible' = {m}
    BY <1>7 DEF Possible
  <2>2. RecordsInv'
    BY <1>1, <1>2, <1>7, <2>1 DEF RecordsInv, Recorded, Fits
  <2>3. FilesInv'
    BY <1>1, <1>2, <1>5, <2>1 DEF FilesInv, Recorded, Fits
  <2> QED  BY <1>1, <1>4, <1>7, <2>1, <2>2, <2>3 DEF TypeOK, Fits, Recorded
<1>8. CASE inDoubt = {} /\ meta' = meta /\ inDoubt' = {m}
  <2>1. Possible = {meta} /\ Possible' = {meta, m}
    BY <1>8 DEF Possible
  <2>2. RecordsInv'
    BY <1>1, <1>2, <1>8, <2>1, SMT DEF RecordsInv, Recorded, Fits
  <2>3. FilesInv'
    BY <1>1, <1>2, <1>5, <2>1 DEF FilesInv, Recorded, Fits
  <2> QED  BY <1>1, <1>4, <1>8, <2>1, <2>2, <2>3 DEF TypeOK, Fits, Recorded
<1> QED  BY <1>3, <1>6, <1>7, <1>8

(* A write by a running server, after which each worker is where it was,   *)
(* or done, or has its object committed.                                   *)
LEMMA CommitInv ==
  ASSUME StoreInv, NEW STATE m, Fits(m), Commit(m) \/ CommitFails(m),
         mode = "up", UNCHANGED <<files, mode, loss, acked>>,
         pc' \in [Workers -> Labels],
         obj' \in [Workers -> Objects \cup {NoObject}],
         \A v \in Workers :
           \/ pc'[v] = "idle"
           \/ /\ pc'[v] = pc[v] /\ obj'[v] = obj[v]
              /\ Owns(v) => obj[v] \in m.preparing
           \/ /\ pc'[v] = "reply" /\ Owns(v) /\ obj'[v] = obj[v]
              /\ obj[v] \in meta'.committed
  PROVE  StoreInv'
<1>1. TypeOK /\ RecordsInv /\ OwnersInv /\ FilesInv /\ RecoveryInv /\ ~loss
  BY DEF StoreInv
<1>2. /\ names' = names /\ maybe' = maybe /\ data' = data /\ synced' = synced
      /\ mode' = mode /\ loss' = loss /\ acked' = acked
  BY DEF files
<1>3. /\ RecordsInv' /\ FilesInv'
      /\ meta' \in Metas /\ inDoubt' \subseteq Metas
      /\ \A x \in Possible' : \A o \in Recorded(x) : o.id < x.next
      /\ fatal' \in BOOLEAN
      /\ \A x \in Possible' : x \in Possible \/ x = m
      /\ meta.committed \subseteq meta'.committed
  BY <1>2, StorageStep DEF files
<1>4. TypeOK'
  BY <1>1, <1>2, <1>3 DEF TypeOK, Possible, Recorded
<1>5. OwnersInv'
  <2>1. ASSUME NEW v \in Workers, Owns(v)'
        PROVE  /\ \A x \in Possible' : obj'[v] \in x.preparing
               /\ FileAt(pc[v], obj[v].id)'
    <3>1. /\ Owns(v) /\ pc'[v] = pc[v] /\ obj'[v] = obj[v]
          /\ obj[v] \in m.preparing
      BY <2>1 DEF Owns, WriteLabels, CleanLabels
    <3>2. FileAt(pc[v], obj[v].id) /\ \A x \in Possible : obj[v] \in x.preparing
      BY <1>1, <3>1 DEF OwnersInv
    <3>3. FileAt(pc[v], obj[v].id)'
      BY <1>2, <3>1, <3>2 DEF FileAt
    <3> QED  BY <1>3, <3>1, <3>2, <3>3
  <2>2. \A v \in Workers : pc'[v] \in {"reply", "read"} => obj'[v] \in meta'.committed
    BY <1>1, <1>3 DEF OwnersInv
  <2>3. \A v \in Workers :
          pc'[v] \notin {"idle", "entered", "read"} =>
            obj'[v] = obj[v] /\ pc[v] \notin {"idle", "entered", "read"}
    BY DEF Owns, WriteLabels, CleanLabels
  <2> QED  BY <1>1, <2>1, <2>2, <2>3 DEF OwnersInv
<1>6. RecoveryInv'
  BY <1>2 DEF RecoveryInv
<1> QED  BY <1>1, <1>2, <1>3, <1>4, <1>5, <1>6, SMT DEF StoreInv

(* The batches of WriteObject, its clean-up, the recovery and DeleteToken. *)
LEMMA FitsPrepared ==
  ASSUME StoreInv, NEW c \in Creds, meta.next <= MaxObject,
         NEW STATE o, o = [id |-> meta.next, creator |-> c]
  PROVE  /\ o \in Objects /\ maybe[o.id] = {{}}
         /\ \A q \in Recorded(meta) : q.id # o.id
         /\ Fits(PutPreparingObject(o))
<1> DEFINE m == PutPreparingObject(o)
<1>1. /\ meta \in Metas
      /\ \A q \in Recorded(meta) : q.id < meta.next
      /\ RecordsInv /\ FilesInv
  BY DEF StoreInv, TypeOK, Recorded
<1>2. /\ m.preparing = meta.preparing \cup {o} /\ m.next = o.id + 1
      /\ m.committed = meta.committed /\ m.tokens = meta.tokens
  BY <1>1 DEF PutPreparingObject, Metas
<1>3. meta.next \in Ids /\ o \in Objects /\ o.id = meta.next
  BY <1>1, ObjectBoundsAssumption, SMT DEF Metas, Ids, Objects
<1>4. m \in Metas
  <2>1. o.id + 1 \in 1..(MaxObject + 1)
    BY <1>3, ObjectBoundsAssumption, SMT DEF Ids
  <2> QED  BY <1>1, <1>3, <2>1 DEF PutPreparingObject, Metas
<1>5. \A q \in Recorded(meta) : q.id \in Nat /\ q.id # o.id
  BY <1>1, <1>3, ObjectBoundsAssumption, SMT DEF Recorded, Metas, Objects, Ids
<1>6. Recorded(m) = Recorded(meta) \cup {o} /\ o \notin Recorded(meta)
  BY <1>2, <1>5 DEF Recorded
<1>7. maybe[o.id] = {{}}
  BY <1>1, <1>3, <1>5, SMT DEF FilesInv, Possible
<1>8. \A q \in Recorded(m) : q.id < m.next
  BY <1>1, <1>2, <1>3, <1>5, <1>6, SMT DEF Ids
<1>9. \A q, r \in Recorded(m) : q.id = r.id => q = r
  BY <1>1, <1>5, <1>6 DEF RecordsInv, Possible
<1>10. m.preparing \cap m.committed = {}
  BY <1>1, <1>2, <1>6, SMT DEF RecordsInv, Possible, Recorded
<1> HIDE DEF m
<1>11. Fits(m)
  BY <1>1, <1>2, <1>4, <1>6, <1>8, <1>9, <1>10, SMT DEF Fits, FilesInv, Possible
<1> QED  BY <1>3, <1>5, <1>7, <1>11 DEF m

(* The batch that commits an object fits the files, provided its file is   *)
(* complete (PutCommittedObject, FinishObjectWrite).                       *)
LEMMA FitsCommitted ==
  ASSUME StoreInv, NEW STATE o, o \in meta.preparing, Complete(o.id),
         o.creator \in meta.tokens
  PROVE  /\ Fits(PutCommittedObject(o))
         /\ PutCommittedObject(o).preparing = meta.preparing \ {o}
         /\ o \in PutCommittedObject(o).committed
<1> DEFINE m == PutCommittedObject(o)
<1>1. /\ meta \in Metas
      /\ \A q \in Recorded(meta) : q.id < meta.next
      /\ RecordsInv /\ FilesInv
  BY DEF StoreInv, TypeOK, Recorded
<1>2. /\ m.preparing = meta.preparing \ {o} /\ m.next = meta.next
      /\ m.committed = meta.committed \cup {o} /\ m.tokens = meta.tokens
  BY <1>1 DEF PutCommittedObject, Metas
<1>3. m \in Metas
  BY <1>1 DEF PutCommittedObject, Metas
<1>4. Recorded(m) = Recorded(meta)
  BY <1>2 DEF Recorded
<1>5. m.preparing \cap m.committed = {}
  BY <1>1, <1>2 DEF RecordsInv, Possible
<1> HIDE DEF m
<1>6. Fits(m)
  BY <1>1, <1>2, <1>3, <1>4, <1>5, SMT DEF Fits, FilesInv, RecordsInv, Possible
<1> QED  BY <1>2, <1>6 DEF m

(* The batch that deletes PREPARING records fits the files, provided no    *)
(* file of those objects can remain (DeletePreparingObject).               *)
LEMMA FitsDeleted ==
  ASSUME StoreInv, NEW STATE O,
         \A o \in meta.preparing : o \in O => maybe[o.id] = {{}}
  PROVE  /\ Fits(DeletePreparingObject(O))
         /\ \A o \in meta.preparing :
              o \notin O => o \in DeletePreparingObject(O).preparing
         /\ DeletePreparingObject(O).committed = meta.committed
<1> DEFINE m == DeletePreparingObject(O)
<1>1. /\ meta \in Metas
      /\ \A q \in Recorded(meta) : q.id < meta.next
      /\ RecordsInv /\ FilesInv
  BY DEF StoreInv, TypeOK, Recorded
<1>2. /\ m.preparing = {o \in meta.preparing : o \notin O} /\ m.next = meta.next
      /\ m.committed = meta.committed /\ m.tokens = meta.tokens
  BY <1>1 DEF DeletePreparingObject, Metas
<1>3. m \in Metas
  BY <1>1 DEF DeletePreparingObject, Metas
<1>4. /\ Recorded(m) \subseteq Recorded(meta)
      /\ \A o \in Recorded(meta) : o \in Recorded(m) \/ maybe[o.id] = {{}}
  BY <1>2 DEF Recorded
<1>5. m.preparing \cap m.committed = {}
  BY <1>1, <1>2 DEF RecordsInv, Possible
<1> HIDE DEF m
<1>6. \A i \in Ids : (\A o \in Recorded(m) : o.id # i) => maybe[i] = {{}}
  BY <1>1, <1>4, SMTT(30), SMTT(30) DEF FilesInv, Possible
<1>7. Fits(m)
  BY <1>1, <1>2, <1>3, <1>4, <1>5, <1>6 DEF Fits, FilesInv, RecordsInv, Possible
<1> QED  BY <1>2, <1>7 DEF m

(* A change of the tokens alone fits the files.                            *)
LEMMA FitsTokens ==
  ASSUME StoreInv, NEW STATE T, T \subseteq Creds
  PROVE  /\ Fits([meta EXCEPT !.tokens = T])
         /\ [meta EXCEPT !.tokens = T].preparing = meta.preparing
<1> DEFINE m == [meta EXCEPT !.tokens = T]
<1>1. /\ meta \in Metas
      /\ \A q \in Recorded(meta) : q.id < meta.next
      /\ RecordsInv /\ FilesInv
  BY DEF StoreInv, TypeOK, Recorded
<1>2. /\ m.preparing = meta.preparing /\ m.next = meta.next
      /\ m.committed = meta.committed
  BY <1>1 DEF Metas
<1>3. m \in Metas
  BY <1>1 DEF Metas
<1>4. Recorded(m) = Recorded(meta)
  BY <1>2 DEF Recorded
<1> HIDE DEF m
<1>5. Fits(m)
  BY <1>1, <1>2, <1>3, <1>4, SMT DEF Fits, FilesInv, RecordsInv, Possible
<1> QED  BY <1>2, <1>5 DEF m

-----------------------------------------------------------------------------
(* The end of a call that leaves storage and files alone.                  *)
LEMMA DoneInv ==
  ASSUME StoreInv, NEW w \in Workers, Done(w),
         UNCHANGED <<storage, files, mode, loss>>, fatal' \in BOOLEAN,
         acked \subseteq acked', acked' \subseteq meta.committed
  PROVE  StoreInv'
BY MoveInv DEF Done, Goto

(* WriteObject or ReadObject begins: nothing stored changes.               *)
LEMMA EnterInv ==
  ASSUME StoreInv, NEW w \in Workers, Enter(w)
  PROVE  StoreInv'
<1>1. acked \subseteq meta.committed /\ fatal \in BOOLEAN
  BY DEF StoreInv, RecordsInv, TypeOK
<1>2. obj \in [Workers -> Objects \cup {NoObject}]
  BY DEF StoreInv, TypeOK
<1>3. PICK o \in Objects \cup {NoObject} : o = obj[w]
  BY <1>2
<1>4. obj' = [obj EXCEPT ![w] = o]
  BY <1>2, <1>3 DEF Enter
<1> QED  BY <1>1, <1>4, MoveInv DEF Enter, Goto

(* The first part of WriteObject under the lock: the PREPARING record.     *)
LEMMA PrepareInv ==
  ASSUME StoreInv, NEW w \in Workers, Prepare(w)
  PROVE  StoreInv'
<1>1. TypeOK /\ RecordsInv /\ OwnersInv /\ FilesInv /\ RecoveryInv /\ ~loss
  BY DEF StoreInv
<1>2. /\ pc[w] = "entered" /\ mode = "up" /\ ~Owns(w)
      /\ UNCHANGED <<files, mode, loss, acked>>
  BY <1>1 DEF Prepare, TypeOK, Owns, WriteLabels, CleanLabels
<1>3. acked \subseteq meta.committed /\ fatal \in BOOLEAN
  BY <1>1 DEF RecordsInv, TypeOK
<1>4. CASE fatal' \in BOOLEAN /\ Done(w) /\ UNCHANGED storage
  BY <1>2, <1>3, <1>4, DoneInv DEF files
<1>5. ASSUME NEW c \in Creds, NEW o, o = [id |-> meta.next, creator |-> c],
             c \in meta.tokens, o.id <= MaxObject,
             CommitFails(PutPreparingObject(o)), Done(w)
      PROVE  StoreInv'
  <2>1. Fits(PutPreparingObject(o)) /\ meta.preparing \subseteq PutPreparingObject(o).preparing
    BY <1>1, <1>5, FitsPrepared DEF PutPreparingObject, TypeOK, Metas
  <2>2. /\ pc' \in [Workers -> Labels]
        /\ obj' \in [Workers -> Objects \cup {NoObject}]
    BY <1>1, <1>5 DEF Done, Goto, OwnersInv, TypeOK, Labels
  <2>3. \A v \in Workers :
          \/ pc'[v] = "idle"
          \/ /\ pc'[v] = pc[v] /\ obj'[v] = obj[v]
             /\ Owns(v) => obj[v] \in PutPreparingObject(o).preparing
    BY <1>1, <1>5, <2>1 DEF Done, Goto, OwnersInv, TypeOK, Possible
  <2> QED  BY <1>2, <1>5, <2>1, <2>2, <2>3, CommitInv
<1>6. ASSUME NEW c \in Creds, NEW o, o = [id |-> meta.next, creator |-> c],
             c \in meta.tokens, o.id <= MaxObject,
             Commit(PutPreparingObject(o)), Goto(w, "create"),
             obj' = [obj EXCEPT ![w] = o]
      PROVE  StoreInv'
  <2> DEFINE m == PutPreparingObject(o)
  <2>1. /\ o \in Objects /\ maybe[o.id] = {{}}
        /\ \A q \in Recorded(meta) : q.id # o.id
        /\ Fits(m)
    BY <1>6, FitsPrepared
  <2>2. /\ m.preparing = meta.preparing \cup {o} /\ m.committed = meta.committed
    BY <1>1 DEF PutPreparingObject, TypeOK, Metas
  <2> HIDE DEF m
  <2>3. /\ names' = names /\ maybe' = maybe /\ data' = data /\ synced' = synced
        /\ mode' = mode /\ loss' = loss /\ acked' = acked
        /\ meta' = m /\ inDoubt' = {} /\ inDoubt = {} /\ Possible' = {m}
    BY <1>2, <1>6 DEF files, Commit, m, Possible
  <2>4. /\ RecordsInv' /\ FilesInv'
        /\ meta' \in Metas /\ inDoubt' \subseteq Metas
        /\ \A x \in Possible' : \A q \in Recorded(x) : q.id < x.next
        /\ fatal' \in BOOLEAN
    BY <1>2, <1>6, <2>1, StorageStep DEF m
  <2>5. obj' \in [Workers -> Objects \cup {NoObject}]
    BY <1>1, <1>6, <2>1 DEF TypeOK
  <2>6. TypeOK'
    BY <1>1, <1>2, <2>3, <2>4, <2>5 DEF TypeOK, Possible, Recorded
  <2>7. OwnersInv'
    <3>1. pc' \in [Workers -> Labels] /\ pc'[w] = "create" /\ obj'[w] = o
      BY <1>1, <1>6 DEF Goto, OwnersInv, TypeOK, Labels, WriteLabels
    <3>2. \A v \in Workers \ {w} : pc'[v] = pc[v] /\ obj'[v] = obj[v]
      BY <1>1, <1>6 DEF Goto, OwnersInv, TypeOK
    <3>3. ASSUME NEW v \in Workers, Owns(v)'
          PROVE  /\ \A x \in Possible' : obj'[v] \in x.preparing
                 /\ FileAt(pc[v], obj[v].id)'
      <4>1. CASE v = w
        BY <2>1, <2>2, <2>3, <3>1, <4>1 DEF FileAt
      <4>2. CASE v # w
        <5>1. Owns(v)
          BY <3>2, <3>3, <4>2 DEF Owns
        <5>2. FileAt(pc[v], obj[v].id) /\ obj[v] \in meta.preparing
          BY <1>1, <5>1 DEF OwnersInv, Possible
        <5>3. FileAt(pc[v], obj[v].id)'
          BY <2>3, <3>2, <4>2, <5>2 DEF FileAt
        <5> QED  BY <2>2, <2>3, <3>2, <4>2, <5>2, <5>3
      <4> QED  BY <4>1, <4>2
    <3>4. \A v \in Workers : pc'[v] \in {"reply", "read"} => obj'[v] \in meta'.committed
      BY <1>1, <2>2, <2>3, <3>1, <3>2 DEF OwnersInv
    <3>5. ASSUME NEW v \in Workers \ {w}, pc'[v] \notin {"idle", "entered", "read"}
          PROVE  obj'[v].id # o.id
      <4>1. obj[v] \in Recorded(meta)
        BY <1>1, <3>2, <3>5 DEF OwnersInv, Owns, Labels, Recorded, Possible
      <4> QED  BY <2>1, <3>2, <4>1
    <3>6. \A u, v \in Workers :
            pc'[u] \notin {"idle", "entered", "read"}
              /\ pc'[v] \notin {"idle", "entered", "read"} /\ u # v
              => obj'[u].id # obj'[v].id
      BY <1>1, <3>1, <3>2, <3>5, SMT DEF OwnersInv
    <3> QED  BY <3>1, <3>3, <3>4, <3>6 DEF OwnersInv
  <2>8. RecoveryInv'
    BY <1>2, <2>3 DEF RecoveryInv
  <2> QED  BY <1>1, <2>3, <2>4, <2>6, <2>7, <2>8 DEF StoreInv
<1>7. PICK c \in Creds :
        \/ fatal' = TRUE /\ Done(w) /\ UNCHANGED storage
        \/ Done(w) /\ UNCHANGED <<storage, fatal>>
        \/ /\ c \in meta.tokens
           /\ [id |-> meta.next, creator |-> c].id <= MaxObject
           /\ \/ /\ Commit(PutPreparingObject([id |-> meta.next, creator |-> c]))
                 /\ Goto(w, "create")
                 /\ obj' = [obj EXCEPT ![w] = [id |-> meta.next, creator |-> c]]
              \/ /\ CommitFails(PutPreparingObject([id |-> meta.next, creator |-> c]))
                 /\ Done(w)
  BY DEF Prepare
<1>8. PICK o : o = [id |-> meta.next, creator |-> c]
  OBVIOUS
<1> QED  BY <1>3, <1>4, <1>5, <1>6, <1>7, <1>8

(* What a worker that owns its object knows about the object's file.       *)
LEMMA OwnedFile ==
  ASSUME StoreInv, NEW w \in Workers, Owns(w), NEW i, i = obj[w].id
  PROVE  /\ i \in Ids /\ FileAt(pc[w], i) /\ names[i] \in maybe[i] /\ FileTypes
<1>1. i \in Ids
  BY OwnedObject
<1> QED  BY <1>1 DEF StoreInv, OwnersInv, FilesInv, TypeOK, FileTypes

(* Linking or unlinking a name of object i.                                *)
LEMMA SetNamesStep ==
  ASSUME FileTypes, NEW i \in Ids, NEW STATE N, N \in SUBSET {"tmp", "final"},
         SetNames(i, N)
  PROVE  /\ names' \in [Ids -> SUBSET {"tmp", "final"}]
         /\ maybe' \in [Ids -> SUBSET SUBSET {"tmp", "final"}]
         /\ names'[i] = N /\ maybe'[i] = maybe[i] \cup {N}
         /\ \A k \in Ids \ {i} : names'[k] = names[k] /\ maybe'[k] = maybe[k]
<1>1. /\ names' = [names EXCEPT ![i] = N]
      /\ maybe' = [maybe EXCEPT ![i] = maybe[i] \cup {N}]
  BY DEF SetNames
<1>2. /\ names \in [Ids -> SUBSET {"tmp", "final"}]
      /\ maybe \in [Ids -> SUBSET SUBSET {"tmp", "final"}]
  BY DEF FileTypes
<1>3. maybe[i] \cup {N} \in SUBSET SUBSET {"tmp", "final"}
  BY <1>2
<1> QED  BY <1>1, <1>2, <1>3

(* A call that fails while it writes goes to its clean-up.                 *)
LEMMA FailsInv ==
  ASSUME StoreInv, NEW w \in Workers, Owns(w), Fails(w),
         UNCHANGED <<storage, mode, acked>>
  PROVE  StoreInv'
<1>1. PICK i : i = obj[w].id
  OBVIOUS
<1>2. names[i] \in maybe[i] /\ FileTypes
  BY <1>1, OwnedFile
<1>3. FileTypes' /\ OnlyFile(i) /\ names'[i] \in maybe'[i]
  BY <1>2 DEF Fails, files, FileTypes, OnlyFile
<1>4. FileAt("cleanTmp", i)'
  BY DEF FileAt
<1>5. /\ pc' = [pc EXCEPT ![w] = "cleanTmp"]
      /\ "cleanTmp" \in WriteLabels \cup CleanLabels
      /\ UNCHANGED <<storage, mode, obj, fatal, loss, acked>>
  BY DEF Fails, Goto, CleanLabels
<1> QED  BY <1>1, <1>3, <1>4, <1>5, LocalInv

(* ObjectFileStore::Write.  Neither a temporary nor a final name is in the *)
(* way: no branch that reports corruption can be taken.                    *)
LEMMA CreateTemporaryInv ==
  ASSUME StoreInv, NEW w \in Workers, CreateTemporary(w)
  PROVE  StoreInv'
<1>1. Owns(w) /\ pc[w] = "create"
  BY DEF CreateTemporary, FileStep, Owns, WriteLabels
<1>2. PICK i : i = obj[w].id
  OBVIOUS
<1>3. /\ i \in Ids /\ FileAt("create", i) /\ names[i] \in maybe[i] /\ FileTypes
  BY <1>1, <1>2, OwnedFile
<1>4. names[i] = {} /\ maybe[i] = {{}}
  BY <1>3 DEF FileAt
<1>5. CASE Fails(w)
  BY <1>1, <1>5, FailsInv DEF CreateTemporary, FileStep
<1>6. CASE /\ SetNames(i, names[i] \cup {"tmp"})
           /\ data' = [data EXCEPT ![i] = "partial"]
           /\ synced' = [synced EXCEPT ![i] = FALSE]
           /\ Goto(w, "write")
           /\ UNCHANGED <<obj, fatal, loss>>
  <2>1. /\ names' \in [Ids -> SUBSET {"tmp", "final"}]
        /\ maybe' \in [Ids -> SUBSET SUBSET {"tmp", "final"}]
        /\ names'[i] = {"tmp"} /\ maybe'[i] = {{}, {"tmp"}}
        /\ \A k \in Ids \ {i} : names'[k] = names[k] /\ maybe'[k] = maybe[k]
    <3>1. names[i] \cup {"tmp"} = {"tmp"} /\ {"tmp"} \in SUBSET {"tmp", "final"}
      BY <1>4
    <3>2. SetNames(i, {"tmp"})
      BY <1>6, <3>1
    <3>3. maybe[i] \cup {{"tmp"}} = {{}, {"tmp"}}
      BY <1>4
    <3>4. /\ names' \in [Ids -> SUBSET {"tmp", "final"}]
          /\ maybe' \in [Ids -> SUBSET SUBSET {"tmp", "final"}]
          /\ names'[i] = {"tmp"} /\ maybe'[i] = maybe[i] \cup {{"tmp"}}
          /\ \A k \in Ids \ {i} : names'[k] = names[k] /\ maybe'[k] = maybe[k]
      BY <1>3, <3>1, <3>2, SetNamesStep
    <3> QED  BY <3>3, <3>4
  <2>2. FileTypes' /\ OnlyFile(i) /\ names'[i] \in maybe'[i]
    <3>1. /\ data' \in [Ids -> {"none", "partial", "full"}]
          /\ synced' \in [Ids -> BOOLEAN]
          /\ \A k \in Ids \ {i} : data'[k] = data[k] /\ synced'[k] = synced[k]
      BY <1>3, <1>6 DEF FileTypes
    <3> QED  BY <2>1, <3>1 DEF FileTypes, OnlyFile
  <2>3. FileAt("write", i)'
    BY <2>1, SMT DEF FileAt
  <2>4. /\ pc' = [pc EXCEPT ![w] = "write"]
        /\ "write" \in WriteLabels \cup CleanLabels
        /\ UNCHANGED <<storage, mode, obj, fatal, loss, acked>>
    BY <1>4, <1>6 DEF CreateTemporary, FileStep, Goto, WriteLabels, CleanLabels
  <2> QED  BY <1>1, <1>2, <2>2, <2>3, <2>4, LocalInv
<1> QED  BY <1>2, <1>4, <1>5, <1>6 DEF CreateTemporary

(* The bytes of the temporary file are written, in whole or in part.       *)
LEMMA WriteDataInv ==
  ASSUME StoreInv, NEW w \in Workers, WriteData(w)
  PROVE  StoreInv'
<1>1. Owns(w) /\ pc[w] = "write"
  BY DEF WriteData, FileStep, Owns, WriteLabels
<1>2. PICK i : i = obj[w].id
  OBVIOUS
<1>3. /\ i \in Ids /\ FileAt("write", i) /\ names[i] \in maybe[i] /\ FileTypes
  BY <1>1, <1>2, OwnedFile
<1>4. CASE Fails(w)
  BY <1>1, <1>4, FailsInv DEF WriteData, FileStep
<1>5. CASE /\ data' = [data EXCEPT ![i] = "full"]
           /\ Goto(w, "fsync")
           /\ UNCHANGED <<names, maybe, synced, obj, fatal, loss>>
  <2>1. FileTypes' /\ OnlyFile(i) /\ names'[i] \in maybe'[i]
    BY <1>3, <1>5 DEF FileTypes, OnlyFile
  <2>2. FileAt("fsync", i)'
    BY <1>3, <1>5 DEF FileAt, FileTypes
  <2>3. /\ pc' = [pc EXCEPT ![w] = "fsync"]
        /\ "fsync" \in WriteLabels \cup CleanLabels
        /\ UNCHANGED <<storage, mode, obj, fatal, loss, acked>>
    BY <1>5 DEF WriteData, FileStep, Goto, WriteLabels, CleanLabels
  <2> QED  BY <1>1, <1>2, <2>1, <2>2, <2>3, LocalInv
<1> QED  BY <1>2, <1>4, <1>5 DEF WriteData

(* The fsync of the temporary file makes its bytes durable.                *)
LEMMA FsyncInv ==
  ASSUME StoreInv, NEW w \in Workers, Fsync(w)
  PROVE  StoreInv'
<1>1. Owns(w) /\ pc[w] = "fsync"
  BY DEF Fsync, FileStep, Owns, WriteLabels
<1>2. PICK i : i = obj[w].id
  OBVIOUS
<1>3. /\ i \in Ids /\ FileAt("fsync", i) /\ names[i] \in maybe[i] /\ FileTypes
  BY <1>1, <1>2, OwnedFile
<1>4. CASE Fails(w)
  BY <1>1, <1>4, FailsInv DEF Fsync, FileStep
<1>5. ASSUME NEW label \in {"rename", "cleanTmp"}, Goto(w, label),
             synced' = [synced EXCEPT ![i] = TRUE],
             UNCHANGED <<names, maybe, data, obj, fatal, loss>>
      PROVE  StoreInv'
  <2>1. FileTypes' /\ OnlyFile(i) /\ names'[i] \in maybe'[i]
    BY <1>3, <1>5 DEF FileTypes, OnlyFile
  <2>2. FileAt(label, i)'
    BY <1>3, <1>5 DEF FileAt, FileTypes
  <2>3. /\ pc' = [pc EXCEPT ![w] = label]
        /\ label \in WriteLabels \cup CleanLabels
        /\ UNCHANGED <<storage, mode, obj, fatal, loss, acked>>
    BY <1>5 DEF Fsync, FileStep, Goto, WriteLabels, CleanLabels
  <2> QED  BY <1>1, <1>2, <2>1, <2>2, <2>3, LocalInv
<1> QED  BY <1>2, <1>4, <1>5 DEF Fsync

(* The rename puts the synchronised file under its final name.             *)
LEMMA RenameInv ==
  ASSUME StoreInv, NEW w \in Workers, Rename(w)
  PROVE  StoreInv'
<1>1. Owns(w) /\ pc[w] = "rename"
  BY DEF Rename, FileStep, Owns, WriteLabels
<1>2. PICK i : i = obj[w].id
  OBVIOUS
<1>3. /\ i \in Ids /\ FileAt("rename", i) /\ names[i] \in maybe[i] /\ FileTypes
  BY <1>1, <1>2, OwnedFile
<1>4. /\ "final" \notin names[i] /\ (names[i] \ {"tmp"}) \cup {"final"} = {"final"}
      /\ data[i] = "full" /\ synced[i] = TRUE
  BY <1>3 DEF FileAt, FileTypes
<1>5. CASE Fails(w)
  BY <1>1, <1>5, FailsInv DEF Rename, FileStep
<1>6. CASE /\ SetNames(i, {"final"})
           /\ Goto(w, "dirsync")
           /\ UNCHANGED <<data, synced, obj, fatal, loss>>
  <2>1. /\ names' \in [Ids -> SUBSET {"tmp", "final"}]
        /\ maybe' \in [Ids -> SUBSET SUBSET {"tmp", "final"}]
        /\ names'[i] = {"final"} /\ maybe'[i] = maybe[i] \cup {{"final"}}
        /\ \A k \in Ids \ {i} : names'[k] = names[k] /\ maybe'[k] = maybe[k]
    <3>1. {"final"} \in SUBSET {"tmp", "final"}
      OBVIOUS
    <3> QED  BY <1>3, <1>6, <3>1, SetNamesStep
  <2>2. FileTypes' /\ OnlyFile(i) /\ names'[i] \in maybe'[i]
    BY <1>3, <1>6, <2>1 DEF FileTypes, OnlyFile
  <2>3. FileAt("dirsync", i)'
    BY <1>4, <1>6, <2>1 DEF FileAt
  <2>4. /\ pc' = [pc EXCEPT ![w] = "dirsync"]
        /\ "dirsync" \in WriteLabels \cup CleanLabels
        /\ UNCHANGED <<storage, mode, obj, fatal, loss, acked>>
    BY <1>4, <1>6 DEF Rename, FileStep, Goto, WriteLabels, CleanLabels
  <2> QED  BY <1>1, <1>2, <2>2, <2>3, <2>4, LocalInv
<1> QED  BY <1>2, <1>4, <1>5, <1>6 DEF Rename

(* The fsync of the directory makes the final name durable, which the      *)
(* commit of the record relies on.                                         *)
LEMMA FsyncDirectoryInv ==
  ASSUME StoreInv, NEW w \in Workers, FsyncDirectory(w)
  PROVE  StoreInv'
<1>1. Owns(w) /\ pc[w] = "dirsync" /\ UNCHANGED <<storage, mode, acked>>
  BY DEF FsyncDirectory, FileStep, Owns, WriteLabels
<1>2. CASE Fails(w)
  BY <1>1, <1>2, FailsInv
<1>3. CASE SyncDirectory /\ Goto(w, "finish") /\ UNCHANGED <<obj, fatal, loss>>
  BY <1>1, <1>3, SyncInv DEF Goto
<1> QED  BY <1>2, <1>3 DEF FsyncDirectory

(* The second part of WriteObject under the lock.  The record is still     *)
(* there, unchanged, and the file is complete.                             *)
LEMMA FinishInv ==
  ASSUME StoreInv, NEW w \in Workers, Finish(w)
  PROVE  StoreInv'
<1>1. TypeOK /\ RecordsInv /\ OwnersInv /\ FilesInv
  BY DEF StoreInv
<1>2. Owns(w) /\ pc[w] = "finish" /\ UNCHANGED <<mode, acked>>
  BY DEF Finish, Owns, WriteLabels
<1>3. PICK o : o = obj[w]
  OBVIOUS
<1>4. o \in meta.preparing /\ Complete(o.id) /\ mode = "up"
  <2>1. FileAt("finish", obj[w].id) /\ obj[w] \in meta.preparing
    BY <1>1, <1>2 DEF OwnersInv, Possible
  <2> QED  BY <1>1, <1>2, <1>3, <2>1 DEF FileAt, Complete, TypeOK
<1>5. CASE /\ fatal' = TRUE /\ Done(w)
           /\ UNCHANGED <<storage, files, loss>>
  BY <1>1, <1>2, <1>5, DoneInv DEF RecordsInv
<1>6. CASE Fails(w) /\ UNCHANGED storage
  BY <1>2, <1>6, FailsInv
<1>7. CASE /\ o.creator \in meta.tokens
           /\ \/ /\ Commit(PutCommittedObject(o))
                 /\ Goto(w, "reply") /\ UNCHANGED obj
              \/ CommitFails(PutCommittedObject(o)) /\ Done(w)
           /\ UNCHANGED <<files, loss>>
  <2> DEFINE m == PutCommittedObject(o)
  <2>1. /\ Fits(m) /\ m.preparing = meta.preparing \ {o} /\ o \in m.committed
    BY <1>4, <1>7, FitsCommitted
  <2>2. ASSUME NEW v \in Workers, v # w, Owns(v)
        PROVE  obj[v] \in m.preparing
    <3>1. obj[v] \in meta.preparing
      BY <1>1, <2>2 DEF OwnersInv, Possible
    <3>2. obj[v].id # o.id
      BY <1>2, <1>3, <2>2, OwnedObject, SMT
    <3> QED  BY <2>1, <3>1, <3>2
  <2>3. Commit(m) \/ CommitFails(m)
    BY <1>7
  <2>4. CASE Commit(m) /\ Goto(w, "reply") /\ UNCHANGED obj
    <3>1. meta' = m
      BY <2>4 DEF Commit
    <3>2. /\ pc' \in [Workers -> Labels] /\ pc'[w] = "reply"
          /\ \A v \in Workers : v # w => pc'[v] = pc[v]
      BY <1>1, <2>4 DEF Goto, OwnersInv, Labels
    <3>3. obj' \in [Workers -> Objects \cup {NoObject}] /\ obj' = obj
      BY <1>1, <2>4 DEF TypeOK
    <3> HIDE DEF m
    <3> QED  BY <1>2, <1>3, <1>4, <1>7, <2>1, <2>2, <2>3, <3>1, <3>2, <3>3,
                CommitInv
  <2>5. CASE CommitFails(m) /\ Done(w)
    <3>1. /\ pc' \in [Workers -> Labels] /\ pc'[w] = "idle"
          /\ \A v \in Workers : v # w => pc'[v] = pc[v]
      BY <1>1, <2>5 DEF Done, Goto, OwnersInv, Labels
    <3>2. /\ obj' \in [Workers -> Objects \cup {NoObject}]
          /\ \A v \in Workers : v # w => obj'[v] = obj[v]
      BY <1>1, <2>5 DEF Done, TypeOK
    <3> HIDE DEF m
    <3> QED  BY <1>2, <1>4, <1>7, <2>1, <2>2, <2>3, <3>1, <3>2, CommitInv
  <2> QED  BY <1>7, <2>4, <2>5
<1> QED  BY <1>3, <1>4, <1>5, <1>6, <1>7 DEF Finish

(* The answer OK is given for a record that is committed.                  *)
LEMMA ReplyInv ==
  ASSUME StoreInv, NEW w \in Workers, Reply(w)
  PROVE  StoreInv'
<1>1. obj[w] \in meta.committed /\ acked \subseteq meta.committed /\ fatal \in BOOLEAN
  BY DEF StoreInv, OwnersInv, RecordsInv, TypeOK, Reply
<1> QED  BY <1>1, DoneInv DEF Reply

(* CleanupPreparingObject.                                                 *)
LEMMA GivesUpInv ==
  ASSUME StoreInv, NEW w \in Workers, GivesUp(w),
         UNCHANGED <<storage, mode, fatal, loss, acked>>
  PROVE  StoreInv'
<1>1. acked \subseteq meta.committed /\ fatal \in BOOLEAN
  BY DEF StoreInv, RecordsInv, TypeOK
<1> QED  BY <1>1, DoneInv DEF GivesUp

(* The clean-up removes the temporary and then the final name of an object *)
(* that is still PREPARING.                                                *)
LEMMA UnlinkInv ==
  ASSUME StoreInv, NEW w \in Workers, UnlinkTemporary(w) \/ UnlinkFinal(w)
  PROVE  StoreInv'
<1>1. PICK label \in {"cleanTmp", "cleanFinal"}, name \in {"tmp", "final"},
           to \in {"cleanFinal", "cleanSync"} :
        /\ Unlink(w, label, name, to)
        /\ \/ label = "cleanTmp" /\ name = "tmp" /\ to = "cleanFinal"
           \/ label = "cleanFinal" /\ name = "final" /\ to = "cleanSync"
  BY DEF UnlinkTemporary, UnlinkFinal
<1>2. /\ Owns(w) /\ pc[w] = label
      /\ UNCHANGED <<storage, mode, fatal, loss, acked>>
  BY <1>1 DEF Unlink, CleanStep, Owns, CleanLabels
<1>3. PICK i : i = obj[w].id
  OBVIOUS
<1>4. /\ i \in Ids /\ FileAt(label, i) /\ names[i] \in maybe[i] /\ FileTypes
  BY <1>2, <1>3, OwnedFile
<1>5. CASE GivesUp(w)
  BY <1>2, <1>5, GivesUpInv
<1>6. CASE /\ SetNames(i, names[i] \ {name})
           /\ Goto(w, to)
           /\ UNCHANGED <<data, synced, obj>>
  <2>1. /\ names' \in [Ids -> SUBSET {"tmp", "final"}]
        /\ maybe' \in [Ids -> SUBSET SUBSET {"tmp", "final"}]
        /\ names'[i] = names[i] \ {name}
        /\ maybe'[i] = maybe[i] \cup {names[i] \ {name}}
        /\ \A k \in Ids \ {i} : names'[k] = names[k] /\ maybe'[k] = maybe[k]
    <3>1. names[i] \ {name} \in SUBSET {"tmp", "final"}
      BY <1>4 DEF FileTypes
    <3> QED  BY <1>4, <1>6, <3>1, SetNamesStep
  <2>2. FileTypes' /\ OnlyFile(i) /\ names'[i] \in maybe'[i]
    BY <1>4, <1>6, <2>1 DEF FileTypes, OnlyFile
  <2>3. FileAt(to, i)'
    BY <1>1, <1>4, <2>1, SMTT(30) DEF FileAt, FileTypes
  <2>4. /\ pc' = [pc EXCEPT ![w] = to]
        /\ to \in WriteLabels \cup CleanLabels
        /\ UNCHANGED <<storage, mode, obj, fatal, loss, acked>>
    BY <1>2, <1>6 DEF Goto, CleanLabels
  <2> QED  BY <1>2, <1>3, <2>2, <2>3, <2>4, LocalInv
<1> QED  BY <1>1, <1>3, <1>5, <1>6 DEF Unlink

(* The clean-up makes the removal durable, or gives up and leaves the      *)
(* record to recovery.                                                     *)
LEMMA CleanDirectoryInv ==
  ASSUME StoreInv, NEW w \in Workers, CleanDirectory(w)
  PROVE  StoreInv'
<1>1. pc[w] = "cleanSync" /\ UNCHANGED <<storage, mode, fatal, loss, acked>>
  BY DEF CleanDirectory, CleanStep
<1>2. CASE GivesUp(w)
  BY <1>1, <1>2, GivesUpInv
<1>3. CASE SyncDirectory /\ Goto(w, "cleanRecord") /\ UNCHANGED obj
  BY <1>1, <1>3, SyncInv DEF Goto
<1> QED  BY <1>2, <1>3 DEF CleanDirectory

(* The clean-up deletes the PREPARING record, when nothing of its file can *)
(* remain.                                                                 *)
LEMMA CleanRecordInv ==
  ASSUME StoreInv, NEW w \in Workers, CleanRecord(w)
  PROVE  StoreInv'
<1>1. TypeOK /\ RecordsInv /\ OwnersInv
  BY DEF StoreInv
<1>2. /\ Owns(w) /\ pc[w] = "cleanRecord" /\ mode = "up" /\ Done(w)
      /\ UNCHANGED <<files, mode, loss, acked>>
  BY <1>1 DEF CleanRecord, Owns, CleanLabels, TypeOK
<1> DEFINE m == DeletePreparingObject({obj[w]})
<1>3. /\ Fits(m)
      /\ \A o \in meta.preparing : o # obj[w] => o \in m.preparing
  <2>1. maybe[obj[w].id] = {{}}
    BY <1>1, <1>2 DEF OwnersInv, FileAt
  <2> QED  BY <2>1, FitsDeleted
<1>4. Commit(m) \/ CommitFails(m)
  BY DEF CleanRecord
<1> HIDE DEF m
<1>5. ASSUME NEW v \in Workers, v # w, Owns(v)
      PROVE  obj[v] \in m.preparing
  <2>1. obj[v] \in meta.preparing
    BY <1>1, <1>5 DEF OwnersInv, Possible
  <2>2. obj[v].id # obj[w].id
    BY <1>2, <1>5, OwnedObject, SMTT(30)
  <2> QED  BY <1>3, <2>1, <2>2
<1>6. /\ pc' \in [Workers -> Labels] /\ pc'[w] = "idle"
      /\ \A v \in Workers : v # w => pc'[v] = pc[v]
  BY <1>1, <1>2 DEF Done, Goto, OwnersInv, Labels
<1>7. /\ obj' \in [Workers -> Objects \cup {NoObject}]
      /\ \A v \in Workers : v # w => obj'[v] = obj[v]
  BY <1>1, <1>2 DEF Done, TypeOK
<1> QED  BY <1>2, <1>3, <1>4, <1>5, <1>6, <1>7, CommitInv

(* ReadObject finds the record of a committed object...                    *)
LEMMA LoadObjectInv ==
  ASSUME StoreInv, NEW w \in Workers, LoadObject(w)
  PROVE  StoreInv'
<1>1. /\ acked \subseteq meta.committed /\ fatal \in BOOLEAN /\ mode = "up"
      /\ meta.committed \subseteq Objects
      /\ UNCHANGED <<storage, files, mode, loss, acked>>
  BY DEF StoreInv, RecordsInv, TypeOK, Metas, LoadObject
<1>2. CASE Done(w) /\ fatal' \in BOOLEAN
  BY <1>1, <1>2, DoneInv
<1>3. CASE /\ \E o \in meta.committed :
                obj' = [obj EXCEPT ![w] = o] /\ Goto(w, "read")
           /\ UNCHANGED fatal
  <2>1. PICK o \in meta.committed :
               obj' = [obj EXCEPT ![w] = o] /\ Goto(w, "read")
    BY <1>3
  <2>2. o \in Objects \cup {NoObject} /\ pc' = [pc EXCEPT ![w] = "read"]
    BY <1>1, <2>1 DEF Goto
  <2> QED  BY <1>1, <1>3, <2>1, <2>2, MoveInv
<1> QED  BY <1>1, <1>2, <1>3 DEF LoadObject

(* ...and its file, complete.                                              *)
LEMMA ReadRangeInv ==
  ASSUME StoreInv, NEW w \in Workers, ReadRange(w)
  PROVE  StoreInv'
<1>1. /\ acked \subseteq meta.committed /\ fatal \in BOOLEAN
      /\ obj[w] \in meta.committed
  BY DEF StoreInv, RecordsInv, OwnersInv, TypeOK, ReadRange, FileStep
<1>2. PICK i : i = obj[w].id
  OBVIOUS
<1>3. i \in Ids /\ Complete(i) /\ names[i] \in maybe[i]
  BY <1>1, <1>2 DEF StoreInv, TypeOK, Metas, Objects, FilesInv, Possible
<1>4. "final" \in names[i] /\ data[i] = "full"
  BY <1>3 DEF Complete
<1>5. Done(w) /\ UNCHANGED <<storage, files, mode, loss, acked, fatal>>
  BY <1>2, <1>4 DEF ReadRange, FileStep
<1> QED  BY <1>1, <1>5, DoneInv

(* DeleteToken changes nothing that belongs to an object.                  *)
LEMMA DeleteTokenInv ==
  ASSUME StoreInv, DeleteToken
  PROVE  StoreInv'
<1>1. PICK c \in meta.tokens :
        \/ Commit([meta EXCEPT !.tokens = meta.tokens \ {c}])
        \/ CommitFails([meta EXCEPT !.tokens = meta.tokens \ {c}])
  BY DEF DeleteToken
<1> DEFINE m == [meta EXCEPT !.tokens = meta.tokens \ {c}]
<1>2. meta.tokens \ {c} \subseteq Creds
  BY DEF StoreInv, TypeOK, Metas
<1>3. Fits(m) /\ m.preparing = meta.preparing
  BY <1>2, FitsTokens
<1>4. Commit(m) \/ CommitFails(m)
  BY <1>1
<1>5. /\ mode = "up" /\ UNCHANGED <<files, mode, loss, acked>>
      /\ pc' = pc /\ obj' = obj
      /\ pc' \in [Workers -> Labels]
      /\ obj' \in [Workers -> Objects \cup {NoObject}]
  BY DEF DeleteToken, StoreInv, TypeOK, OwnersInv
<1> HIDE DEF m
<1>6. \A v \in Workers : /\ pc'[v] = pc[v] /\ obj'[v] = obj[v]
                         /\ Owns(v) => obj[v] \in m.preparing
  BY <1>3, <1>5 DEF StoreInv, OwnersInv, Possible
<1> QED  BY <1>3, <1>4, <1>5, <1>6, CommitInv

-----------------------------------------------------------------------------
(* The process ends.  A restart finds one of the possible states of the    *)
(* database, and for each file one that the directory may have been left   *)
(* in, with all its bytes if they were fsynced.                            *)
LEMMA StopInv ==
  ASSUME StoreInv, Stop, FileTypes',
         \A i \in Ids : /\ names'[i] \in maybe'[i]
                        /\ maybe'[i] \subseteq maybe[i]
                        /\ synced[i] => data'[i] = data[i] /\ synced'[i]
  PROVE  StoreInv'
<1>1. TypeOK /\ RecordsInv /\ FilesInv /\ ~loss
  BY DEF StoreInv
<1>2. /\ meta' \in Possible /\ inDoubt' = {} /\ Possible' = {meta'}
      /\ mode' = "down" /\ fatal' = FALSE /\ loss' = loss /\ acked' = acked
      /\ pc' = [w \in Workers |-> "idle"]
      /\ obj' = [w \in Workers |-> NoObject]
  BY DEF Stop, Possible
<1>3. meta' \in Metas /\ \A o \in Recorded(meta') : o.id < meta'.next
  BY <1>1, <1>2 DEF TypeOK, Possible, Recorded
<1>4. TypeOK'
  <2>1. obj' \in [Workers -> Objects \cup {NoObject}]
    BY <1>2
  <2>2. \A w \in Workers : pc'[w] = "idle"
    BY <1>2
  <2> QED  BY <1>1, <1>2, <1>3, <2>1, <2>2 DEF TypeOK, FileTypes, Recorded
<1>5. RecordsInv'
  BY <1>1, <1>2, SMTT(30) DEF RecordsInv, Recorded
<1>6. OwnersInv'
  <2>1. pc' \in [Workers -> Labels] /\ \A w \in Workers : pc'[w] = "idle"
    BY <1>2 DEF Labels
  <2> QED  BY <2>1 DEF OwnersInv, Owns, WriteLabels, CleanLabels
<1>7. FilesInv'
  <2>1. ASSUME NEW o \in meta'.committed  PROVE Complete(o.id)'
    <3>1. Complete(o.id) /\ o.id \in Ids
      BY <1>1, <1>2, <1>3 DEF FilesInv, Metas, Objects
    <3>2. maybe'[o.id] = {{"final"}}
      <4>1. PICK N : N = {"final"}
        OBVIOUS
      <4>2. maybe[o.id] = {N}
        BY <3>1, <4>1 DEF Complete
      <4>3. names'[o.id] \in maybe'[o.id] /\ maybe'[o.id] \subseteq {N}
        BY <3>1, <4>2
      <4>4. maybe'[o.id] = {N}
        BY <4>3
      <4> QED  BY <4>1, <4>4
    <3>3. data'[o.id] = "full" /\ synced'[o.id]
      BY <3>1 DEF Complete
    <3> QED  BY <3>2, <3>3 DEF Complete
  <2>2. ASSUME NEW i \in Ids, \A o \in Recorded(meta') : o.id # i
        PROVE  maybe'[i] = {{}}
    <3>1. maybe[i] = {{}}
      BY <1>1, <1>2, <2>2 DEF FilesInv
    <3> QED  BY <3>1
  <2> QED  BY <1>2, <2>1, <2>2 DEF FilesInv, Recorded
<1>8. RecoveryInv'
  BY <1>2 DEF RecoveryInv
<1> QED  BY <1>1, <1>2, <1>4, <1>5, <1>6, <1>7, <1>8 DEF StoreInv

(* A killed process leaves the files as they are.                          *)
LEMMA CrashInv ==
  ASSUME StoreInv, Crash
  PROVE  StoreInv'
<1>1. /\ FileTypes' /\ Stop
      /\ \A i \in Ids : /\ names'[i] \in maybe'[i] /\ maybe'[i] = maybe[i]
                        /\ data'[i] = data[i] /\ synced'[i] = synced[i]
  BY DEF StoreInv, TypeOK, FilesInv, FileTypes, Crash, files
<1> QED  BY <1>1, StopInv

(* A power loss takes names and bytes that were not made durable.          *)
LEMMA PowerLossInv ==
  ASSUME StoreInv, PowerLoss
  PROVE  StoreInv'
<1>1. /\ names' \in [Ids -> SUBSET {"tmp", "final"}]
      /\ \A i \in Ids : names'[i] \in maybe[i]
      /\ maybe' = [i \in Ids |-> {names'[i]}]
      /\ data' \in [Ids -> {"none", "partial", "full"}]
      /\ \A i \in Ids : synced[i] => data'[i] = data[i]
      /\ synced' = [i \in Ids |-> TRUE]
  BY DEF PowerLoss
<1>2. maybe' \in [Ids -> SUBSET SUBSET {"tmp", "final"}]
  BY <1>1, SMT
<1>3. FileTypes'
  BY <1>1, <1>2 DEF FileTypes
<1>4. \A i \in Ids : /\ names'[i] \in maybe'[i]
                     /\ maybe'[i] \subseteq maybe[i]
                     /\ synced[i] => data'[i] = data[i] /\ synced'[i]
  BY <1>1
<1> QED  BY <1>3, <1>4, StopInv DEF PowerLoss

-----------------------------------------------------------------------------
(* While a start recovers, no worker is in a call: the rest of a step's    *)
(* effect is on the files.                                                 *)
LEMMA RecoverInv ==
  ASSUME StoreInv, mode # "up",
         mode' \in {"up", "unlink", "sync", "record"},
         UNCHANGED <<storage, fatal, pc, obj, loss, acked>>,
         FileTypes', FilesInv', RecoveryInv'
  PROVE  StoreInv'
<1>1. TypeOK /\ RecordsInv /\ OwnersInv /\ ~loss
  BY DEF StoreInv
<1>2. /\ meta' = meta /\ inDoubt' = inDoubt /\ fatal' = fatal /\ pc' = pc
      /\ obj' = obj /\ loss' = loss /\ acked' = acked
  BY DEF storage
<1>3. \A w \in Workers : pc[w] = "idle"
  BY <1>1 DEF TypeOK
<1>4. TypeOK'
  BY <1>1, <1>2, <1>3 DEF TypeOK, FileTypes
<1>5. RecordsInv'
  BY <1>1, <1>2 DEF RecordsInv, Possible, Recorded
<1>6. OwnersInv'
  BY <1>1, <1>2, <1>3 DEF OwnersInv, Owns, WriteLabels, CleanLabels
<1> QED  BY <1>1, <1>2, <1>4, <1>5, <1>6, SMT DEF StoreInv

(* A step that leaves the database and the files alone keeps what the      *)
(* invariant says of the files.                                            *)
LEMMA SameFiles ==
  ASSUME StoreInv, UNCHANGED <<storage, files>>
  PROVE  FileTypes' /\ FilesInv'
<1>1. /\ names' = names /\ maybe' = maybe /\ data' = data
      /\ synced' = synced /\ meta' = meta /\ inDoubt' = inDoubt
  BY DEF storage, files
<1>2. FileTypes /\ FilesInv
  BY DEF StoreInv, TypeOK, FileTypes
<1>3. FileTypes'
  BY <1>1, <1>2 DEF FileTypes
<1>4. FilesInv'
  BY <1>1, <1>2 DEF FilesInv, Possible, Recorded, Complete
<1> QED  BY <1>3, <1>4

(* OpenExisting begins with RecoverPreparingObjects if there are any.  No  *)
(* start finds an object that is both PREPARING and COMMITTED.             *)
LEMMA OpenInv ==
  ASSUME StoreInv, Open
  PROVE  StoreInv'
<1>0. \A o \in meta.preparing, c \in meta.committed : o.id # c.id
  <2>1. meta \in Possible
    BY DEF Possible
  <2> QED  BY <2>1 DEF StoreInv, RecordsInv, Recorded
<1>1. /\ mode = "down" /\ mode' \in {"up", "unlink"} /\ inDoubt = {}
      /\ UNCHANGED <<storage, files, fatal, pc, obj, loss, acked>>
  BY <1>0 DEF Open, RecoverStep, StoreInv, RecoveryInv
<1>2. FileTypes' /\ FilesInv'
  BY <1>1, SameFiles
<1>3. RecoveryInv'
  BY <1>1 DEF RecoveryInv, storage
<1> QED  BY <1>1, <1>2, <1>3, RecoverInv

(* Recovery unlinks names of PREPARING objects only.                       *)
LEMMA RecoverUnlinkInv ==
  ASSUME StoreInv, RecoverUnlink
  PROVE  StoreInv'
<1>1. TypeOK /\ RecordsInv /\ FilesInv /\ RecoveryInv
  BY DEF StoreInv
<1>2. /\ mode = "unlink" /\ mode' = "unlink"
      /\ UNCHANGED <<storage, data, synced, fatal, pc, obj, loss, acked>>
  BY DEF RecoverUnlink, RecoverStep
<1>3. PICK o \in meta.preparing :
        SetNames(o.id, IF "tmp" \in names[o.id] THEN names[o.id] \ {"tmp"}
                                                ELSE {})
  BY DEF RecoverUnlink
<1>4. PICK i : i = o.id
  OBVIOUS
<1>5. i \in Ids /\ FileTypes
  BY <1>1, <1>3, <1>4 DEF TypeOK, FileTypes, Metas, Objects
<1> DEFINE N == IF "tmp" \in names[i] THEN names[i] \ {"tmp"} ELSE {}
<1>6. N \in SUBSET {"tmp", "final"} /\ SetNames(i, N)
  BY <1>3, <1>4, <1>5 DEF FileTypes
<1> HIDE DEF N
<1>7. /\ names' \in [Ids -> SUBSET {"tmp", "final"}]
      /\ maybe' \in [Ids -> SUBSET SUBSET {"tmp", "final"}]
      /\ names'[i] = N /\ maybe'[i] = maybe[i] \cup {N}
      /\ \A k \in Ids \ {i} : names'[k] = names[k] /\ maybe'[k] = maybe[k]
  BY <1>5, <1>6, SetNamesStep
<1>8. FileTypes'
  BY <1>2, <1>5, <1>7 DEF FileTypes
<1>9. Possible' = {meta} /\ Possible = {meta}
  BY <1>1, <1>2 DEF Possible, RecoveryInv, storage
<1>10. FilesInv'
  <2>1. \A k \in Ids : names'[k] \in maybe'[k]
    BY <1>1, <1>7 DEF FilesInv
  <2>2. ASSUME NEW c \in meta.committed  PROVE Complete(c.id)'
    <3>1. Complete(c.id) /\ c.id \in Ids
      BY <1>1 DEF FilesInv, TypeOK, Metas, Objects, Possible
    <3>2. c.id # i
      BY <1>1, <1>3, <1>4, SMT DEF RecordsInv, Possible, Recorded
    <3> QED  BY <1>2, <1>7, <3>1, <3>2 DEF Complete
  <2>3. ASSUME NEW k \in Ids, \A q \in Recorded(meta) : q.id # k
        PROVE  maybe'[k] = {{}}
    <3>1. k # i /\ maybe[k] = {{}}
      BY <1>1, <1>3, <1>4, <2>3 DEF FilesInv, Possible, Recorded
    <3> QED  BY <1>7, <3>1
  <2> QED  BY <1>9, <2>1, <2>2, <2>3 DEF FilesInv, Recorded
<1>11. RecoveryInv'
  BY <1>1, <1>2 DEF RecoveryInv, storage
<1> QED  BY <1>2, <1>8, <1>10, <1>11, RecoverInv

(* The last name is gone.                                                  *)
LEMMA RecoverUnlinkedInv ==
  ASSUME StoreInv, RecoverUnlinked
  PROVE  StoreInv'
<1>1. /\ mode = "unlink" /\ mode' = "sync" /\ inDoubt = {}
      /\ \A o \in meta.preparing : names[o.id] = {}
      /\ UNCHANGED <<storage, files, fatal, pc, obj, loss, acked>>
  BY DEF RecoverUnlinked, RecoverStep, StoreInv, RecoveryInv
<1>2. FileTypes' /\ FilesInv'
  BY <1>1, SameFiles
<1>3. RecoveryInv'
  BY <1>1 DEF RecoveryInv, storage, files
<1> QED  BY <1>1, <1>2, <1>3, RecoverInv

(* Their absence is durable before the records go.                         *)
LEMMA RecoverSyncInv ==
  ASSUME StoreInv, RecoverSync
  PROVE  StoreInv'
<1>1. /\ mode = "sync" /\ mode' = "record" /\ SyncDirectory
      /\ UNCHANGED <<storage, fatal, pc, obj, loss, acked>>
  BY DEF RecoverSync, RecoverStep
<1>2. /\ names' = names /\ data' = data /\ synced' = synced
      /\ maybe' \in [Ids -> SUBSET SUBSET {"tmp", "final"}]
      /\ \A i \in Ids : maybe'[i] = {names[i]}
      /\ FilesInv'
  BY <1>1, SyncFiles
<1>3. FileTypes'
  BY <1>2 DEF FileTypes, StoreInv, TypeOK
<1>4. RecoveryInv'
  <2>1. /\ inDoubt = {} /\ \A o \in meta.preparing : names[o.id] = {}
        /\ \A o \in meta.preparing : o.id \in Ids
    BY <1>1 DEF StoreInv, RecoveryInv, TypeOK, Metas, Objects
  <2> QED  BY <1>1, <1>2, <2>1 DEF RecoveryInv, storage
<1> QED  BY <1>1, <1>2, <1>3, <1>4, RecoverInv

(* The batch that deletes the PREPARING records.                           *)
LEMMA RecoverRecordsInv ==
  ASSUME StoreInv, RecoverRecords \/ RecoverRecordsFails
  PROVE  StoreInv'
<1>1. TypeOK /\ RecordsInv /\ OwnersInv /\ RecoveryInv /\ ~loss
  BY DEF StoreInv
<1>2. /\ mode = "record" /\ mode' \in {"up", "failed"}
      /\ UNCHANGED <<files, pc, obj, loss, acked>>
  BY DEF RecoverRecords, RecoverRecordsFails, RecoverStep
<1> DEFINE m == DeletePreparingObject(meta.preparing)
<1>3. Commit(m) \/ CommitFails(m)
  BY DEF RecoverRecords, RecoverRecordsFails
<1>4. Fits(m)
  <2>1. \A o \in meta.preparing : maybe[o.id] = {{}}
    BY <1>1, <1>2 DEF RecoveryInv
  <2> QED  BY <2>1, FitsDeleted
<1> HIDE DEF m
<1>5. /\ RecordsInv' /\ FilesInv'
      /\ meta' \in Metas /\ inDoubt' \subseteq Metas
      /\ \A x \in Possible' : \A o \in Recorded(x) : o.id < x.next
      /\ fatal' \in BOOLEAN
  BY <1>2, <1>3, <1>4, StorageStep
<1>6. \A w \in Workers : pc[w] = "idle"
  BY <1>1, <1>2 DEF TypeOK
<1>7. TypeOK'
  BY <1>1, <1>2, <1>5, <1>6 DEF TypeOK, files, Possible, Recorded
<1>8. OwnersInv'
  BY <1>1, <1>2, <1>6 DEF OwnersInv, Owns, WriteLabels, CleanLabels
<1>9. RecoveryInv'
  BY <1>2 DEF RecoveryInv
<1> QED  BY <1>1, <1>2, <1>5, <1>7, <1>8, <1>9 DEF StoreInv

-----------------------------------------------------------------------------
(* Every step keeps the invariant.                                         *)
LEMMA NextStoreInv == StoreInv /\ [Next]_vars => StoreInv'
<1> SUFFICES ASSUME StoreInv, [Next]_vars  PROVE StoreInv'
  OBVIOUS
<1>1. ASSUME NEW w \in Workers, WorkerStep(w)  PROVE StoreInv'
  BY <1>1, EnterInv, PrepareInv, CreateTemporaryInv, WriteDataInv, FsyncInv,
     RenameInv, FsyncDirectoryInv, FinishInv, ReplyInv, UnlinkInv,
     CleanDirectoryInv, CleanRecordInv, LoadObjectInv, ReadRangeInv
     DEF WorkerStep
<1>2. CASE DeleteToken
  BY <1>2, DeleteTokenInv
<1>3. CASE Crash
  BY <1>3, CrashInv
<1>4. CASE PowerLoss
  BY <1>4, PowerLossInv
<1>5. CASE Recover
  BY <1>5, OpenInv, RecoverUnlinkInv, RecoverUnlinkedInv, RecoverSyncInv,
     RecoverRecordsInv DEF Recover
<1>6. CASE UNCHANGED vars
  <2>1. /\ UNCHANGED <<meta, inDoubt, names, maybe, data, synced, mode, fatal,
                       pc, obj, loss, acked>>
    BY <1>6 DEF vars
  <2>2. TypeOK' /\ RecordsInv'
    BY <2>1 DEF StoreInv, TypeOK, RecordsInv, Possible, Recorded
  <2>3. OwnersInv'
    BY <2>1, ZenonT(60) DEF StoreInv, OwnersInv, Owns, FileAt, Possible
  <2>4. FilesInv' /\ RecoveryInv' /\ ~loss'
    BY <2>1, SMT DEF StoreInv, FilesInv, RecoveryInv, Possible, Recorded, Complete
  <2> QED  BY <2>2, <2>3, <2>4 DEF StoreInv
<1> QED  BY <1>1, <1>2, <1>3, <1>4, <1>5, <1>6 DEF Next

(* The invariant of object storage holds in every reachable state, with    *)
(* any number of workers, kills, power losses and restarts.                *)
THEOREM StoreIsSafe == Spec => []StoreInv
BY InitStoreInv, NextStoreInv, PTL DEF Spec

(* The invariant gives each of the safety properties.                      *)
LEMMA StoreInvImplies ==
  StoreInv => /\ CommittedIsReadable /\ NoOrphanFile /\ NoFalseCorruption
              /\ ObjectIdsAreUnique
<1> SUFFICES ASSUME StoreInv
             PROVE  /\ CommittedIsReadable /\ NoOrphanFile /\ NoFalseCorruption
                    /\ ObjectIdsAreUnique
  OBVIOUS
<1>1. CommittedIsReadable
  BY DEF StoreInv, FilesInv, Complete, Possible, CommittedIsReadable
<1>2. NoOrphanFile
  BY DEF StoreInv, FilesInv, Possible, Recorded, NoOrphanFile
<1>3. NoFalseCorruption
  BY DEF StoreInv, NoFalseCorruption
<1>4. ObjectIdsAreUnique
  BY DEF StoreInv, RecordsInv, OwnersInv, Possible, Recorded, ObjectIdsAreUnique
<1> QED  BY <1>1, <1>2, <1>3, <1>4

(* No step, and no restart, takes a committed object back.                 *)
LEMMA CommittedStays ==
  ASSUME StoreInv, [Next]_vars
  PROVE  meta.committed \subseteq meta'.committed
<1>1. ASSUME NEW w \in Workers, WorkerStep(w),
             ~Prepare(w), ~Finish(w), ~CleanRecord(w)
      PROVE  meta' = meta
  BY <1>1 DEF WorkerStep, Enter, CreateTemporary, WriteData, Fsync, Rename,
     FsyncDirectory, Reply, UnlinkTemporary, UnlinkFinal, Unlink,
     CleanDirectory, LoadObject, ReadRange, FileStep, CleanStep, storage
<1>2. meta \in Metas
  BY DEF StoreInv, TypeOK
<1>3. ASSUME NEW w \in Workers, Prepare(w) \/ Finish(w) \/ CleanRecord(w)
      PROVE  meta.committed \subseteq meta'.committed
  BY <1>2, <1>3 DEF Prepare, Finish, CleanRecord, PutPreparingObject,
     PutCommittedObject, DeletePreparingObject, Commit, CommitFails, storage,
     Metas
<1>4. CASE DeleteToken
  BY <1>2, <1>4 DEF DeleteToken, Commit, CommitFails, storage, Metas
<1>5. CASE Crash \/ PowerLoss
  <2>1. meta' \in Possible
    BY <1>5 DEF Crash, PowerLoss, Stop, Possible
  <2> QED  BY <2>1 DEF StoreInv, RecordsInv
<1>6. CASE Recover
  BY <1>2, <1>6 DEF Recover, Open, RecoverUnlink, RecoverUnlinked, RecoverSync,
     RecoverRecords, RecoverRecordsFails, DeletePreparingObject, Commit,
     CommitFails, storage, Metas
<1>7. CASE UNCHANGED vars
  BY <1>7 DEF vars
<1> QED  BY <1>1, <1>3, <1>4, <1>5, <1>6, <1>7 DEF Next

(* What a step that commits or deletes records does to the set of          *)
(* committed objects: only Finish and a restart add to it.                 *)
LEMMA CommitsUnderValidToken ==
  ASSUME StoreInv, [Next]_vars
  PROVE  \A o \in meta'.committed \ meta.committed : o.creator \in meta'.tokens
<1>1. ASSUME NEW w \in Workers, WorkerStep(w),
             ~Prepare(w), ~Finish(w), ~CleanRecord(w)
      PROVE  meta' = meta
  BY <1>1 DEF WorkerStep, Enter, CreateTemporary, WriteData, Fsync, Rename,
     FsyncDirectory, Reply, UnlinkTemporary, UnlinkFinal, Unlink,
     CleanDirectory, LoadObject, ReadRange, FileStep, CleanStep, storage
<1>2. meta \in Metas
  BY DEF StoreInv, TypeOK
<1>3. ASSUME NEW w \in Workers, Prepare(w)
      PROVE  meta'.committed = meta.committed
  BY <1>2, <1>3 DEF Prepare, PutPreparingObject, Commit, CommitFails, storage,
                    Metas
<1>4. ASSUME NEW w \in Workers, Finish(w)
      PROVE  \A o \in meta'.committed \ meta.committed :
               o.creator \in meta'.tokens
  <2>1. PICK o : o = obj[w]
    OBVIOUS
  <2>2. \/ meta' = meta
        \/ o.creator \in meta.tokens /\ meta' = PutCommittedObject(o)
    BY <1>4, <2>1 DEF Finish, Commit, CommitFails, storage
  <2>3. /\ PutCommittedObject(o).committed = meta.committed \cup {o}
        /\ PutCommittedObject(o).tokens = meta.tokens
    BY <1>2 DEF PutCommittedObject, Metas
  <2> QED  BY <2>2, <2>3
<1>5. ASSUME NEW w \in Workers, CleanRecord(w)
      PROVE  meta'.committed = meta.committed
  BY <1>2, <1>5 DEF CleanRecord, DeletePreparingObject, Commit, CommitFails,
                    storage, Metas
<1>6. CASE DeleteToken
  BY <1>2, <1>6 DEF DeleteToken, Commit, CommitFails, storage, Metas
<1>7. CASE Crash \/ PowerLoss
  <2>1. meta' \in Possible
    BY <1>7 DEF Crash, PowerLoss, Stop, Possible
  <2> QED  BY <2>1 DEF StoreInv, RecordsInv
<1>8. CASE Recover
  BY <1>2, <1>8 DEF Recover, Open, RecoverUnlink, RecoverUnlinked, RecoverSync,
     RecoverRecords, RecoverRecordsFails, DeletePreparingObject, Commit,
     CommitFails, storage, Metas
<1>9. CASE UNCHANGED vars
  BY <1>9 DEF vars
<1> QED  BY <1>1, <1>3, <1>4, <1>5, <1>6, <1>7, <1>8, <1>9 DEF Next

(* Only a start that has no PREPARING record left begins to serve.         *)
LEMMA ServesWithoutPreparing ==
  ASSUME StoreInv, [Next]_vars, mode # "up", mode' = "up"
  PROVE  meta'.preparing = {}
<1>1. ASSUME NEW w \in Workers, WorkerStep(w)  PROVE FALSE
  BY <1>1 DEF StoreInv, TypeOK, WorkerStep, Enter, Prepare, CreateTemporary,
     WriteData, Fsync, Rename, FsyncDirectory, Finish, Reply, UnlinkTemporary,
     UnlinkFinal, Unlink, CleanDirectory, CleanRecord, LoadObject, ReadRange,
     FileStep, CleanStep
<1>2. ~DeleteToken /\ ~Crash /\ ~PowerLoss /\ ~UNCHANGED vars
  BY DEF DeleteToken, Crash, PowerLoss, Stop, vars
<1>3. CASE Recover
  BY <1>3, SMT DEF Recover, Open, RecoverUnlink, RecoverUnlinked, RecoverSync,
     RecoverRecords, RecoverRecordsFails, RecoverStep, DeletePreparingObject,
     Commit, storage, StoreInv, TypeOK, Metas
<1> QED  BY <1>1, <1>2, <1>3 DEF Next

(* Every COMMITTED record, also one that a restart may still recover, has  *)
(* a complete file that no crash can take away.                            *)
THEOREM CommittedObjectsAreReadable == Spec => []CommittedIsReadable
BY StoreIsSafe, StoreInvImplies, PTL

(* Whatever a crash takes away, a file always has a record that leads the  *)
(* recovery of a later start to it.                                        *)
THEOREM FilesHaveRecords == Spec => []NoOrphanFile
BY StoreIsSafe, StoreInvImplies, PTL

(* WriteObject, ReadObject and recovery never report corruption of what    *)
(* they themselves have written.                                           *)
THEOREM NoCorruptionIsReported == Spec => []NoFalseCorruption
BY StoreIsSafe, StoreInvImplies, PTL

(* No two objects share an id, and what WriteObject returned stays.        *)
THEOREM ObjectIdsStayUnique == Spec => []ObjectIdsAreUnique
BY StoreIsSafe, StoreInvImplies, PTL

(* An object becomes committed only under a token that is valid then.      *)
THEOREM NothingCommitsAfterRevocation == Spec => NoCommitAfterRevocation
<1>1. StoreInv /\ [Next]_vars
        => [\A o \in meta'.committed \ meta.committed :
              o.creator \in meta'.tokens]_vars
  BY CommitsUnderValidToken
<1> QED  BY <1>1, StoreIsSafe, PTL DEF Spec, NoCommitAfterRevocation

(* When it begins to serve, the server has files of committed objects only.*)
LEMMA StartsWithCommittedOnly ==
  ASSUME StoreInv, StoreInv', [Next]_vars, mode # "up", mode' = "up"
  PROVE  /\ meta'.preparing = {}
         /\ \A i \in Ids : (\A o \in meta'.committed : o.id # i)
                             => maybe'[i] = {{}}
<1>1. meta'.preparing = {}
  BY ServesWithoutPreparing
<1>2. FilesInv'
  BY DEF StoreInv
<1> QED  BY <1>1, <1>2 DEF FilesInv, Possible, Recorded

(* A restarted server begins to serve with committed objects only.         *)
THEOREM RestartsAreClean == Spec => StartsClean
<1>1. StoreInv /\ StoreInv' /\ [Next]_vars
        => [mode # "up" /\ mode' = "up" =>
              /\ meta'.preparing = {}
              /\ \A i \in Ids : (\A o \in meta'.committed : o.id # i)
                                  => maybe'[i] = {{}}]_vars
  BY StartsWithCommittedOnly
<1> QED  BY <1>1, StoreIsSafe, PTL DEF Spec, StartsClean

-----------------------------------------------------------------------------
(***************************************************************************)
(* Messages and the objects they name.  The invariant of object storage is *)
(* kept by publications as well.  What it adds here is small, because      *)
(* meta.committed is the least that a restart may find: an object key is   *)
(* admitted against meta, and every message, also one in doubt, names      *)
(* objects of meta.committed only.                                         *)
(***************************************************************************)
LogInv ==
  /\ RefTypeOK
  /\ logDoubt \subseteq Seq(SUBSET Objects)
  /\ \A l \in {log} \cup logDoubt : \A i \in DOMAIN l : l[i] \subseteq meta.committed

RefInv == StoreInv /\ LogInv

-----------------------------------------------------------------------------
(* Before the first message.                                               *)
LEMMA InitRefInv == ComposedInit => RefInv
<1> SUFFICES ASSUME ComposedInit  PROVE RefInv
  OBVIOUS
<1>1. StoreInv
  BY InitStoreInv DEF ComposedInit
<1>2. LogInv
  BY SMT DEF ComposedInit, LogInv, RefTypeOK
<1> QED  BY <1>1, <1>2 DEF RefInv

(* RocksDB accepts no write after one in doubt: until the next start the   *)
(* steps of ObjectStore leave the records alone.                           *)
LEMMA InDoubtIsFrozen ==
  ASSUME ObjectStep
  PROVE  inDoubt = {} \/ UNCHANGED storage
<1>1. ASSUME NEW w \in Workers, WorkerStep(w)
      PROVE  inDoubt = {} \/ UNCHANGED storage
  <2>1. CASE Prepare(w) \/ Finish(w) \/ CleanRecord(w)
    BY <2>1 DEF Prepare, Finish, CleanRecord, Commit, CommitFails
  <2>2. CASE ~(Prepare(w) \/ Finish(w) \/ CleanRecord(w))
    BY <1>1, <2>2 DEF WorkerStep, Enter, CreateTemporary, WriteData, Fsync,
       Rename, FsyncDirectory, Reply, UnlinkTemporary, UnlinkFinal, Unlink,
       CleanDirectory, LoadObject, ReadRange, FileStep, CleanStep
  <2> QED  BY <2>1, <2>2
<1>2. CASE DeleteToken
  BY <1>2 DEF DeleteToken, Commit, CommitFails
<1>3. CASE Recover
  BY <1>3 DEF Recover, Open, RecoverUnlink, RecoverUnlinked, RecoverSync,
     RecoverRecords, RecoverRecordsFails, Commit, CommitFails
<1> QED  BY <1>1, <1>2, <1>3 DEF ObjectStep

(* The log is kept as it is and every committed object stays committed.    *)
LEMMA ObjectStepInv ==
  ASSUME RefInv, ObjectStep
  PROVE  RefInv'
<1>1. StoreInv /\ StoreInv' /\ LogInv
  <2>1. Next
    BY DEF ObjectStep, Next
  <2> QED  BY <2>1, NextStoreInv DEF RefInv
<1>2. meta.committed \subseteq meta'.committed
  BY <1>1, CommittedStays DEF ObjectStep, Next
<1>3. log' = log /\ logDoubt' = logDoubt
  BY DEF ObjectStep, refVars
<1>4. RefTypeOK'
  <2>1. CASE inDoubt = {}
    BY <1>1, <1>3, <2>1 DEF LogInv, RefTypeOK
  <2>2. CASE UNCHANGED storage
    BY <1>1, <1>3, <2>2 DEF LogInv, RefTypeOK, storage
  <2> QED  BY <2>1, <2>2, InDoubtIsFrozen
<1>5. LogInv'
  BY <1>1, <1>2, <1>3, <1>4 DEF LogInv
<1> QED  BY <1>1, <1>5 DEF RefInv

(* The end of the process, with a message in doubt or without.             *)
LEMMA EndInv ==
  ASSUME RefInv, End
  PROVE  RefInv'
<1>1. StoreInv /\ StoreInv' /\ LogInv
  <2>1. Next
    BY DEF End, Next
  <2> QED  BY <2>1, NextStoreInv DEF RefInv
<1>2. meta.committed \subseteq meta'.committed
  BY <1>1, CommittedStays DEF End, Next
<1>3. /\ log' \in {log} \cup logDoubt /\ logDoubt' = {}
      /\ log \in Seq(SUBSET Objects) /\ logDoubt \subseteq Seq(SUBSET Objects)
      /\ \A i \in DOMAIN log' : log'[i] \subseteq meta.committed
  BY <1>1 DEF End, LogInv, RefTypeOK
<1>4. LogInv'
  BY <1>2, <1>3 DEF LogInv, RefTypeOK
<1> QED  BY <1>1, <1>4 DEF RefInv

(* A publication leaves the records alone; at worst, whether the message   *)
(* is in the log is in doubt.                                              *)
LEMMA PublishStoreInv ==
  ASSUME StoreInv, NEW w \in Workers, PublishMessage(w)
  PROVE  /\ StoreInv'
         /\ meta' = meta /\ mode' = mode
<1>1. TypeOK /\ RecordsInv /\ OwnersInv /\ FilesInv
  BY DEF StoreInv
<1>2. /\ pc[w] = "entered" /\ Done(w) /\ mode = "up"
      /\ UNCHANGED <<meta, files, mode, loss, acked>>
  BY <1>1 DEF PublishMessage, TypeOK
<1>3. CASE inDoubt' = inDoubt
  <2>1. fatal' \in BOOLEAN
    BY <1>1 DEF PublishMessage, TypeOK
  <2>2. acked \subseteq meta.committed /\ UNCHANGED <<storage, files, mode, loss>>
    BY <1>1, <1>2, <1>3 DEF RecordsInv, storage
  <2> QED  BY <1>2, <2>1, <2>2, DoneInv
<1>4. CASE inDoubt = {} /\ inDoubt' = {meta} /\ fatal' = TRUE
  <2>1. Fits(meta)
    BY <1>1 DEF Fits, TypeOK, RecordsInv, FilesInv, Possible, Recorded
  <2>2. CommitFails(meta)
    BY <1>2, <1>4 DEF CommitFails
  <2>3. /\ pc' \in [Workers -> Labels] /\ pc'[w] = "idle"
        /\ \A v \in Workers : v # w => pc'[v] = pc[v]
    BY <1>1, <1>2 DEF Done, Goto, OwnersInv, Labels
  <2>4. /\ obj' \in [Workers -> Objects \cup {NoObject}]
        /\ \A v \in Workers : v # w => obj'[v] = obj[v]
    BY <1>1, <1>2 DEF Done, TypeOK
  <2>5. \A v \in Workers : Owns(v) => obj[v] \in meta.preparing
    BY <1>1 DEF OwnersInv, Possible
  <2> QED  BY <1>2, <2>1, <2>2, <2>3, <2>4, <2>5, CommitInv
<1> QED  BY <1>2, <1>3, <1>4 DEF PublishMessage

(* The message names what is committed when it is admitted.                *)
LEMMA PublishInv ==
  ASSUME RefInv, NEW w \in Workers, PublishMessage(w)
  PROVE  RefInv'
<1>1. StoreInv' /\ meta' = meta /\ LogInv
  BY PublishStoreInv DEF RefInv
<1>2. /\ log \in Seq(SUBSET Objects) /\ logDoubt \subseteq Seq(SUBSET Objects)
      /\ \A l \in {log} \cup logDoubt :
           \A i \in DOMAIN l : l[i] \subseteq meta.committed
      /\ \A l \in logDoubt : /\ Len(l) = Len(log) + 1
                             /\ SubSeq(l, 1, Len(log)) = log
                             /\ inDoubt = {meta}
  BY <1>1 DEF LogInv, RefTypeOK
<1>3. CASE UNCHANGED <<inDoubt, log, logDoubt>>
  BY <1>1, <1>2, <1>3 DEF RefInv, LogInv, RefTypeOK
<1>4. ASSUME NEW keys \in SUBSET Objects, keys \subseteq meta.committed,
             inDoubt = {},
             \/ log' = Append(log, keys) /\ UNCHANGED <<inDoubt, logDoubt>>
             \/ /\ inDoubt' = {meta} /\ logDoubt' = {Append(log, keys)}
                /\ UNCHANGED log
      PROVE  RefInv'
  <2>1. /\ Append(log, keys) \in Seq(SUBSET Objects)
        /\ Len(Append(log, keys)) = Len(log) + 1
        /\ SubSeq(Append(log, keys), 1, Len(log)) = log
        /\ \A i \in DOMAIN Append(log, keys) :
             Append(log, keys)[i] \subseteq meta.committed
    BY <1>2, <1>4, SMT
  <2>2. logDoubt = {}
    BY <1>2, <1>4
  <2> QED  BY <1>1, <1>2, <1>4, <2>1, <2>2 DEF RefInv, LogInv, RefTypeOK
<1> QED  BY <1>3, <1>4 DEF PublishMessage, Admitted, refVars

(* Every step of the composed system keeps the invariant.                  *)
LEMMA NextRefInv == RefInv /\ [ComposedNext]_<<vars, refVars>> => RefInv'
<1> SUFFICES ASSUME RefInv, [ComposedNext]_<<vars, refVars>>  PROVE RefInv'
  OBVIOUS
<1>1. CASE UNCHANGED <<vars, refVars>>
  <2>1. StoreInv'
    BY <1>1, NextStoreInv DEF RefInv
  <2>2. LogInv'
    BY <1>1 DEF RefInv, LogInv, RefTypeOK, vars, refVars
  <2> QED  BY <2>1, <2>2 DEF RefInv
<1> QED  BY <1>1, ObjectStepInv, EndInv, PublishInv DEF ComposedNext

(* The invariant of the composed system.                                   *)
THEOREM ComposedIsSafe == ComposedSpec => []RefInv
BY InitRefInv, NextRefInv, PTL DEF ComposedSpec

(* Every object that a message of the log names, or that a message may     *)
(* name after a restart, is and stays readable.                            *)
THEOREM NamedObjectsStayDurable == ComposedSpec => []NamedObjectsAreDurable
<1>1. RefInv => NamedObjectsAreDurable
  <2> SUFFICES ASSUME RefInv  PROVE NamedObjectsAreDurable
    OBVIOUS
  <2>1. ASSUME NEW l \in {log} \cup logDoubt, NEW m \in {meta} \cup inDoubt,
               NEW i \in DOMAIN l
        PROVE  /\ BatchGetObjectMetadata(m, l[i]) = "OK"
               /\ \A o \in l[i] : /\ maybe[o.id] = {{"final"}}
                                  /\ data[o.id] = "full" /\ synced[o.id]
    <3>1. l[i] \subseteq meta.committed /\ meta.committed \subseteq m.committed
      BY DEF RefInv, LogInv, StoreInv, RecordsInv, Possible
    <3>2. \A o \in m.committed : Complete(o.id)
      BY DEF RefInv, StoreInv, FilesInv, Possible
    <3> QED  BY <3>1, <3>2 DEF BatchGetObjectMetadata, LoadAuthorizedObject,
                               Complete
  <2> QED  BY <2>1, SMT DEF RefInv, LogInv, NamedObjectsAreDurable
<1> QED  BY <1>1, ComposedIsSafe, PTL

(* What is proved of object storage alone holds while messages are         *)
(* published: the record and its file,...                                  *)
THEOREM ComposedStoreIsSafe ==
  ComposedSpec => [](/\ CommittedIsReadable /\ NoOrphanFile
                     /\ NoFalseCorruption /\ ObjectIdsAreUnique)
<1>1. RefInv => /\ CommittedIsReadable /\ NoOrphanFile
                /\ NoFalseCorruption /\ ObjectIdsAreUnique
  BY StoreInvImplies DEF RefInv
<1> QED  BY <1>1, ComposedIsSafe, PTL

(* ...revoked tokens and clean starts.                                     *)
THEOREM ComposedStepsAreSafe ==
  ComposedSpec => NoCommitAfterRevocation /\ StartsClean
<1>1. RefInv /\ [ComposedNext]_<<vars, refVars>> =>
        \/ StoreInv /\ StoreInv' /\ [Next]_vars
        \/ meta' = meta /\ mode' = mode
  <2> SUFFICES ASSUME RefInv, [ComposedNext]_<<vars, refVars>>
               PROVE  \/ StoreInv /\ StoreInv' /\ [Next]_vars
                      \/ meta' = meta /\ mode' = mode
    OBVIOUS
  <2>1. StoreInv /\ StoreInv'
    BY NextRefInv DEF RefInv
  <2>2. CASE \E w \in Workers : PublishMessage(w)
    BY <2>1, <2>2, PublishStoreInv
  <2>3. CASE ObjectStep \/ End
    BY <2>1, <2>3 DEF ObjectStep, End, Next
  <2>4. CASE UNCHANGED <<vars, refVars>>
    BY <2>1, <2>4
  <2> QED  BY <2>2, <2>3, <2>4 DEF ComposedNext
<1>2. RefInv /\ [ComposedNext]_<<vars, refVars>>
        => [\A o \in meta'.committed \ meta.committed :
              o.creator \in meta'.tokens]_vars
  BY <1>1, CommitsUnderValidToken
<1>3. RefInv /\ [ComposedNext]_<<vars, refVars>>
        => [mode # "up" /\ mode' = "up" =>
              /\ meta'.preparing = {}
              /\ \A i \in Ids : (\A o \in meta'.committed : o.id # i)
                                  => maybe'[i] = {{}}]_vars
  BY <1>1, StartsWithCommittedOnly
<1> QED  BY <1>2, <1>3, ComposedIsSafe, PTL
         DEF ComposedSpec, NoCommitAfterRevocation, StartsClean

=============================================================================
