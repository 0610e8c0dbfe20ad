------------------------- MODULE StorageOpenProofs -------------------------
(***************************************************************************)
(* Proofs about StorageOpen, for a storage root at any depth and any        *)
(* number of commits: the server only runs on complete storage, only fresh *)
(* storage is initialized, and commits survive power loss.  The inductive   *)
(* invariant IInv says how far an initializing start has come (Progress),   *)
(* what an opening one has seen (Checked) and what is durable (Durability). *)
(***************************************************************************)
EXTENDS StorageOpen, FiniteSetTheorems, TLAPS

(* First-order steps go to Zenon; steps with arithmetic name SMT.           *)
USE Zenon

(* The least-number principle, from the well-foundedness of finite sets:   *)
(* every non-empty set of naturals has a least element.                    *)
LEMMA LeastNatural ==
  ASSUME NEW D, D \subseteq Nat, D # {}
  PROVE  \E n \in D : \A m \in D : n <= m
<1> DEFINE T == {1..n : n \in D}
           R == StrictSubsetOrdering(Nat)
<1>1. IsWellFoundedOn(R, FiniteSubsetsOf(Nat))
  BY FS_StrictSubsetOrderingWellFounded
<1>2. \A n \in Nat : IsFiniteSet(1..n) /\ 1..n \subseteq Nat
  BY FS_Interval, SMT
<1>3. T \subseteq FiniteSubsetsOf(Nat) /\ T # {}
  BY <1>2 DEF FiniteSubsetsOf
<1> HIDE DEF R
<1>4. PICK s \in T : \A t \in T : ~(<<t, s>> \in R)
  <2> HIDE DEF T
  <2> QED  BY <1>1, <1>3, WFMin
<1>5. PICK n \in D : s = 1..n
  OBVIOUS
<1>6. ASSUME NEW m \in D, m < n  PROVE FALSE
  <2>1. /\ m \in Nat /\ n \in Nat /\ 1..m \subseteq 1..n /\ n \in 1..n
        /\ n \notin 1..m /\ 1..n \subseteq Nat
    BY <1>6, SMT
  <2>2. <<1..m, 1..n>> \in R
    BY <2>1 DEF R, StrictSubsetOrdering
  <2> QED  BY <1>4, <1>5, <2>2
<1> QED  BY <1>6, SMT

(* The steps of a start that initializes, by how far it has come.          *)
TreeSteps == {"tree", "treeSync"}

FamilySteps == {"create", "messagesFamily", "objectsFamily", "initialize"}

Labels ==
  TreeSteps \cup {"db", "dbSync", "objects", "objectsSync"} \cup FamilySteps
    \cup {"layout", "families", "validate", "up", "refused", "down"}

(* What an initializing start has made so far is all there is.             *)
Progress ==
  /\ at \in TreeSteps \cup {"db"} =>
       ~Exists(Db) /\ ~Exists(Objects)
  /\ at = "db" => Exists(Root)
  /\ at = "dbSync" => Exists(Db)
  /\ at \in {"dbSync", "objects"} => ~Exists(Objects) /\ Db \in mine
  /\ at \in {"objectsSync"} \cup FamilySteps =>
       Exists(Objects) /\ {Db, Objects} \subseteq mine
  /\ at \in {"objects", "objectsSync"} \cup FamilySteps =>
       entry[Db] = "durable"
  /\ at \in TreeSteps \cup {"db", "dbSync", "objects", "objectsSync", "create"}
       => families = {}
  /\ at = "messagesFamily" => families = {"default"}
  /\ at = "objectsFamily" => families = {"default", "messages"}
  /\ at = "initialize" => families = AllFamilies
  /\ at \in TreeSteps \cup {"db", "dbSync", "objects", "objectsSync"}
            \cup FamilySteps => rows = 0 /\ ~foreign

(* What the checks of a start have seen is still so.                       *)
Checked ==
  /\ at \in {"families", "validate", "up"} =>
       Exists(Db) /\ Exists(Objects) /\ ~foreign
  /\ at \in {"validate", "up"} => families = AllFamilies
  /\ at = "up" => rows > 0

(* Which directories a power loss may still take.                          *)
Durability ==
  /\ entry[0] = "durable"
  /\ rows > 0 => entry[Db] = "durable"
  /\ ~stranded =>
       \A d \in Path : entry[d] = "volatile" =>
         at = "treeSync" /\ \A e \in Path : Exists(e) => e <= d

IInv ==
  /\ TypeOK /\ at \in Labels /\ (foreign => Exists(Root))
  /\ Progress /\ Checked /\ Durability

(* How the directories of the storage lie: level 0, the path down to the   *)
(* root, and db and objects below the root.                                *)
LEMMA Directories ==
  /\ Depth \in Nat /\ Depth > 0 /\ Path \subseteq Dirs /\ Root \in Path
  /\ Db \in Dirs /\ Objects \in Dirs /\ Db \notin Path /\ Objects \notin Path
  /\ Db # Objects /\ 0 \in Dirs /\ 0 \notin Path /\ Db # 0 /\ Objects # 0
  /\ Dirs = {0, Db, Objects} \cup Path /\ Dirs \subseteq Nat
  /\ Parent(0) = 0 /\ Parent(Db) = Root /\ Parent(Objects) = Root
  /\ \A d \in Path : Parent(d) = d - 1 /\ d - 1 \in Path \cup {0}
  /\ \A d \in Dirs : Parent(d) \in Path \cup {0}
<1>1. /\ Depth \in Nat /\ Depth > 0 /\ Path \subseteq Dirs /\ Root \in Path
      /\ Db \in Dirs /\ Objects \in Dirs /\ Db \notin Path /\ Objects \notin Path
      /\ Db # Objects /\ 0 \in Dirs /\ 0 \notin Path /\ Db # 0 /\ Objects # 0
      /\ Dirs = {0, Db, Objects} \cup Path /\ Dirs \subseteq Nat
  BY PathAssumption, SMT DEF Path, Dirs, Db, Objects, Root
<1>2. \A d \in Path : d - 1 \in Path \cup {0}
  BY PathAssumption, SMT DEF Path
<1>3. /\ Parent(0) = 0 /\ Parent(Db) = Root /\ Parent(Objects) = Root
      /\ \A d \in Path : Parent(d) = d - 1
  BY <1>1 DEF Parent
<1> QED  BY <1>1, <1>2, <1>3, SMT

(* The existing directories of the path are its first ones: with a         *)
(* directory exist all above it.                                           *)
LEMMA PathPrefix ==
  ASSUME TypeOK, entry[0] = "durable", NEW d \in Path, NEW e \in Path, d <= e,
         Exists(e)
  PROVE  Exists(d)
<1> DEFINE S == {x \in Path : d <= x /\ Exists(x)}
<1>1. S \subseteq Nat /\ e \in S
  BY Directories
<1>2. PICK x \in S : \A y \in S : x <= y
  <2> HIDE DEF S
  <2> QED  BY <1>1, LeastNatural
<1>3. x = d
  <2> SUFFICES ASSUME x # d  PROVE FALSE
    OBVIOUS
  <2>1. x \in Nat /\ d \in Nat /\ d <= x - 1 /\ x - 1 \in Path
    BY PathAssumption, SMT DEF Path
  <2>2. Exists(x - 1)
    BY <2>1, Directories, SMT DEF TypeOK
  <2> QED  BY <1>2, <2>1, <2>2, SMT
<1> QED  BY <1>3

(* If the top of the path survives a power loss and each directory         *)
(* survives with its parent, the whole path does.                          *)
LEMMA DurablePath ==
  ASSUME NEW e \in [Dirs -> {"absent", "durable"}], e[0] = "durable",
         \A d \in Path : e[Parent(d)] = "durable" => e[d] = "durable"
  PROVE  \A d \in Path : e[d] = "durable"
<1> DEFINE S == {x \in Path : e[x] # "durable"}
<1> SUFFICES ASSUME S # {}  PROVE FALSE
  OBVIOUS
<1>1. S \subseteq Nat
  BY Directories
<1>2. PICK x \in S : \A y \in S : x <= y
  <2> HIDE DEF S
  <2> QED  BY <1>1, LeastNatural
<1>3. x - 1 \notin S
  BY <1>1, <1>2, SMT
<1>4. x - 1 \in Path \cup {0} /\ Parent(x) = x - 1
  BY Directories
<1> QED  BY <1>3, <1>4

(* Before the first start there is some of the path and no storage.        *)
LEMMA InitInv == Init => IInv
<1> SUFFICES ASSUME Init  PROVE IInv
  OBVIOUS
<1>1. PICK k \in 0..Depth :
        entry = [d \in Dirs |-> IF d <= k THEN "durable" ELSE "absent"]
  BY DEF Init
<1>2. k \in Nat /\ \A d \in Dirs : d \in Nat
  BY <1>1, Directories, SMT
<1>3. \A d \in Dirs : Parent(d) \in Nat /\ Parent(d) <= d /\ Parent(d) \in Dirs
  BY PathAssumption, SMT DEF Parent, Dirs, Path, Root
<1>4. TypeOK
  <2>1. entry \in [Dirs -> {"absent", "volatile", "durable"}]
    BY <1>1
  <2>2. \A d \in Dirs : Exists(d) <=> d <= k
    BY <1>1 DEF Exists
  <2>3. \A d \in Dirs : Exists(d) => Exists(Parent(d))
    BY <1>2, <1>3, <2>2, SMT
  <2>4. foreign \in BOOLEAN
    BY DEF Init
  <2>5. /\ families = {} /\ rows = 0 /\ mine = {} /\ stranded = FALSE
    BY DEF Init
  <2>6. rows \in 0..MaxRows /\ ~(rows > 0)
    BY <2>5, PathAssumption, SMT
  <2> QED  BY <2>1, <2>3, <2>4, <2>5, <2>6 DEF TypeOK
<1>5. at = "down" /\ rows = 0
  BY DEF Init
<1>6. foreign => Exists(Root)
  BY DEF Init, Exists
<1>7. entry[0] = "durable" /\ \A d \in Path : entry[d] # "volatile"
  BY <1>1, <1>2, Directories, SMT
<1>8. Durability
  BY <1>5, <1>7, SMT DEF Durability
<1>9. Progress /\ Checked
  BY <1>5 DEF Progress, Checked, TreeSteps, FamilySteps
<1> QED  BY <1>4, <1>5, <1>6, <1>8, <1>9 DEF IInv, Labels


(* Steps that leave the directories alone keep types and durability,       *)
(* provided that a start which ends before it has synchronised a directory *)
(* of the path is recorded as stranded.                                    *)
LEMMA SameDirectories ==
  ASSUME IInv, UNCHANGED <<entry, foreign>>,
         families' \subseteq AllFamilies, families' = {} \/ Exists(Db),
         rows' \in 0..MaxRows, rows' > 0 => families' = AllFamilies,
         rows' > 0 => entry[Db] = "durable",
         mine' \subseteq Dirs, stranded' \in BOOLEAN, ~stranded' => ~stranded,
         at = "treeSync" => at' = "treeSync" \/ stranded'
  PROVE  TypeOK' /\ (foreign => Exists(Root))' /\ Durability'
<1>1. \A d : Exists(d)' <=> Exists(d)
  BY DEF Exists
<1>2. TypeOK'
  BY <1>1 DEF IInv, TypeOK
<1>3. (foreign => Exists(Root))'
  BY <1>1 DEF IInv
<1>4. Durability'
  BY <1>1 DEF IInv, Durability
<1> QED  BY <1>2, <1>3, <1>4

(* IsNewStorageRoot lets a start initialize only where there is neither a  *)
(* database nor an object directory.                                       *)
LEMMA StartInv ==
  ASSUME IInv, Start, UNCHANGED stranded
  PROVE  IInv'
<1>1. TypeOK' /\ (foreign => Exists(Root))' /\ Durability'
  BY SameDirectories DEF IInv, TypeOK, Start, Durability
<1>2. at' = "tree" => ~Exists(Db) /\ ~Exists(Objects) /\ ~foreign
  <2>1. Exists(Db) \/ Exists(Objects) => Exists(Root)
    BY Directories DEF IInv, TypeOK
  <2> QED  BY <2>1 DEF Start, IsNewStorageRoot, IInv
<1>3. at' = "tree" => families = {} /\ rows = 0
  BY <1>2, SMT DEF IInv, TypeOK, AllFamilies
<1>4. at' \in {"tree", "layout"}
  BY DEF Start
<1>5. Progress'
  BY <1>2, <1>3, <1>4 DEF Progress, Start, TreeSteps, FamilySteps, Exists
<1>6. Checked'
  BY <1>4 DEF Checked
<1> QED  BY <1>1, <1>4, <1>5, <1>6 DEF IInv, Labels, TreeSteps

(* The database, its column families and the initial state are made one    *)
(* after the other, and a failing step leaves what it may have done.       *)
LEMMA DatabaseInv ==
  ASSUME IInv, UNCHANGED stranded,
         \/ CreateDatabase \/ CreateMessagesFamily \/ CreateObjectsFamily
         \/ CommitInitialState
  PROVE  IInv'
<1> DEFINE Made(F, n, next) ==
        /\ at \in FamilySteps /\ F \subseteq AllFamilies
        /\ at' \in {next, "down"} /\ mine' \in {mine, {}}
        /\ at' = next => families' = F /\ rows' = n /\ mine' = mine
        /\ families' \in {families, F} /\ rows' \in {0, n}
        /\ families' = families => rows' = 0 \/ families = AllFamilies
        /\ \/ at = "create" /\ next = "messagesFamily" /\ F = {"default"} /\ n = 0
           \/ at = "messagesFamily" /\ next = "objectsFamily"
                /\ F = {"default", "messages"} /\ n = 0
           \/ at = "objectsFamily" /\ next = "initialize" /\ F = AllFamilies
                /\ n = 0
           \/ at = "initialize" /\ next = "layout" /\ F = AllFamilies /\ n = 1
                /\ families = AllFamilies
        /\ UNCHANGED <<entry, foreign>>
<1>1. \E F, n, next : Made(F, n, next)
  <2>1. rows = 0 \/ at \notin FamilySteps
    BY DEF IInv, Progress
  <2>2. CASE CreateDatabase
    <3>1. at = "create" /\ rows = 0
      BY <2>1, <2>2 DEF CreateDatabase, DatabaseStep, FamilySteps
    <3>2. Made({"default"}, 0, "messagesFamily")
      BY <2>2, <3>1 DEF CreateDatabase, DatabaseStep, AllFamilies, FamilySteps
    <3> HIDE DEF Made
    <3> QED  BY <3>2
  <2>3. CASE CreateMessagesFamily
    <3>1. at = "messagesFamily" /\ rows = 0 /\ families = {"default"}
      BY <2>1, <2>3 DEF CreateMessagesFamily, DatabaseStep, FamilySteps, IInv,
                        Progress
    <3>2. families \cup {"messages"} = {"default", "messages"}
      BY <3>1
    <3>3. Made({"default", "messages"}, 0, "objectsFamily")
      BY <2>3, <3>1, <3>2 DEF CreateMessagesFamily, DatabaseStep, AllFamilies,
                              FamilySteps
    <3> HIDE DEF Made
    <3> QED  BY <3>3
  <2>4. CASE CreateObjectsFamily
    <3>1. at = "objectsFamily" /\ rows = 0 /\ families = {"default", "messages"}
      BY <2>1, <2>4 DEF CreateObjectsFamily, DatabaseStep, FamilySteps, IInv,
                        Progress
    <3>2. families \cup {"objects"} = AllFamilies
      BY <3>1 DEF AllFamilies
    <3>3. Made(AllFamilies, 0, "initialize")
      BY <2>4, <3>1, <3>2 DEF CreateObjectsFamily, DatabaseStep, FamilySteps
    <3> HIDE DEF Made
    <3> QED  BY <3>3
  <2>5. CASE CommitInitialState
    <3>1. at = "initialize" /\ rows = 0 /\ families = AllFamilies
      BY <2>1, <2>5 DEF CommitInitialState, DatabaseStep, FamilySteps, IInv,
                        Progress
    <3>2. Made(AllFamilies, 1, "layout")
      BY <2>5, <3>1 DEF CommitInitialState, DatabaseStep, FamilySteps
    <3> HIDE DEF Made
    <3> QED  BY <3>2
  <2> HIDE DEF Made
  <2> QED  BY <2>2, <2>3, <2>4, <2>5
<1>a. PICK F, n, next : Made(F, n, next)
  BY <1>1
<1>2. /\ entry[Db] = "durable" /\ Exists(Objects) /\ ~foreign
      /\ {Db, Objects} \subseteq mine /\ families \subseteq AllFamilies
      /\ mine \subseteq Dirs /\ Exists(Db)
  BY <1>a DEF IInv, Progress, TypeOK, Exists
<1>3. TypeOK' /\ (foreign => Exists(Root))' /\ Durability'
  <2>1. rows' \in 0..MaxRows /\ (rows' > 0 => families' = AllFamilies)
    BY <1>a, PathAssumption, SMT
  <2>2. families' \subseteq AllFamilies /\ mine' \subseteq Dirs
    BY <1>a, <1>2
  <2>3. at # "treeSync" /\ stranded \in BOOLEAN
    BY <1>a DEF FamilySteps, IInv, TypeOK
  <2> QED  BY <1>a, <1>2, <2>1, <2>2, <2>3, SameDirectories
<1>4. Progress'
  BY <1>a, <1>2 DEF Progress, TreeSteps, FamilySteps, Exists
<1>5. Checked'
  BY <1>a DEF Checked
<1> QED  BY <1>a, <1>3, <1>4, <1>5 DEF IInv, Labels, TreeSteps, FamilySteps

(* The checks of Open let a start proceed only on what they accept.        *)
LEMMA CheckInv ==
  ASSUME IInv, UNCHANGED stranded,
         ValidateStorageRootLayout \/ CheckColumnFamilies \/ Validate
  PROVE  IInv'
<1>1. /\ at \in {"layout", "families", "validate"}
      /\ at' \in {"families", "validate", "up", "refused"}
      /\ UNCHANGED <<entry, foreign, families, rows, mine>>
  BY DEF ValidateStorageRootLayout, CheckColumnFamilies, Validate, CheckStep
<1>2. TypeOK' /\ (foreign => Exists(Root))' /\ Durability'
  BY <1>1, SameDirectories DEF IInv, TypeOK, Durability
<1>3. Progress'
  BY <1>1 DEF Progress, TreeSteps, FamilySteps
<1>4. Checked'
  BY SMT DEF ValidateStorageRootLayout, CheckColumnFamilies, Validate, CheckStep,
         IInv, Checked, Exists
<1> QED  BY <1>1, <1>2, <1>3, <1>4 DEF IInv, Labels

(* A running server commits.                                               *)
LEMMA CommitInv ==
  ASSUME IInv, Commit
  PROVE  IInv'
<1>1. /\ at = "up" /\ at' = "up" /\ rows' \in 0..MaxRows /\ rows > 0 /\ rows' > 0
      /\ families = AllFamilies
      /\ UNCHANGED <<entry, foreign, families, mine, stranded>>
  BY PathAssumption, SMT DEF Commit, IInv, TypeOK, Checked
<1>2. TypeOK' /\ (foreign => Exists(Root))' /\ Durability'
  BY <1>1, SameDirectories DEF IInv, TypeOK, Durability, Checked
<1>3. Progress'
  BY <1>1 DEF Progress, TreeSteps, FamilySteps
<1>4. Checked'
  BY <1>1 DEF IInv, Checked, Exists
<1> QED  BY <1>1, <1>2, <1>3, <1>4 DEF IInv, Labels

(* A killed or failing start leaves everything as it is.                   *)
LEMMA EndInv ==
  ASSUME IInv, Kill \/ SystemCallFails
  PROVE  IInv'
<1>1. /\ at' = "down" /\ mine' = {} /\ stranded' = (stranded \/ at = "treeSync")
      /\ UNCHANGED <<entry, foreign, families, rows>>
  BY DEF Kill, SystemCallFails
<1>2. stranded' \in BOOLEAN /\ (~stranded' => ~stranded)
      /\ (at = "treeSync" => stranded')
  BY <1>1 DEF IInv, TypeOK
<1>3. TypeOK' /\ (foreign => Exists(Root))' /\ Durability'
  BY <1>1, <1>2, SameDirectories DEF IInv, TypeOK, Durability
<1>4. Progress' /\ Checked'
  BY <1>1 DEF Progress, Checked, TreeSteps, FamilySteps
<1> QED  BY <1>1, <1>3, <1>4 DEF IInv, Labels


(* What mkdir does, below an existing directory.                           *)
LEMMA MadeDirectory ==
  ASSUME IInv, NEW d \in Dirs, ~Exists(d), Exists(Parent(d)),
         entry' = [entry EXCEPT ![d] = "volatile"], mine' = mine \cup {d},
         UNCHANGED <<foreign, families, rows, stranded>>
  PROVE  /\ TypeOK' /\ (foreign => Exists(Root))'
         /\ entry'[d] = "volatile" /\ Exists(d)'
         /\ \A e \in Dirs \ {d} : entry'[e] = entry[e] /\ (Exists(e)' <=> Exists(e))
<1>1. /\ entry'[d] = "volatile" /\ Exists(d)'
      /\ \A e \in Dirs \ {d} : entry'[e] = entry[e] /\ (Exists(e)' <=> Exists(e))
  BY DEF IInv, TypeOK, Exists
<1>2. \A e \in Dirs : Exists(e) => Exists(e)'
  BY <1>1
<1>3. \A e \in Dirs : Exists(e)' => Exists(Parent(e))'
  BY <1>1, <1>2, Directories DEF IInv, TypeOK
<1>4. TypeOK'
  <2>1. entry' \in [Dirs -> {"absent", "volatile", "durable"}]
    BY DEF IInv, TypeOK
  <2>2. families # {} => Exists(Db)'
    BY <1>2, Directories DEF IInv, TypeOK
  <2>3. mine' \subseteq Dirs
    BY DEF IInv, TypeOK
  <2> QED  BY <1>3, <2>1, <2>2, <2>3 DEF IInv, TypeOK
<1>5. (foreign => Exists(Root))'
  BY <1>2, Directories DEF IInv
<1> QED  BY <1>1, <1>4, <1>5

(* CreateDirectoryTreeDurably makes the topmost missing directory, so the  *)
(* one that is not durable yet is the deepest of the path.                 *)
LEMMA CreateTreeInv ==
  ASSUME IInv, CreateTree, UNCHANGED stranded
  PROVE  IInv'
<1>0. /\ at = "tree" /\ ~Exists(Db) /\ ~Exists(Objects) /\ ~foreign
      /\ rows = 0 /\ families = {}
  BY DEF CreateTree, IInv, Progress, TreeSteps, FamilySteps
<1>1. CASE Missing = {}
  <2>1. at' = "db" /\ UNCHANGED <<entry, foreign, families, rows, mine>>
    BY <1>1 DEF CreateTree
  <2>2. Exists(Root)
    BY <1>1, Directories DEF Missing
  <2>3. TypeOK' /\ (foreign => Exists(Root))' /\ Durability'
    BY <1>0, <2>1, SameDirectories DEF IInv, TypeOK, Durability
  <2>4. Progress' /\ Checked'
    BY <1>0, <2>1, <2>2 DEF Progress, Checked, TreeSteps, FamilySteps, Exists
  <2> QED  BY <2>1, <2>3, <2>4 DEF IInv, Labels
<1>2. CASE Missing # {}
  <2>1. \E d \in Missing : \A e \in Missing : d <= e
    <3>1. Missing \subseteq Nat
      BY Directories DEF Missing
    <3> QED  BY <1>2, <3>1, LeastNatural
  <2>2. PICK d : d = Topmost(Missing)
    OBVIOUS
  <2>3. d \in Missing /\ \A e \in Missing : d <= e
    BY <2>1, <2>2 DEF Topmost
  <2>4. d \in Path /\ d \in Dirs /\ ~Exists(d)
    BY <2>3, Directories DEF Missing
  <2>5. /\ at' = "treeSync" /\ entry' = [entry EXCEPT ![d] = "volatile"]
        /\ mine' = mine \cup {d} /\ UNCHANGED <<foreign, families, rows>>
    BY <1>2, <2>2, <2>4 DEF CreateTree, CreateDirectory
  <2>6. Exists(Parent(d))
    <3>1. Parent(d) = d - 1 /\ d - 1 \in Path \cup {0} /\ d \in Nat
      BY <2>4, Directories
    <3>2. d - 1 \notin Missing
      BY <2>3, <3>1, SMT
    <3>3. Exists(0)
      BY DEF Exists, IInv, Durability
    <3> QED  BY <3>1, <3>2, <3>3 DEF Missing
  <2>7. /\ TypeOK' /\ (foreign => Exists(Root))'
        /\ entry'[d] = "volatile" /\ Exists(d)'
        /\ \A e \in Dirs \ {d} : entry'[e] = entry[e]
                                 /\ (Exists(e)' <=> Exists(e))
    BY <2>4, <2>5, <2>6, MadeDirectory
  <2>8. \A e \in Path : Exists(e)' => e <= d
    <3>1. SUFFICES ASSUME NEW e \in Path, Exists(e)', d < e  PROVE FALSE
      BY <2>4, Directories, SMT
    <3>2. e \in Dirs /\ d \in Nat /\ e \in Nat
      BY <2>4, Directories
    <3>3. Exists(e) /\ d <= e
      BY <2>7, <3>1, <3>2, SMT
    <3>4. Exists(d)
      BY <2>4, <3>3, PathPrefix DEF IInv, Durability
    <3> QED  BY <2>4, <3>4
  <2>9. Durability'
    <3>1. entry'[0] = "durable"
      BY <2>4, <2>7, Directories DEF IInv, Durability
    <3>2. ASSUME ~stranded, NEW e \in Path, entry'[e] = "volatile"
          PROVE  e = d
      BY <1>0, <2>7, <3>2, Directories DEF IInv, Durability
    <3> QED  BY <1>0, <2>5, <2>8, <3>1, <3>2, SMT DEF Durability
  <2>10. ~Exists(Db)' /\ ~Exists(Objects)'
    BY <1>0, <2>4, <2>7, Directories
  <2>11. Progress' /\ Checked'
    BY <1>0, <2>5, <2>10 DEF Progress, Checked, TreeSteps, FamilySteps
  <2> QED  BY <2>5, <2>7, <2>9, <2>11 DEF IInv, Labels, TreeSteps
<1> QED  BY <1>1, <1>2

(* CreateStorageDirectories makes db and objects below the existing root.  *)
LEMMA CreateStorageInv ==
  ASSUME IInv, CreateDb \/ CreateObjects, UNCHANGED stranded
  PROVE  IInv'
<1>1. PICK d \in {Db, Objects} :
        /\ d = Db => at = "db" /\ at' = "dbSync"
        /\ d = Objects => at = "objects" /\ at' = "objectsSync"
        /\ ~Exists(d) /\ entry' = [entry EXCEPT ![d] = "volatile"]
        /\ mine' = mine \cup {d} /\ UNCHANGED <<foreign, families, rows>>
  <2>1. CASE CreateDb
    BY <2>1, Directories
       DEF CreateDb, CreateDirectory, IInv, Progress
  <2>2. CASE CreateObjects
    BY <2>2, Directories
       DEF CreateObjects, CreateDirectory, IInv, Progress
  <2> QED  BY <2>1, <2>2
<1>2. d \in Dirs /\ Parent(d) = Root /\ d \notin Path /\ Root \in Dirs /\ d # 0
  BY Directories
<1>3. /\ rows = 0 /\ families = {} /\ ~foreign /\ Db # Objects
      /\ d = Db => ~Exists(Objects) /\ Exists(Root)
      /\ d = Objects => entry[Db] = "durable" /\ Db \in mine
  BY <1>1, Directories DEF IInv, Progress, TreeSteps, FamilySteps
<1>4. Exists(Root)
  <2>1. d = Objects => Exists(Db)
    BY <1>3 DEF Exists
  <2> QED  BY <1>3, <2>1, Directories DEF IInv, TypeOK
<1>5. /\ TypeOK' /\ (foreign => Exists(Root))'
      /\ entry'[d] = "volatile" /\ Exists(d)'
      /\ \A e \in Dirs \ {d} : entry'[e] = entry[e]
                               /\ (Exists(e)' <=> Exists(e))
  BY <1>1, <1>2, <1>4, MadeDirectory
<1>6. Durability'
  <2>1. entry'[0] = "durable" /\ \A e \in Path : entry'[e] = entry[e]
    BY <1>2, <1>5, Directories DEF IInv, Durability
  <2> QED  BY <1>1, <1>3, <2>1, SMT DEF IInv, Durability
<1>7. Progress'
  <2>1. d = Db => ~Exists(Objects)'
    BY <1>3, <1>5, Directories
  <2>2. d = Objects => entry'[Db] = "durable"
    BY <1>3, <1>5, Directories
  <2>3. mine' = mine \cup {d} /\ families' = {} /\ rows' = 0 /\ foreign' = FALSE
    BY <1>1, <1>3, SMT
  <2> QED  BY <1>1, <1>3, <1>5, <2>1, <2>2, <2>3 DEF Progress, TreeSteps,
              FamilySteps
<1>8. Checked'
  BY <1>1 DEF Checked
<1> QED  BY <1>1, <1>5, <1>6, <1>7, <1>8 DEF IInv, Labels

(* What the fsync of a directory does: its entries become durable, and     *)
(* nothing else changes.                                                   *)
LEMMA SyncedDirectory ==
  ASSUME IInv, NEW parent, NEW from, NEW next,
         SyncDirectory(parent, from, next), UNCHANGED stranded
  PROVE  /\ TypeOK' /\ (foreign => Exists(Root))'
         /\ \A d \in Dirs : /\ Exists(d)' <=> Exists(d)
                            /\ entry[d] = "durable" => entry'[d] = "durable"
                            /\ entry'[d] = "volatile" =>
                                 entry[d] = "volatile" /\ Parent(d) # parent
<1>1. \A d \in Dirs : /\ Exists(d)' <=> Exists(d)
                      /\ entry[d] = "durable" => entry'[d] = "durable"
                      /\ entry'[d] = "volatile" =>
                           entry[d] = "volatile" /\ Parent(d) # parent
  BY DEF SyncDirectory, Exists, IInv, TypeOK
<1>2. entry' \in [Dirs -> {"absent", "volatile", "durable"}]
  BY DEF SyncDirectory, IInv, TypeOK
<1>3. \A d \in Dirs : Exists(d)' => Exists(Parent(d))'
  BY <1>1, Directories DEF IInv, TypeOK
<1>4. UNCHANGED <<foreign, families, rows, mine>>
  BY DEF SyncDirectory
<1>5. TypeOK'
  BY <1>1, <1>2, <1>3, <1>4, Directories DEF IInv, TypeOK
<1> QED  BY <1>1, <1>4, <1>5, Directories DEF IInv

(* After the fsync of its parent the new directory of the path is durable. *)
LEMMA SyncTreeInv ==
  ASSUME IInv, SyncTree, UNCHANGED stranded
  PROVE  IInv'
<1>1. PICK d \in Path : /\ Exists(d) /\ \A e \in Path : Exists(e) => e <= d
                        /\ SyncDirectory(Parent(d), "treeSync", "tree")
  BY DEF SyncTree
<1>2. /\ at = "treeSync" /\ at' = "tree"
      /\ UNCHANGED <<foreign, families, rows, mine>>
  BY <1>1 DEF SyncDirectory
<1>3. /\ TypeOK' /\ (foreign => Exists(Root))'
      /\ \A e \in Dirs : /\ Exists(e)' <=> Exists(e)
                         /\ entry[e] = "durable" => entry'[e] = "durable"
                         /\ entry'[e] = "volatile" =>
                              entry[e] = "volatile" /\ Parent(e) # Parent(d)
  BY <1>1, SyncedDirectory
<1>4. Durability'
  <2>1. ASSUME ~stranded, NEW e \in Path, entry'[e] = "volatile"  PROVE FALSE
    <3>1. entry[e] = "volatile" /\ e # d /\ e \in Dirs /\ d \in Dirs
      BY <1>3, <2>1, Directories
    <3>2. d <= e
      BY <1>1, <2>1, <3>1 DEF IInv, Durability
    <3>3. e <= d
      BY <1>1, <3>1 DEF Exists
    <3> QED  BY <3>1, <3>2, <3>3, Directories, SMT
  <2>2. rows = 0 /\ entry'[0] = "durable"
    BY <1>2, <1>3, Directories DEF IInv, Durability, Progress, TreeSteps
  <2> QED  BY <1>2, <2>1, <2>2, SMT DEF Durability
<1>5. Progress' /\ Checked'
  BY <1>2, <1>3, Directories
     DEF IInv, Progress, Checked, TreeSteps, FamilySteps
<1> QED  BY <1>2, <1>3, <1>4, <1>5 DEF IInv, Labels, TreeSteps

(* After the fsync of the root, db and objects are durable.                *)
LEMMA SyncStorageInv ==
  ASSUME IInv, SyncDb \/ SyncObjects, UNCHANGED stranded
  PROVE  IInv'
<1>1. PICK from, next :
        /\ SyncDirectory(Root, from, next)
        /\ \/ from = "dbSync" /\ next = "objects"
           \/ from = "objectsSync" /\ next = "create"
  BY DEF SyncDb, SyncObjects
<1>2. /\ at = from /\ at' = next /\ UNCHANGED <<foreign, families, rows, mine>>
  BY <1>1 DEF SyncDirectory
<1>3. /\ TypeOK' /\ (foreign => Exists(Root))'
      /\ \A e \in Dirs : /\ Exists(e)' <=> Exists(e)
                         /\ entry[e] = "durable" => entry'[e] = "durable"
                         /\ entry'[e] = "volatile" =>
                              entry[e] = "volatile" /\ Parent(e) # Root
  BY <1>1, SyncedDirectory
<1>4. Db \in mine /\ rows = 0
  BY <1>1, <1>2 DEF IInv, Progress
<1>5. entry'[Db] = "durable"
  <2>1. Exists(Db)
    BY <1>1, <1>2 DEF IInv, Progress, Exists
  <2>2. entry'[Db] \in {"absent", "volatile", "durable"}
    BY <1>3, Directories DEF TypeOK
  <2> QED  BY <1>3, <2>1, <2>2, Directories DEF Exists
<1>6. Durability'
  BY <1>1, <1>2, <1>3, <1>4, Directories DEF IInv, Durability
<1>7. Progress'
  BY <1>1, <1>2, <1>3, <1>5, Directories DEF IInv, Progress, TreeSteps,
     FamilySteps
<1>8. Checked'
  BY <1>1, <1>2 DEF Checked
<1> QED  BY <1>1, <1>2, <1>3, <1>6, <1>7, <1>8 DEF IInv, Labels, FamilySteps


(* Power loss takes volatile directories with all that lies below them,    *)
(* and a database with commits only where an earlier start was stranded.   *)
LEMMA PowerLossInv ==
  ASSUME IInv, PowerLoss
  PROVE  IInv' /\ (rows > 0 /\ ~stranded => entry'[Db] # "absent")
<1>1. /\ at' = "down" /\ mine' = {} /\ stranded' = FALSE
      /\ foreign' = (foreign /\ entry'[Root] # "absent")
      /\ families' = IF entry'[Db] = "absent" THEN {} ELSE families
      /\ rows' = IF entry'[Db] = "absent" THEN 0 ELSE rows
  BY DEF PowerLoss
<1>2. PICK e \in [Dirs -> {"absent", "durable"}] :
        /\ e = entry' /\ e[0] = "durable"
        /\ \A d \in Dirs : /\ e[d] = "durable" => e[Parent(d)] = "durable"
                           /\ entry[d] = "durable" /\ e[Parent(d)] = "durable"
                                => e[d] = "durable"
  BY DEF PowerLoss
<1>3. \A d \in Dirs : e[d] # "absent" <=> e[d] = "durable"
  BY <1>2
<1>4. TypeOK'
  <2>1. entry' \in [Dirs -> {"absent", "volatile", "durable"}]
    BY <1>2
  <2>2. \A d \in Dirs : Exists(d)' => Exists(Parent(d))'
    BY <1>2, <1>3, Directories DEF Exists
  <2>3. /\ families' \subseteq AllFamilies /\ (families' # {} => Exists(Db)')
        /\ rows' \in 0..MaxRows /\ (rows' > 0 => families' = AllFamilies)
    BY <1>1, PathAssumption, SMT DEF IInv, TypeOK, Exists
  <2>4. foreign' \in BOOLEAN
    BY <1>1 DEF IInv, TypeOK
  <2>5. mine' \subseteq Dirs /\ stranded' \in BOOLEAN
    BY <1>1
  <2> QED  BY <2>1, <2>2, <2>3, <2>4, <2>5 DEF TypeOK
<1>5. (foreign => Exists(Root))'
  BY <1>1 DEF Exists
<1>6. Durability'
  <2>1. \A d \in Path : entry'[d] # "volatile"
    BY <1>2, Directories
  <2>2. rows' > 0 => entry'[Db] = "durable"
    BY <1>1, <1>2, <1>3, Directories, SMT
  <2> QED  BY <1>2, <2>1, <2>2 DEF Durability
<1>7. Progress' /\ Checked'
  BY <1>1 DEF Progress, Checked, TreeSteps, FamilySteps
<1>8. ASSUME rows > 0, ~stranded  PROVE entry'[Db] # "absent"
  <2>1. at # "treeSync" /\ entry[Db] = "durable"
    BY <1>8, SMT DEF IInv, Progress, Durability, TreeSteps
  <2>2. Exists(Root)
    BY <2>1, Directories DEF IInv, TypeOK, Exists
  <2>3. \A d \in Path : d <= Root
    BY PathAssumption, SMT DEF Path, Root
  <2>4. \A d \in Path : Exists(d)
    BY <2>2, <2>3, Directories, PathPrefix DEF IInv, Durability
  <2>5. \A d \in Path : entry[d] = "durable"
    BY <1>8, <2>1, <2>4, Directories DEF IInv, TypeOK, Durability, Exists
  <2>6. \A d \in Path : e[Parent(d)] = "durable" => e[d] = "durable"
    BY <1>2, <2>5, Directories
  <2>7. e[Root] = "durable"
    BY <1>2, <2>6, DurablePath, Directories
  <2> QED  BY <1>2, <2>1, <2>7, Directories
<1> QED  BY <1>1, <1>4, <1>5, <1>6, <1>7, <1>8 DEF IInv, Labels

(* Every step preserves the invariant.                                     *)
LEMMA NextInv ==
  ASSUME IInv, [Next]_vars
  PROVE  IInv'
<1>1. CASE Step
  <2>1. UNCHANGED stranded
    BY <1>1 DEF Step
  <2> QED
    BY <1>1, <2>1, StartInv, CreateTreeInv, SyncTreeInv, CreateStorageInv,
       SyncStorageInv, DatabaseInv, CheckInv DEF Step
<1>2. CASE Commit
  BY <1>2, CommitInv
<1>3. CASE Kill \/ SystemCallFails
  BY <1>3, EndInv
<1>4. CASE PowerLoss
  BY <1>4, PowerLossInv
<1>5. CASE UNCHANGED vars
  BY <1>5, SMT DEF vars, IInv, TypeOK, Progress, Checked, Durability, Exists, Missing
<1> QED  BY <1>1, <1>2, <1>3, <1>4, <1>5 DEF Next

(* The invariant holds whatever interrupts the starts.                     *)
THEOREM OpeningIsSafe == Spec => []IInv
BY InitInv, NextInv, PTL DEF Spec

(* The server runs only on storage with the exact layout, all column       *)
(* families and the initial state, whatever interrupted earlier starts.    *)
THEOREM OnlyCompleteStorageServes == Spec => []ServesOnlyComplete
<1>1. IInv => ServesOnlyComplete
  BY DEF IInv, Checked, ServesOnlyComplete
<1> QED  BY <1>1, OpeningIsSafe, PTL

(* The initial state is written only into directories the same start has   *)
(* made, so no interrupted initialization is completed later and nothing   *)
(* committed is overwritten.                                               *)
THEOREM InitializationIsFresh == Spec => InitializesFreshStorage
<1>1. IInv => (at = "initialize" => rows = 0 /\ {Db, Objects} \subseteq mine)
  BY DEF IInv, Progress, FamilySteps
<1>2. IInv /\ [Next]_vars =>
        [at = "initialize" /\ at' = "layout" =>
           rows = 0 /\ {Db, Objects} \subseteq mine]_vars
  BY <1>1
<1> QED  BY <1>2, OpeningIsSafe, PTL DEF Spec, InitializesFreshStorage

(* No kill, failing call or power loss takes a commit away, unless an      *)
(* earlier start left a directory of the path without its fsync.           *)
THEOREM NoCommitIsLost == Spec => CommitsSurvive
<1>1. ASSUME IInv, Next, ~stranded  PROVE rows' >= rows
  <2>0. rows \in Nat
    BY <1>1, PathAssumption, SMT DEF IInv, TypeOK
  <2>1. CASE Step
    <3>1. CASE CommitInitialState
      BY <2>0, <3>1, <1>1, SMT DEF CommitInitialState, DatabaseStep, IInv, Progress,
         FamilySteps
    <3>2. CASE CreateDatabase \/ CreateMessagesFamily \/ CreateObjectsFamily
      BY <2>0, <3>2, SMT DEF CreateDatabase, CreateMessagesFamily,
         CreateObjectsFamily, DatabaseStep
    <3>3. CASE Start \/ CreateTree \/ SyncTree
      BY <2>0, <3>3, SMT DEF Start, CreateTree, SyncTree, CreateDirectory,
         SyncDirectory
    <3>4. CASE CreateDb \/ SyncDb \/ CreateObjects \/ SyncObjects
      BY <2>0, <3>4, SMT DEF CreateDb, SyncDb, CreateObjects, SyncObjects,
         CreateDirectory, SyncDirectory
    <3>5. CASE ValidateStorageRootLayout \/ CheckColumnFamilies \/ Validate
      BY <2>0, <3>5, SMT DEF ValidateStorageRootLayout, CheckColumnFamilies, Validate,
         CheckStep
    <3> QED  BY <2>1, <3>1, <3>2, <3>3, <3>4, <3>5 DEF Step
  <2>2. CASE Commit \/ Kill \/ SystemCallFails
    BY <2>0, <2>2, SMT DEF Commit, Kill, SystemCallFails
  <2>3. CASE PowerLoss
    <3>1. rows > 0 => entry'[Db] # "absent"
      BY <1>1, <2>3, PowerLossInv
    <3> QED  BY <2>0, <2>3, <3>1, SMT DEF PowerLoss
  <2> QED  BY <1>1, <2>1, <2>2, <2>3 DEF Next
<1>2. IInv /\ [Next]_vars => [~stranded => rows' >= rows]_vars
  BY <1>1
<1> QED  BY <1>2, OpeningIsSafe, PTL DEF Spec, CommitsSurvive

=============================================================================
