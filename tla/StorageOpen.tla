---------------------------- MODULE StorageOpen ----------------------------
(***************************************************************************)
(* UnifiedStorage::Open of src/storage/unified_storage.cpp: a start of the *)
(* server finds or creates its storage.  The storage root lies below       *)
(* directories that may be missing too; a new root gets the directories    *)
(* db and objects, a RocksDB database with three column families, and, as  *)
(* its last step, one synchronous batch with the initial state.            *)
(*                                                                         *)
(* Starts are interrupted by kills, failing system calls and power loss,   *)
(* and a supervisor starts the server again.                               *)
(***************************************************************************)
EXTENDS Integers, FiniteSets

CONSTANTS
  Depth,    \* the storage root is level Depth of a path whose level 0 exists
  MaxRows   \* bound: commits, the initial state included

ASSUME PathAssumption == Depth \in Nat \ {0} /\ MaxRows \in Nat \ {0}

VARIABLES
  entry,    \* the directories: "absent", "volatile" (a power loss may take it
            \* away) or "durable"
  foreign,  \* the root holds an entry the server did not make
  families, \* the column families of the database; {} when there is none
  rows,     \* commits the database holds; 0 without the initial state
  at,       \* the step of the start; "up"; "refused"; "down"
  mine,     \* history: the directories the present start has created
  stranded  \* history: a start has died between the creation of a directory
            \* of the path and the fsync of its parent, and power was not
            \* lost since

vars == <<entry, foreign, families, rows, at, mine, stranded>>

Root == Depth

Path == 1..Depth

Db == Depth + 1

Objects == Depth + 2

(* The directory above the path, 0, exists before the first start.         *)
Dirs == 0..(Depth + 2)

Parent(d) == CASE d = 0 -> 0 [] d \in Path -> d - 1 [] OTHER -> Root

AllFamilies == {"default", "messages", "objects"}

Exists(d) == entry[d] # "absent"

(* Some of the path exists; an existing root is empty or holds something   *)
(* else, as the lost+found of a mount point.                               *)
Init ==
  /\ \E k \in 0..Depth :
       entry = [d \in Dirs |-> IF d <= k THEN "durable" ELSE "absent"]
  /\ foreign \in {FALSE, entry[Root] # "absent"}
  /\ families = {}
  /\ rows = 0
  /\ at = "down"
  /\ mine = {}
  /\ stranded = FALSE

(* Faulty variant: a root without a complete layout counts as new.         *)
ResumesIncompleteRoot ==
  ~Exists(Root) \/ (~Exists(Objects) /\ ~foreign)

IsNewStorageRoot ==
  ~Exists(Root) \/ (~Exists(Db) /\ ~Exists(Objects) /\ ~foreign)

Start ==
  /\ at \in {"down", "refused"}
  /\ at' = IF IsNewStorageRoot THEN "tree" ELSE "layout"
  /\ mine' = {}
  /\ UNCHANGED <<entry, foreign, families, rows>>

(***************************************************************************)
(* CreateDirectoryAndSyncParent: the parent is synchronised only when this *)
(* call has created the directory.                                         *)
(***************************************************************************)
CreateDirectory(d, sync, next) ==
  /\ IF Exists(d)
     THEN at' = next /\ UNCHANGED <<entry, mine>>
     ELSE /\ entry' = [entry EXCEPT ![d] = "volatile"]
          /\ mine' = mine \cup {d}
          /\ at' = sync
  /\ UNCHANGED <<foreign, families, rows>>

(* Faulty variant: the new entry is not made durable.                      *)
SkipsSync(parent, from, next) ==
  /\ at = from
  /\ at' = next
  /\ UNCHANGED <<entry, foreign, families, rows, mine>>

SyncDirectory(parent, from, next) ==
  /\ at = from
  /\ at' = next
  /\ entry' = [d \in Dirs |-> IF Exists(d) /\ Parent(d) = parent
                              THEN "durable" ELSE entry[d]]
  /\ UNCHANGED <<foreign, families, rows, mine>>

(* CreateDirectoryTreeDurably: the missing directories from the top.       *)
Missing == {d \in Path : ~Exists(d)}

Topmost(D) == CHOOSE d \in D : \A e \in D : d <= e

CreateTree ==
  /\ at = "tree"
  /\ IF Missing = {}
     THEN /\ at' = "db"
          /\ UNCHANGED <<entry, foreign, families, rows, mine>>
     ELSE CreateDirectory(Topmost(Missing), "treeSync", "tree")

SyncTree ==
  \E d \in Path : /\ Exists(d) /\ \A e \in Path : Exists(e) => e <= d
                  /\ SyncDirectory(Parent(d), "treeSync", "tree")

(* CreateStorageDirectories: db, then objects.                             *)
CreateDb == at = "db" /\ CreateDirectory(Db, "dbSync", "objects")

(* Faulty variant: objects is left to the first object that is written.    *)
LeavesObjectsForLater == SyncDirectory(Root, "dbSync", "create")

SyncDb == SyncDirectory(Root, "dbSync", "objects")

CreateObjects ==
  at = "objects" /\ CreateDirectory(Objects, "objectsSync", "create")

SyncObjects == SyncDirectory(Root, "objectsSync", "create")

(***************************************************************************)
(* InitializeNew after its directories.  RocksDB opens a database with     *)
(* default options only if it has no other column family.  A step that     *)
(* fails may have taken effect, and the start gives up.                    *)
(***************************************************************************)
DatabaseStep(from, next, F, n) ==
  /\ at = from
  /\ \/ /\ at' = next
        /\ families' = F /\ rows' = n
        /\ UNCHANGED mine
     \/ /\ at' = "down"
        /\ \/ UNCHANGED <<families, rows>>
           \/ families' = F /\ rows' = n
        /\ mine' = {}
  /\ UNCHANGED <<entry, foreign>>

CreateDatabase ==
  /\ families \subseteq {"default"}
  /\ DatabaseStep("create", "messagesFamily", {"default"}, rows)

CreateMessagesFamily ==
  DatabaseStep("messagesFamily", "objectsFamily", families \cup {"messages"},
               rows)

CreateObjectsFamily ==
  DatabaseStep("objectsFamily", "initialize", families \cup {"objects"}, rows)

CommitInitialState == DatabaseStep("initialize", "layout", families, 1)

(***************************************************************************)
(* The checks every start makes, on new storage as well: the layout of the *)
(* root, the column families, and Validate.  What they do not accept is    *)
(* refused and left as it is.                                              *)
(***************************************************************************)
CheckStep(from, accepted, next) ==
  /\ at = from
  /\ at' = IF accepted THEN next ELSE "refused"
  /\ UNCHANGED <<entry, foreign, families, rows, mine>>

ValidateStorageRootLayout ==
  CheckStep("layout", Exists(Db) /\ Exists(Objects) /\ ~foreign, "families")

CheckColumnFamilies ==
  CheckStep("families", families = AllFamilies, "validate")

(* Faulty variant: opening does not validate.                              *)
SkipsValidate == CheckStep("validate", TRUE, "up")

Validate == CheckStep("validate", rows > 0, "up")

(* A running server commits.                                               *)
Commit ==
  /\ at = "up" /\ rows < MaxRows
  /\ rows' = rows + 1
  /\ UNCHANGED <<entry, foreign, families, at, mine, stranded>>

(***************************************************************************)
(* Interruptions.  A system call fails: mkdir without effect, fsync and    *)
(* the reads with no other effect than the end of the start.  A power loss *)
(* takes away any of the volatile entries, and what lies below them;       *)
(* RocksDB has made its own files durable inside db.                       *)
(***************************************************************************)
Kill ==
  /\ at \notin {"down", "refused"}
  /\ at' = "down" /\ mine' = {}
  /\ stranded' = (stranded \/ at = "treeSync")
  /\ UNCHANGED <<entry, foreign, families, rows>>

SystemCallFails ==
  /\ at \notin {"down", "refused", "up"}
  /\ at' = "down" /\ mine' = {}
  /\ stranded' = (stranded \/ at = "treeSync")
  /\ UNCHANGED <<entry, foreign, families, rows>>

PowerLoss ==
  /\ at' = "down" /\ mine' = {} /\ stranded' = FALSE
  /\ entry' \in {e \in [Dirs -> {"absent", "durable"}] :
                   /\ e[0] = "durable"
                   /\ \A d \in Dirs :
                        /\ e[d] = "durable" => Exists(d)
                        /\ e[d] = "durable" => e[Parent(d)] = "durable"
                        /\ entry[d] = "durable" /\ e[Parent(d)] = "durable"
                             => e[d] = "durable"}
  /\ foreign' = (foreign /\ entry'[Root] # "absent")
  /\ families' = IF entry'[Db] = "absent" THEN {} ELSE families
  /\ rows' = IF entry'[Db] = "absent" THEN 0 ELSE rows

Step ==
  /\ \/ Start
     \/ CreateTree \/ SyncTree
     \/ CreateDb \/ SyncDb \/ CreateObjects \/ SyncObjects
     \/ CreateDatabase \/ CreateMessagesFamily \/ CreateObjectsFamily
     \/ CommitInitialState
     \/ ValidateStorageRootLayout \/ CheckColumnFamilies \/ Validate
  /\ UNCHANGED stranded

Next == Step \/ Commit \/ Kill \/ SystemCallFails \/ PowerLoss

Spec == Init /\ [][Next]_vars

(* A start goes on, and the supervisor starts the server again.            *)
FairSpec == Spec /\ WF_vars(Step)

-----------------------------------------------------------------------------
(***************************************************************************)
(* Properties.                                                             *)
(***************************************************************************)
(* Types of the variables.  The directories form a path, there is no       *)
(* database outside db, and no initial state without all column families.  *)
TypeOK ==
  /\ entry \in [Dirs -> {"absent", "volatile", "durable"}]
  /\ \A d \in Dirs : Exists(d) => Exists(Parent(d))
  /\ foreign \in BOOLEAN
  /\ families \subseteq AllFamilies
  /\ families # {} => Exists(Db)
  /\ rows \in 0..MaxRows /\ (rows > 0 => families = AllFamilies)
  /\ mine \subseteq Dirs /\ stranded \in BOOLEAN

(* Whatever interrupted earlier starts, the server only runs on complete   *)
(* storage: the exact layout, the three column families and the initial    *)
(* state (the checks of Open after InitializeNew).  The types come with it.*)
ServesOnlyComplete ==
  /\ TypeOK
  /\ at = "up" => /\ Exists(Db) /\ Exists(Objects) /\ ~foreign
                  /\ families = AllFamilies /\ rows > 0

(* Initial state is written only into storage that the same start has made *)
(* from an empty root: what an interrupted initialization left behind is   *)
(* never completed by a later start, and nothing committed is overwritten. *)
InitializesFreshStorage ==
  [][at = "initialize" /\ at' = "layout" =>
       rows = 0 /\ {Db, Objects} \subseteq mine]_vars

(* A commit is not lost at any interruption, neither the initial state nor *)
(* anything a running server has committed later, with one exception: a    *)
(* directory of the path that an earlier start made and did not live to    *)
(* make durable.  CreateDirectoryAndSyncParent synchronises the parent     *)
(* only after its own mkdir, so no later start repairs it, and power loss  *)
(* may take the storage below it.                                          *)
CommitsSurvive == [][~stranded => rows' >= rows]_vars

(* Storage that holds its initial state is never given up: if from some    *)
(* point on nothing interrupts the starts, the server runs, unless what it *)
(* finds has no initial state.                                             *)
InitializedStorageServes ==
  <>[][at' = "down" => at = "down"]_vars => <>[](at = "up" \/ rows = 0)

=============================================================================
