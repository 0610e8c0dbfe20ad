----------------------------- MODULE MCEventLog -----------------------------
(***************************************************************************)
(* EventLog for TLC.  Workers are interchangeable.                         *)
(***************************************************************************)
EXTENDS EventLogRefinement, TLC

CONSTANTS
  StockedUuids  \* uuids already handed out when a stocked instance starts

WorkerSymmetry == Permutations(Workers)

(***************************************************************************)
(* A later starting point, to reach longer histories of the operations     *)
(* that matter: AddToken has been called for every credential and          *)
(* AllocateUuids for the stocked uuids, and all these calls returned OK.   *)
(***************************************************************************)
StockedInit ==
  /\ db = [InitialDb EXCEPT
             !.tokens = Credentials,
             !.meta = Put(InitialDb.meta, Pair("next_uuid", StockedUuids + 1))]
  /\ issued = 1..StockedUuids
  /\ seen = Credentials
  /\ inDoubt = {} /\ up = TRUE /\ fatal = FALSE /\ lock = {}
  /\ pc = [w \in Workers |-> "idle"]
  /\ batch = [w \in Workers |-> EmptyBatch]
  /\ call = [w \in Workers |-> NoCall]
  /\ acked = {} /\ revoked = {}

StockedSpec == StockedInit /\ [][Next]_vars

=============================================================================
