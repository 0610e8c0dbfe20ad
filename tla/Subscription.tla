---------------------------- MODULE Subscription ----------------------------
(***************************************************************************)
(* Subscribe streams and the snapshot they share: RunSubscription of       *)
(* src/service/grpc_services.cpp, and AcquireSubscriptionSnapshot,         *)
(* RefreshSubscriptionSnapshots, WaitForSubscriptionSnapshot, CommitBatch  *)
(* and FatalStorageError of src/service/open_event_core.cpp.               *)
(*                                                                         *)
(* Commits happen under coordinator_mu_ and are counted by                 *)
(* commit_generation_.  One refresher thread publishes snapshots under     *)
(* subscription_snapshot_mu_; subscribers wait on its condition variable.  *)
(* A step under that mutex is atomic here; a waiter whose predicate is     *)
(* false is asleep until a notify_all.                                     *)
(***************************************************************************)
EXTENDS Integers, FiniteSets, Sequences

CONSTANTS
  Subscribers,  \* clients that subscribe, each with a token of its own
  Visible,      \* the seqs that pass every subscriber's filters
  kPageLimit,   \* 100 in RunSubscription
  MaxScan,      \* max_scan_records_, 10000 in main
  MaxCommits    \* bound: commits

ASSUME SubscriptionAssumption ==
  /\ Visible \subseteq Nat /\ kPageLimit \in Nat \ {0} /\ MaxScan \in Nat \ {0}
  /\ MaxCommits \in Nat /\ "message" \notin Subscribers

VARIABLES
  db,         \* the commits: "message", or c when the token of c is deleted
  committing, \* CommitBatch has written and has not counted its commit yet
  generation, \* commit_generation_
  acked,      \* history: commits whose CommitBatch returned OK
  shared,     \* subscription_snapshot_ (commits it holds), its generation,
              \* version, the attempt's generation and whether it failed
  refresher,  \* the refresher: its step, its generation and its new snapshot
  fatal,      \* fatal_error_triggered_
  raised,     \* progress of FatalStorageError after it has set fatal
  stopping,   \* subscriptions_stopping_
  cancelled,  \* the subscribers whose ServerContext is cancelled
  asleep,     \* the subscribers blocked in subscription_snapshot_cv_
  pc,         \* the step each subscriber is at
  cursor,     \* next_seq of each subscriber
  need,       \* required_generation of each subscriber
  observed,   \* snapshot_version of each subscriber
  used,       \* the snapshot its last call of Acquire returned
  floor,      \* history: acked when that call began
  from,       \* from_seq of each subscriber
  unsent,     \* the messages of its batch it has still to write
  delivered   \* history: the seqs written to each subscriber

core == <<db, committing, generation, acked>>
failure == <<fatal, raised>>
server == <<stopping, cancelled>>
streams == <<pc, cursor, need, observed, used, floor, from, unsent, delivered>>
vars == <<db, committing, generation, acked, shared, refresher, fatal, raised,
          stopping, cancelled, asleep, pc, cursor, need, observed, used,
          floor, from, unsent, delivered>>

(* What a snapshot of the first n commits holds.                           *)
GetMaxSeq(n) == Cardinality({i \in 1..n : db[i] = "message"})

(* Authenticate and ValidateReadableChannels.                              *)
Authorized(c, n) == \A i \in 1..n : db[i] # c

(* The visible seqs from first on and before next, in order.               *)
Page(first, next) ==
  LET S == Visible \cap first..(next - 1)
      I == 1..Cardinality(S)
  IN  CHOOSE s \in [I -> S] : \A i, j \in I : i < j => s[i] < s[j]

(* Faulty variant: a page that ends before a message skips it.             *)
SkipsAtSoftLimit(first, max) ==
  LET last  == IF max < first + MaxScan THEN max ELSE first + MaxScan - 1
      found == Visible \cap first..last
      Count(v) == Cardinality({u \in found : u <= v})
      full  == {v \in found : Count(v) = kPageLimit}
  IN  IF first > max
      THEN {[messages |-> <<>>, next |-> max + 1]}
      ELSE {[messages |-> Page(first, v), next |-> v + 1] :
              v \in {u \in found : 1 < Count(u) /\ Count(u) <= kPageLimit}}
           \cup
           {[messages |-> Page(first, v + 1), next |-> v + 1] : v \in full}
           \cup
           {[messages |-> Page(first, last + 1), next |-> last + 1] :
              v \in IF full = {} THEN {last} ELSE {}}

(***************************************************************************)
(* FetchVisible and ScanMessages: the answers to a request for the         *)
(* messages from first on, in a snapshot that ends at max.  A page ends    *)
(* before a message that would exceed the soft size limit (sizes are       *)
(* abstracted: any message but the first may), after the message that      *)
(* fills it, at the scan limit, or at the end of the log.                  *)
(***************************************************************************)
FetchVisible(first, max) ==
  LET last  == IF max < first + MaxScan THEN max ELSE first + MaxScan - 1
      found == Visible \cap first..last
      Count(v) == Cardinality({u \in found : u <= v})
      full  == {v \in found : Count(v) = kPageLimit}
  IN  IF first > max
      THEN {[messages |-> <<>>, next |-> max + 1]}
      ELSE {[messages |-> Page(first, v), next |-> v] :
              v \in {u \in found : 1 < Count(u) /\ Count(u) <= kPageLimit}}
           \cup
           {[messages |-> Page(first, v + 1), next |-> v + 1] : v \in full}
           \cup
           {[messages |-> Page(first, last + 1), next |-> last + 1] :
              v \in IF full = {} THEN {last} ELSE {}}

Init ==
  /\ db = <<>> /\ committing = FALSE /\ generation = 0 /\ acked = 0
  /\ shared = [commits |-> 0, generation |-> 0, version |-> 1,
               attempt |-> 0, ok |-> TRUE]
  /\ refresher = [at |-> "wait", generation |-> 0, commits |-> 0, ok |-> TRUE]
  /\ fatal = FALSE /\ raised = "no"
  /\ stopping = FALSE /\ cancelled = {} /\ asleep = {}
  /\ pc = [c \in Subscribers |-> "idle"]
  /\ cursor = [c \in Subscribers |-> 0]
  /\ need = [c \in Subscribers |-> 0]
  /\ observed = [c \in Subscribers |-> 0]
  /\ used = [c \in Subscribers |-> 0]
  /\ floor = [c \in Subscribers |-> 0]
  /\ from = [c \in Subscribers |-> 0]
  /\ unsent = [c \in Subscribers |-> <<>>]
  /\ delivered = [c \in Subscribers |-> <<>>]

(***************************************************************************)
(* CommitBatch: the write, then the count, then the answer.  A write that  *)
(* fails may have taken effect; it is not counted.  A call that passed     *)
(* EnsureAvailable may still commit after the fatal error.                 *)
(***************************************************************************)
SetFatal ==
  /\ fatal' = TRUE
  /\ raised' = IF fatal THEN raised ELSE "notify"

Write ==
  /\ ~committing /\ Len(db) < MaxCommits
  /\ \E kind \in {"message"} \cup Subscribers :
       \/ /\ db' = Append(db, kind)
          /\ committing' = TRUE
          /\ UNCHANGED failure
       \/ /\ db' \in {db, Append(db, kind)}
          /\ SetFatal
          /\ UNCHANGED committing
  /\ UNCHANGED <<generation, acked, shared, refresher, server, asleep, streams>>

CountCommit ==
  /\ committing
  /\ committing' = FALSE
  /\ generation' = generation + 1
  /\ acked' = Len(db)
  /\ UNCHANGED <<db, shared, refresher, failure, server, asleep, streams>>

(* Faulty variant: notify_all is missing.                                  *)
FatalWithoutNotify ==
  /\ raised = "notify"
  /\ raised' = "handler"
  /\ UNCHANGED <<core, shared, refresher, fatal, server, asleep, streams>>

(* FatalStorageError after its critical section: notify_all, then the      *)
(* handler, which makes main stop the servers.                             *)
FatalNotify ==
  /\ raised = "notify"
  /\ raised' = "handler"
  /\ asleep' = {}
  /\ UNCHANGED <<core, shared, refresher, fatal, server, streams>>

(* StopSubscriptions, after the handler or after a signal.                 *)
StopSubscriptions ==
  /\ ~stopping
  /\ stopping' = TRUE
  /\ cancelled' = cancelled \cup {c \in Subscribers : pc[c] # "idle"}
  /\ UNCHANGED <<core, shared, refresher, failure, asleep, streams>>

(***************************************************************************)
(* RefreshSubscriptionSnapshots.                                           *)
(***************************************************************************)
RefreshTick ==
  /\ refresher.at = "wait"
  /\ IF fatal
     THEN refresher' = [refresher EXCEPT !.at = "stopped"]
     ELSE /\ generation # shared.generation
          /\ refresher' = [refresher EXCEPT !.at = "create",
                                            !.generation = generation]
  /\ UNCHANGED <<core, shared, failure, server, asleep, streams>>

(* CreateSnapshot, without the mutex.                                      *)
RefreshCreate ==
  /\ refresher.at = "create"
  /\ \E ok \in BOOLEAN :
       refresher' = [refresher EXCEPT !.at = "install", !.commits = Len(db),
                                      !.ok = ok]
  /\ UNCHANGED <<core, shared, failure, server, asleep, streams>>

(* Faulty variant: the generation is read after the snapshot was created.  *)
InstallsLaterGeneration ==
  /\ refresher.at = "install" /\ ~fatal /\ refresher.ok
  /\ asleep' = {}
  /\ shared' = [commits |-> refresher.commits, generation |-> generation,
                version |-> shared.version + 1, attempt |-> generation,
                ok |-> TRUE]
  /\ refresher' = [refresher EXCEPT !.at = "wait"]
  /\ UNCHANGED <<core, failure, server, streams>>

(* Faulty variant: notify_all is missing.                                  *)
InstallsSilently ==
  /\ refresher.at = "install" /\ ~fatal /\ refresher.ok
  /\ shared' = [commits |-> refresher.commits,
                generation |-> refresher.generation,
                version |-> shared.version + 1,
                attempt |-> refresher.generation, ok |-> TRUE]
  /\ refresher' = [refresher EXCEPT !.at = "wait"]
  /\ UNCHANGED <<core, failure, server, asleep, streams>>

RefreshInstall ==
  /\ refresher.at = "install"
  /\ IF fatal
     THEN /\ refresher' = [refresher EXCEPT !.at = "stopped"]
          /\ UNCHANGED <<shared, asleep>>
     ELSE /\ asleep' = {}
          /\ IF refresher.ok
             THEN /\ shared' = [commits |-> refresher.commits,
                                generation |-> refresher.generation,
                                version |-> shared.version + 1,
                                attempt |-> refresher.generation, ok |-> TRUE]
                  /\ refresher' = [refresher EXCEPT !.at = "wait"]
             ELSE /\ shared' = [shared EXCEPT !.attempt = refresher.generation,
                                              !.ok = FALSE]
                  /\ refresher' = [refresher EXCEPT !.at = "raise"]
  /\ UNCHANGED <<core, failure, server, streams>>

RefreshFails ==
  /\ refresher.at = "raise"
  /\ refresher' = [refresher EXCEPT !.at = "stopped"]
  /\ SetFatal
  /\ UNCHANGED <<core, shared, server, asleep, streams>>

Refresh == RefreshTick \/ RefreshCreate \/ RefreshInstall \/ RefreshFails

(***************************************************************************)
(* A stream.  Its handler ends with any status at End; its locals go away. *)
(***************************************************************************)
Clear(f, c) == [f EXCEPT ![c] = 0]

End(c) ==
  /\ pc' = [pc EXCEPT ![c] = "idle"]
  /\ need' = Clear(need, c) /\ observed' = Clear(observed, c)
  /\ used' = Clear(used, c) /\ floor' = Clear(floor, c)
  /\ unsent' = [unsent EXCEPT ![c] = <<>>]

Goto(c, label) ==
  /\ pc' = [pc EXCEPT ![c] = label]
  /\ UNCHANGED <<need, observed, used, floor, unsent>>

Subscribe(c) ==
  /\ pc[c] = "idle" /\ ~stopping
  /\ \E s \in 0..(MaxCommits + 1) :
       /\ from' = [from EXCEPT ![c] = s]
       /\ cursor' = [cursor EXCEPT ![c] = s]
  /\ Goto(c, "start")
  /\ delivered' = [delivered EXCEPT ![c] = <<>>]
  /\ cancelled' = cancelled \ {c}
  /\ UNCHANGED <<core, shared, refresher, failure, stopping, asleep>>

(* Faulty variant: any shared snapshot will do.                            *)
AcquiresWhatIsThere(c, at, then) ==
  /\ pc[c] = at
  /\ pc' = [pc EXCEPT ![c] = then]
  /\ need' = [need EXCEPT ![c] = shared.generation]
  /\ floor' = [floor EXCEPT ![c] = acked]
  /\ UNCHANGED <<observed, used, unsent>>
  /\ UNCHANGED <<core, shared, refresher, failure, server, asleep, cursor,
                 from, delivered>>

(* The first half of AcquireSubscriptionSnapshot: EnsureAvailable, and the *)
(* generation the snapshot must have.                                      *)
Acquire(c, at, then) ==
  /\ pc[c] = at
  /\ IF fatal
     THEN End(c)
     ELSE /\ pc' = [pc EXCEPT ![c] = then]
          /\ need' = [need EXCEPT ![c] = generation]
          /\ floor' = [floor EXCEPT ![c] = acked]
          /\ UNCHANGED <<observed, used, unsent>>
  /\ UNCHANGED <<core, shared, refresher, failure, server, asleep, cursor,
                 from, delivered>>

(* The refresher's failed attempt counts for c: its Fatal status is        *)
(* returned, and HandleRpcStatus raises it once more.                      *)
Failed(c) == ~shared.ok /\ shared.attempt >= need[c]

Ready(c) == fatal \/ shared.generation >= need[c] \/ Failed(c)

Sleep(c) ==
  /\ pc[c] \in {"startWait", "fetchWait"}
  /\ c \notin asleep
  /\ ~Ready(c)
  /\ asleep' = asleep \cup {c}
  /\ UNCHANGED <<core, shared, refresher, failure, server, streams>>

(* GetSubscriptionMaxSeq and the check of from_seq.                        *)
Start(c) ==
  /\ pc[c] = "startWait" /\ c \notin asleep /\ Ready(c)
  /\ IF Failed(c) THEN SetFatal ELSE UNCHANGED failure
  /\ IF Failed(c) \/ ~Authorized(c, shared.commits)
          \/ cursor[c] > GetMaxSeq(shared.commits) + 1
     THEN End(c)
     ELSE /\ used' = [used EXCEPT ![c] = shared.commits]
          /\ pc' = [pc EXCEPT ![c] = "accepted"]
          /\ UNCHANGED <<need, observed, floor, unsent>>
  /\ UNCHANGED <<core, shared, refresher, server, asleep, cursor,
                 from, delivered>>

(* The head of the loop: IsCancelled.                                      *)
Loop(c) ==
  /\ pc[c] \in {"accepted", "loop"}
  /\ IF c \in cancelled
     THEN End(c)
     ELSE Goto(c, "fetch")
  /\ UNCHANGED <<core, shared, refresher, failure, server, asleep, cursor,
                 from, delivered>>

(* The loop over batch.messages(): rest is still to be written.  After it, *)
(* a stream that is at the end of the log waits for a newer snapshot.      *)
WriteRest(c, rest, next, last) ==
  /\ unsent' = [unsent EXCEPT ![c] = rest]
  /\ pc' = [pc EXCEPT ![c] = IF rest # <<>> THEN "write"
                             ELSE IF next > last THEN "wait" ELSE "loop"]

(* FetchSubscriptionBatch.  next_seq is assigned after the writes in the   *)
(* code; nothing reads it before that.                                     *)
FetchBatch(c) ==
  LET last == GetMaxSeq(shared.commits)
  IN  /\ pc[c] = "fetchWait" /\ c \notin asleep /\ Ready(c)
      /\ IF Failed(c) THEN SetFatal ELSE UNCHANGED failure
      /\ IF Failed(c) \/ ~Authorized(c, shared.commits)
         THEN End(c) /\ UNCHANGED cursor
         ELSE /\ \E batch \in FetchVisible(cursor[c], last) :
                   /\ cursor' = [cursor EXCEPT ![c] = batch.next]
                   /\ WriteRest(c, batch.messages, batch.next, last)
              /\ used' = [used EXCEPT ![c] = shared.commits]
              /\ observed' = [observed EXCEPT ![c] = shared.version]
              /\ UNCHANGED <<need, floor>>
      /\ UNCHANGED <<core, shared, refresher, server, asleep, from, delivered>>

(* writer->Write returns true: the transport takes the next message.  It   *)
(* blocks while the client does not read and the flow control window is    *)
(* full, so that this step need never come.                                *)
Send(c) ==
  /\ pc[c] = "write"
  /\ delivered' = [delivered EXCEPT ![c] = Append(@, Head(unsent[c]))]
  /\ WriteRest(c, Tail(unsent[c]), cursor[c], GetMaxSeq(used[c]))
  /\ UNCHANGED <<need, observed, used, floor>>
  /\ UNCHANGED <<core, shared, refresher, failure, server, asleep, cursor, from>>

(* writer->Write returns false: the stream is broken or cancelled.         *)
SendFails(c) ==
  /\ pc[c] = "write"
  /\ End(c)
  /\ UNCHANGED <<core, shared, refresher, failure, server, asleep, cursor, from,
                 delivered>>

(* WaitForSubscriptionSnapshot, called again after every 100 ms.           *)
Wait(c) ==
  /\ pc[c] = "wait"
  /\ \/ /\ c \in cancelled
        /\ End(c)
     \/ /\ \/ fatal
           \/ shared.version # observed[c]
           \/ ~shared.ok /\ shared.attempt > shared.generation
        /\ Goto(c, "loop")
  /\ UNCHANGED <<core, shared, refresher, failure, server, asleep, cursor,
                 from, delivered>>

(* The client goes away.                                                   *)
Cancel(c) ==
  /\ pc[c] # "idle" /\ c \notin cancelled
  /\ cancelled' = cancelled \cup {c}
  /\ UNCHANGED <<core, shared, refresher, failure, stopping, asleep, streams>>

StreamStep(c) ==
  \/ Acquire(c, "start", "startWait") \/ Acquire(c, "fetch", "fetchWait")
  \/ Sleep(c) \/ Start(c) \/ Loop(c) \/ FetchBatch(c) \/ Wait(c)

WriteStep(c) == Send(c) \/ SendFails(c)

Next ==
  \/ Write \/ CountCommit \/ FatalNotify \/ StopSubscriptions \/ Refresh
  \/ \E c \in Subscribers :
       Subscribe(c) \/ StreamStep(c) \/ WriteStep(c) \/ Cancel(c)

Spec == Init /\ [][Next]_vars

(***************************************************************************)
(* Fairness: running threads go on.  The refresher wakes up every 100 ms;  *)
(* a commit that was written is counted; a fatal error reaches the thread  *)
(* of main that stops the subscriptions.  A write to a client ends only if *)
(* the stream is cancelled, which releases it.  Clients and writers owe    *)
(* nothing: a client may stay connected and read no more.                  *)
(***************************************************************************)
FairSpec ==
  /\ Spec
  /\ WF_vars(CountCommit) /\ WF_vars(FatalNotify) /\ WF_vars(Refresh)
  /\ WF_vars(raised = "handler" /\ StopSubscriptions)
  /\ \A c \in Subscribers :
       WF_vars(StreamStep(c)) /\ WF_vars(c \in cancelled /\ WriteStep(c))

-----------------------------------------------------------------------------
(***************************************************************************)
(* Properties.                                                             *)
(***************************************************************************)
(* Types of the variables; only a subscriber that waits for a snapshot is  *)
(* asleep.                                                                 *)
TypeOK ==
  /\ db \in Seq({"message"} \cup Subscribers)
  /\ generation <= Len(db) /\ acked <= Len(db)
  /\ shared.commits <= Len(db) /\ shared.generation <= generation
  /\ refresher.at \in {"wait", "create", "install", "raise", "stopped"}
  /\ raised \in {"no", "notify", "handler"} /\ (raised # "no" <=> fatal)
  /\ \A c \in asleep : pc[c] \in {"startWait", "fetchWait"}

(* s is what t begins with.                                                *)
Begins(s, t) == \E n \in 0..Len(t) : s = SubSeq(t, 1, n)

(* Whatever pages, waits and refreshes come in between, a stream delivers  *)
(* the visible messages from from_seq on, each once, in order, without a   *)
(* gap: all before its cursor, or the first of them while a batch is being *)
(* written and when the stream has ended (RunSubscription, FetchVisible).  *)
DeliversInOrder ==
  \A c \in Subscribers :
    LET all == Page(from[c], cursor[c])
    IN  IF pc[c] \in {"write", "idle"} THEN Begins(delivered[c], all)
                                      ELSE delivered[c] = all

(* A subscription sees, at its start and in every batch, all commits that  *)
(* were acknowledged before it asked, unless the server has met a fatal    *)
(* error meanwhile (commit_generation_ is counted after the write, read by *)
(* the refresher before its snapshot and by the subscriber before it waits).*)
(* The types, with the order of the counters, come with it.                *)
SeesPriorCommits ==
  /\ TypeOK
  /\ \A c \in Subscribers :
       pc[c] \in {"accepted", "write", "loop", "wait"} =>
         used[c] >= floor[c] \/ fatal

(* A batch requested after a DeleteToken was acknowledged delivers nothing *)
(* under that token, unless the server has met a fatal error meanwhile.    *)
NothingAfterRevocation ==
  [][\A c \in Subscribers :
       Len(delivered'[c]) > Len(delivered[c]) /\ ~fatal =>
         \A i \in 1..floor[c] : db[i] # c]_vars

(* Subscription startup covers prior commits, without exception.           *)
StartupCoversPriorCommits ==
  \A c \in Subscribers : pc[c] = "accepted" => used[c] >= floor[c]

(* After StopSubscriptions every stream ends, also one that sleeps on the  *)
(* condition variable and cannot notice its cancellation, and one whose    *)
(* client reads no more: the shutdown of the server does not hang on a     *)
(* subscriber.                                                             *)
StreamsEnd == stopping ~> \A c \in Subscribers : pc[c] = "idle"

(* A client that always reads on, so that no write to it blocks for ever.  *)
ReadsOn(c) == WF_vars(Send(c))

(* A visible message whose publication was acknowledged reaches every open *)
(* stream that asked for it, or the stream ends, provided that its client  *)
(* reads on (CommitBatch, RefreshSubscriptionSnapshots, RunSubscription).  *)
MessagesArrive ==
  \A c \in Subscribers, s \in Visible \cap 1..MaxCommits :
    ReadsOn(c) =>
      (/\ s <= GetMaxSeq(acked) /\ from[c] <= s /\ pc[c] # "idle"
       ~> pc[c] = "idle" \/ \E k \in DOMAIN delivered[c] : delivered[c][k] = s)

=============================================================================
