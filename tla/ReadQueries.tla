----------------------------- MODULE ReadQueries -----------------------------
(***************************************************************************)
(* The queries of OpenEventCore that page through the log or list          *)
(* channels: Fetch, ListMessages, ListChannels and GetChannel of           *)
(* src/service/open_event_core.cpp, over ScanMessages, ListChannels and    *)
(* GetChannel of src/storage/unified_storage.cpp.                          *)
(*                                                                         *)
(* The first part are operators on a snapshot of module EventStore.  The   *)
(* second part is a client that pages through the log, passing next_seq on *)
(* as from_seq, while others publish and change members, its token may be  *)
(* deleted, and the stored data may be damaged.  A query reads one         *)
(* snapshot taken under coordinator_mu_, so it is one step.                *)
(***************************************************************************)
EXTENDS EventStore, Sequences

CONSTANTS
  Requests,      \* the queries clients make: [op, cred, channels, mine, limit]
  SoftLimit,     \* response_soft_limit_bytes_
  MaxScan,       \* max_scan_records_, 10000 in main
  Writes,        \* the writes of this instance: "publish", "members", "token"
  Damages,       \* the damages of this instance: "message", "fields", "channel"
  StartDb,       \* the data a client finds
  MaxSeq         \* bound: last seq of the log

ASSUME QueryAssumption ==
  /\ SoftLimit \in Nat \ {0} /\ MaxScan \in Nat \ {0} /\ MaxSeq \in Nat
  /\ Requests \subseteq
       [op: {"Fetch", "ListMessages"}, cred: Credentials, channels: Seq(Nat),
        mine: BOOLEAN, limit: 1..1000]

(* The data a client finds is what earlier calls have left: records of     *)
(* every family, sound and complete.                                       *)
ASSUME StartAssumption ==
  /\ DOMAIN StartDb = {"meta", "log", "uuid", "chan", "tokens"}
  /\ GoodDb(StartDb)

(***************************************************************************)
(* Channels.  LoadChannel knows the system channel 0; a record that is not *)
(* valid is StorageCorruption.                                             *)
(***************************************************************************)
SystemChannel == [visibility |-> "protected", creator |-> 0, members |-> {}]

LoadChannel(d, c) == IF c = 0 THEN SystemChannel ELSE d.chan[c]

ChannelStatus(d, c) ==
  Check(c = 0 \/ c \in DOMAIN d.chan, "NOT_FOUND")
    ?? Check(c = 0 \/ ValidStoredChannel(d.chan[c]), "DATA_LOSS")

CanRead(ch, p) == ch.visibility \in {"public", "protected"} \/ p \in ch.members

(* GetChannel after its credential check.                                  *)
GetChannelStatus(d, p, c) ==
  ChannelStatus(d, c) ?? Check(CanRead(LoadChannel(d, c), p), "PERMISSION_DENIED")

(* The first channel of the request that is refused decides.               *)
ValidateReadableChannels(d, p, channels) ==
  LET refused == {i \in DOMAIN channels :
                    GetChannelStatus(d, p, channels[i]) # "OK"}
  IN  IF refused = {} THEN "OK"
      ELSE GetChannelStatus(d, p, channels[CHOOSE i \in refused :
                                             \A j \in refused : i <= j])

(* UnifiedStorage::ListChannels refuses all when one record is not valid.  *)
StoredChannelsStatus(d) ==
  Check(\A c \in DOMAIN d.chan : ValidStoredChannel(d.chan[c]), "DATA_LOSS")

(* Faulty variant: a principal only sees what it has joined.               *)
HidesUnjoinedChannels(d, p, filter) ==
  {c \in DOMAIN d.chan : p \in d.chan[c].members}
    \cup (IF filter = "all" THEN {0} ELSE {})

(* The channels ListChannels answers with when they are all valid.         *)
ListChannels(d, p, filter) ==
  {c \in DOMAIN d.chan :
     /\ CanRead(d.chan[c], p)
     /\ filter = "joined" => p \in d.chan[c].members
     /\ filter = "owned" => d.chan[c].creator = p}
    \cup (IF filter = "all" THEN {0} ELSE {})

(***************************************************************************)
(* A page.  Sizes are abstracted to three classes: system messages and     *)
(* user messages to everyone fit the soft limit several times or once, a   *)
(* message to chosen recipients exceeds it.                                *)
(***************************************************************************)
ByteSize(m) ==
  IF m.principal = 0 THEN 1 ELSE IF m.recipients = {} THEN 2 ELSE SoftLimit + 1

Requested(r, m) ==
  r.channels = <<>> \/ \E i \in DOMAIN r.channels : r.channels[i] = m.channel

(* Faulty variant: only recipients are checked.                            *)
ForgetsCanRead(d, r, m) == r.mine => r.cred[1] \in m.recipients

Readable(d, r, m) ==
  /\ CanRead(LoadChannel(d, m.channel), r.cred[1])
  /\ r.mine => r.cred[1] \in m.recipients

Stop(st, status) == [st EXCEPT !.status = status]

Pass(st, s) == [st EXCEPT !.next = s + 1, !.scanned = st.scanned + 1]

Room(st) == SoftLimit - (IF st.bytes < SoftLimit THEN st.bytes ELSE SoftLimit)

Added(d, st, s) ==
  [Pass(st, s) EXCEPT !.page = Append(st.page, s),
                      !.bytes = st.bytes + ByteSize(d.log[s])]

(* Faulty variant: the soft limit also holds for the first message.        *)
NeverExceedsSoftLimit(d, r, st, s) ==
  IF ByteSize(d.log[s]) > Room(st) THEN Stop(st, "OK")
  ELSE IF Len(st.page) + 1 >= r.limit THEN Stop(Added(d, st, s), "OK")
  ELSE Added(d, st, s)

(* Faulty variant: the soft limit is compared before the message counts.   *)
StopsTooLate(d, r, st, s) ==
  IF st.page # <<>> /\ Room(st) = 0 THEN Stop(st, "OK")
  ELSE IF Len(st.page) + 1 >= r.limit THEN Stop(Added(d, st, s), "OK")
  ELSE Added(d, st, s)

(* The end of both visitors.  A message that does not fit is left to the   *)
(* next page (kStopBefore), one that fills the page is not (kStopAfter).   *)
AddMessage(d, r, st, s) ==
  IF st.page # <<>> /\ ByteSize(d.log[s]) > Room(st) THEN Stop(st, "OK")
  ELSE IF Len(st.page) + 1 >= r.limit THEN Stop(Added(d, st, s), "OK")
  ELSE Added(d, st, s)

(* The visitor of FetchVisible.                                            *)
VisitVisible(d, r, st, s) ==
  LET m == d.log[s]
  IN  IF ~Requested(r, m) THEN Pass(st, s)
      ELSE IF ChannelStatus(d, m.channel) # "OK" THEN Stop(st, "DATA_LOSS")
      ELSE IF ~Readable(d, r, m) THEN Pass(st, s)
      ELSE AddMessage(d, r, st, s)

(* Faulty variant: the channel is not looked up.                           *)
ListsWithoutChannel(d, r, st, s) == AddMessage(d, r, st, s)

(* The visitor of ListAllMessages.                                         *)
VisitAny(d, r, st, s) ==
  IF ChannelStatus(d, d.log[s].channel) # "OK" THEN Stop(st, "DATA_LOSS")
  ELSE AddMessage(d, r, st, s)

(* The visitor that the query has passed to ScanMessages.                  *)
Visitor(d, r, st, s) ==
  IF r.op = "Fetch" THEN VisitVisible(d, r, st, s) ELSE VisitAny(d, r, st, s)

(***************************************************************************)
(* ScanMessages.  The iterator stands at the first message from s on.  A   *)
(* message missing at s is noticed when a later one follows, or, behind    *)
(* the loop, when the scan limit has not been reached.                     *)
(***************************************************************************)
ScanRecord(d, r, last, st, s) ==
  IF st.status # "scanning" THEN st
  ELSE IF s \notin DOMAIN d.log
  THEN Stop(st, IF (s..last) \cap DOMAIN d.log # {} \/ st.scanned < MaxScan
                THEN "DATA_LOSS" ELSE "OK")
  ELSE IF st.scanned >= MaxScan THEN Stop(st, "OK")
  ELSE IF ~ValidStoredMessage(s, d.log[s]) THEN Stop(st, "DATA_LOSS")
  ELSE Visitor(d, r, st, s)

ScanStart(from) ==
  [next |-> from, scanned |-> 0, page |-> <<>>, bytes |-> 0,
   status |-> "scanning"]

(* The loop, for from <= last: its state after i records.                  *)
ScanMessages(d, r, from, last) ==
  LET run[i \in 0..(last - from + 1)] ==
        IF i = 0 THEN ScanStart(from)
        ELSE ScanRecord(d, r, last, run[i - 1], from + i - 1)
  IN  run[last - from + 1]

(* The answer of a query: its status, messages and next_seq.               *)
Answer(status, page, next) ==
  [status |-> IF status = "scanning" THEN "OK" ELSE status,
   page |-> page, next |-> next]

(* What FetchVisible and ListAllMessages do around their scan.  A from_seq *)
(* behind the log gives a next_seq at its end.                             *)
ScanFrom(d, r, from) ==
  LET max == GetMaxSeq(d)
      st  == ScanMessages(d, r, from, max)
  IN  IF from > max THEN Answer("OK", <<>>, max + 1)
      ELSE Answer(st.status, st.page, st.next)

FetchVisible(d, r, from) == ScanFrom(d, r, from)

(* Faulty variant: the scan does not end at max_seq.                       *)
ScansPastTheEnd(d, r, from) ==
  LET max == GetMaxSeq(d) + 1
      st  == ScanMessages(d, r, from, max)
  IN  IF from > max THEN Answer("OK", <<>>, max + 1)
      ELSE Answer(st.status, st.page, st.next)

ListAllMessages(d, r, from) == ScanFrom(d, r, from)

Fetch(d, r, from) ==
  LET status == Authenticate(d, r.cred)
                  ?? ValidateReadableChannels(d, r.cred[1], r.channels)
  IN  IF status = "OK" THEN FetchVisible(d, r, from)
      ELSE Answer(status, <<>>, from)

(* ListMessages, of the admin, checks nothing.                             *)
Query(d, r, from) ==
  IF r.op = "Fetch" THEN Fetch(d, r, from) ELSE ListAllMessages(d, r, from)

-----------------------------------------------------------------------------
(***************************************************************************)
(* The client.                                                             *)
(***************************************************************************)
VARIABLES
  db,      \* the stored data
  damaged, \* the data was damaged
  fatal,   \* fatal_error_triggered_
  reader   \* the client: request, first seq, cursor, status, last page, all
           \* seqs it has received

vars == <<db, damaged, fatal, reader>>

Idle ==
  [active |-> FALSE, request |-> {}, from |-> 0, cursor |-> 0, page |-> <<>>,
   got |-> <<>>]

Init == db = StartDb /\ damaged = FALSE /\ fatal = FALSE /\ reader = Idle

(* The client chooses its request and from_seq, which may lie behind the   *)
(* end of the log.                                                         *)
Begin ==
  /\ ~reader.active
  /\ \E r \in Requests, s \in 0..(MaxSeq + 1) :
       reader' = [Idle EXCEPT !.active = TRUE, !.request = {r}, !.from = s,
                              !.cursor = s]
  /\ UNCHANGED <<db, damaged, fatal>>

(* The next page, or the end of the client after any other status.  A      *)
(* next_seq below from_seq takes the client back to the end of the log.    *)
NextPage ==
  /\ reader.active /\ ~fatal
  /\ \E answer \in {Query(db, r, reader.cursor) : r \in reader.request} :
       \/ /\ answer.status = "OK"
          /\ reader' = [reader EXCEPT
                          !.from = IF answer.next < reader.from
                                   THEN answer.next ELSE reader.from,
                          !.cursor = answer.next,
                          !.page = answer.page,
                          !.got = reader.got \o answer.page]
          /\ UNCHANGED fatal
       \/ /\ answer.status # "OK"
          /\ reader' = Idle
          /\ fatal' = (answer.status = "DATA_LOSS")
  /\ UNCHANGED <<db, damaged>>

(* GetChannel and ListChannels answer and change nothing, but corruption   *)
(* that they meet is fatal.                                                *)
LookUp ==
  /\ ~fatal
  /\ StoredChannelsStatus(db) = "DATA_LOSS"
  /\ fatal' = TRUE
  /\ UNCHANGED <<db, damaged, reader>>

Leave == reader.active /\ reader' = Idle /\ UNCHANGED <<db, damaged, fatal>>

(***************************************************************************)
(* Others: writes as module EventLog has them, and damage from outside, of *)
(* one record.                                                             *)
(***************************************************************************)
CanGrow == ~fatal /\ ~damaged /\ GetMaxSeq(db) < MaxSeq

AvailableUuids ==
  {u \in 1..(GetNextUuid(db) - 1) : ValidateAvailableUuid(db, u) = "OK"}

(* No query looks at the author or the uuid, so the creator publishes, and *)
(* takes any uuid.                                                         *)
Publish ==
  /\ CanGrow /\ "publish" \in Writes /\ AvailableUuids # {}
  /\ \E c \in DOMAIN db.chan, R \in SUBSET Principals :
       LET q == db.chan[c].creator
           u == CHOOSE v \in AvailableUuids : TRUE
       IN  /\ ValidatePublishTarget(db, q, c, R) = "OK"
           /\ db' = Apply(BuildPublishBatch(q, c, GetMaxSeq(db) + 1, u, R), db)
  /\ UNCHANGED <<damaged, fatal, reader>>

ChangeMembers ==
  /\ CanGrow /\ "members" \in Writes
  /\ \E c \in DOMAIN db.chan, q \in Principals :
       \/ /\ ValidateAddMember(db, db.chan[c].creator, c, q) = "OK"
          /\ db' = Apply(AddMemberBatch(db, c, q), db)
       \/ /\ ValidateRemoveMember(db, db.chan[c].creator, c, q) = "OK"
          /\ q \in db.chan[c].members
          /\ db' = Apply(RemoveMemberBatch(db, c, q), db)
  /\ UNCHANGED <<damaged, fatal, reader>>

DeleteToken ==
  /\ ~fatal /\ "token" \in Writes
  /\ \E cred \in db.tokens : db' = Apply(DeleteTokenBatch(cred), db)
  /\ UNCHANGED <<damaged, fatal, reader>>

Without(f, x) == [y \in DOMAIN f \ {x} |-> f[y]]

Damage ==
  /\ ~damaged /\ damaged' = TRUE
  /\ \/ /\ "message" \in Damages
        /\ \E s \in DOMAIN db.log : db' = [db EXCEPT !.log = Without(@, s)]
     \/ /\ "fields" \in Damages
        /\ \E s \in DOMAIN db.log \ {0} : db' = [db EXCEPT !.log[s].uuid = 0]
     \/ /\ "channel" \in Damages
        /\ \E c \in DOMAIN db.chan :
             \/ db' = [db EXCEPT !.chan = Without(@, c)]
             \/ db' = [db EXCEPT !.chan[c].members = {}]
  /\ UNCHANGED <<fatal, reader>>

Next ==
  Begin \/ NextPage \/ LookUp \/ Leave \/ Publish \/ ChangeMembers \/ DeleteToken \/ Damage

Spec == Init /\ [][Next]_vars

-----------------------------------------------------------------------------
(***************************************************************************)
(* Properties.                                                             *)
(***************************************************************************)
(* Types of the variables; what the client has received comes from the     *)
(* part of the log it has asked for.                                       *)
TypeOK ==
  /\ DbTypeOK(db)
  /\ damaged \in BOOLEAN /\ fatal \in BOOLEAN
  /\ reader.request \subseteq Requests
  /\ reader.from \in Nat /\ reader.cursor \in Nat
  /\ \A i \in DOMAIN reader.got : reader.got[i] \in reader.from..(reader.cursor - 1)

SeqsIn(page) == {page[i] : i \in DOMAIN page}

Increasing(page) == \A i, j \in DOMAIN page : i < j => page[i] < page[j]

(* The size of a page, added up.                                           *)
PageBytes(d, page) ==
  LET sum[i \in 0..Len(page)] ==
        IF i = 0 THEN 0 ELSE sum[i - 1] + ByteSize(d.log[page[i]])
  IN  sum[Len(page)]

(* What r asks for and may read of the seqs S, independent of pages.       *)
Wanted(d, r, S) ==
  {s \in S :
     LET m == d.log[s]
         c == m.channel
     IN  r.op = "Fetch" =>
           /\ r.channels # <<>> => \E i \in DOMAIN r.channels : r.channels[i] = c
           /\ c # 0 => d.chan[c].visibility # "private"
                         \/ r.cred[1] \in d.chan[c].members
           /\ r.mine => r.cred[1] \in m.recipients}

(* Every page holds, in order, exactly the messages between its cursor and *)
(* the next that its reader may read and asked for, in the snapshot of the *)
(* page: limits and filters never drop or repeat one, and never show one   *)
(* that membership hides (FetchVisible, ListAllMessages, ScanMessages).    *)
PagesAreExact ==
  [][reader'.active /\ reader.active =>
       \A r \in reader.request :
         Len(reader'.got) > Len(reader.got) \/ reader'.cursor > reader.cursor =>
           /\ reader'.got = reader.got \o reader'.page
           /\ Increasing(reader'.page)
           /\ SeqsIn(reader'.page) =
                Wanted(db, r, reader.cursor..(reader'.cursor - 1))]_vars

(* A page stays within the soft budget, unless it is a single message that *)
(* exceeds it (docs/CONFIG.md: "A single message larger than the soft      *)
(* budget is returned on its own"). Damage may remove a record whose size  *)
(* the page counted, so nothing is said once there is some.                *)
PagesKeepBudget ==
  \/ damaged
  \/ Len(reader.page) <= 1
  \/ PageBytes(db, reader.page) <= SoftLimit

(* Damaged data is never passed over: a cursor moves only across messages  *)
(* that are stored and valid, and a page only holds messages of channels   *)
(* that are, so damage ends in DATA_LOSS at whatever place of a page it is *)
(* (ScanMessages and its visitors).                                        *)
NoDamageIsHidden ==
  [][reader.active /\ reader'.active =>
       \A s \in reader.cursor..(reader'.cursor - 1) :
         /\ s \in DOMAIN db.log /\ ValidStoredMessage(s, db.log[s])
         /\ s \in SeqsIn(reader'.page) => ChannelStatus(db, db.log[s].channel) = "OK"
    ]_vars

(* Sound data is never reported as corrupt, whatever limit ends a page and *)
(* however the log grows behind it (ScanMessages).                         *)
NoFalseAlarm == fatal => damaged

(* A channel is listed exactly if its messages can be fetched by name and  *)
(* if GetChannel shows it; whoever owns a channel has joined it, and what  *)
(* is joined is listed (ListChannels, GetChannel, ValidateReadableChannels).*)
ListingsAgree ==
  ~damaged =>
    \A p \in Principals :
      StoredChannelsStatus(db) = "OK" /\
      LET all    == ListChannels(db, p, "all")
          joined == ListChannels(db, p, "joined")
          owned  == ListChannels(db, p, "owned")
      IN  /\ owned \subseteq joined /\ joined \subseteq all
          /\ \A c \in 0..GetNextChannelId(db) :
               /\ c \in all <=> ValidateReadableChannels(db, p, <<c>>) = "OK"
               /\ c \in joined <=> MemberAt(db.log, c, p, GetMaxSeq(db))

(* A client that keeps asking comes to the end of the log, whatever it     *)
(* filters and however large the messages are: the next answer, unless it  *)
(* is an error, takes it forward or finds it at the end (FetchVisible and  *)
(* ListAllMessages, whose soft limit spares the first message of a page).  *)
(* The types come with it.                                                 *)
PagingAdvances ==
  /\ TypeOK
  /\ reader.active =>
       \A r \in reader.request :
         \A answer \in {Query(db, r, reader.cursor)} :
           \/ answer.status # "OK"
           \/ answer.next > reader.cursor
           \/ answer.next = GetMaxSeq(db) + 1

=============================================================================
