--------------------------- MODULE PublicationLog ---------------------------
(***************************************************************************)
(* What the write coordinator promises its clients, without workers, locks, *)
(* batches, failures or restarts: one log that grows by one message at a   *)
(* time and is the whole truth.  Who belongs to a channel is what its      *)
(* system messages say; a uuid names one message; what a client was told   *)
(* stays so.  Module EventLogRefinement relates EventLog to it.            *)
(***************************************************************************)
EXTENDS Integers, Sequences

VARIABLES
  log,       \* the sequence of all messages; seq s is log[s + 1]
  channels,  \* visibility and creator of each channel
  tokens,    \* the <<principal, token>> pairs that authenticate
  granted,   \* uuids returned by AllocateUuids
  known,     \* <<uuid, seq>> pairs clients have been told
  dead       \* credentials whose deletion has been confirmed

vars == <<log, channels, tokens, granted, known, dead>>

(* Tokens and uuids may have been given out before.                        *)
Init ==
  /\ Len(log) = 1 /\ log[1].uuid = 0 /\ log[1].kind = "initialization"
  /\ channels = <<>>
  /\ known = {} /\ dead = {}

(* Membership, from the log alone: the last message of c about p counts.   *)
About(m, c, p) ==
  m.kind \in {"channel_initialized", "member_added", "member_removed"}
    /\ m.channel = c /\ p \in m.who

Member(c, p) ==
  \E i \in DOMAIN log :
    /\ About(log[i], c, p) /\ log[i].kind # "member_removed"
    /\ \A j \in DOMAIN log : j > i => ~About(log[j], c, p)

Unused(u) == \A i \in DOMAIN log : log[i].uuid # u

Authenticated(p) == \E cred \in tokens : cred[1] = p

(* A message is appended; the server takes uuids no client was given.      *)
AppendUser(m) ==
  /\ log' = Append(log, m)
  /\ m.kind = "user" /\ Unused(m.uuid)
  /\ Authenticated(m.principal)
  /\ m.channel \in DOMAIN channels
  /\ channels[m.channel].visibility = "public" \/ Member(m.channel, m.principal)
  /\ \A q \in m.recipients : Member(m.channel, q)
  /\ UNCHANGED <<channels, tokens, granted, known, dead>>

AppendSystem(m, kind) ==
  /\ log' = Append(log, m)
  /\ m.kind = kind /\ m.principal = 0 /\ m.recipients = {}
  /\ Unused(m.uuid) /\ m.uuid \notin granted
  /\ UNCHANGED <<tokens, granted, known, dead>>

CreateChannel(m) ==
  /\ AppendSystem(m, "channel_initialized")
  /\ m.channel = Len(channels) + 1
  /\ \E ch \in {channels'[c] : c \in DOMAIN channels'} :
       /\ channels' = Append(channels, ch)
       /\ ch.creator \in m.who /\ Authenticated(ch.creator)

ChangeMember(m, kind) ==
  /\ AppendSystem(m, kind)
  /\ m.channel \in DOMAIN channels
  /\ Authenticated(channels[m.channel].creator)
  /\ UNCHANGED channels

AddMember(m) ==
  /\ ChangeMember(m, "member_added")
  /\ \E q \in m.who : m.who = {q} /\ ~Member(m.channel, q)

RemoveMember(m) ==
  /\ ChangeMember(m, "member_removed")
  /\ \E q \in m.who :
       m.who = {q} /\ Member(m.channel, q) /\ q # channels[m.channel].creator

(* Appended messages are the new elements of log'.                         *)
AppendMessage ==
  \E m \in {log'[i] : i \in DOMAIN log' \ DOMAIN log} :
    AppendUser(m) \/ CreateChannel(m) \/ AddMember(m) \/ RemoveMember(m)

(* Tokens come and go one at a time.                                       *)
ChangeToken ==
  /\ \/ \E cred \in tokens' \ dead : tokens' = tokens \cup {cred}
     \/ \E cred \in tokens : tokens' = tokens \ {cred}
  /\ UNCHANGED <<log, channels, granted, known, dead>>

(* Clients are told uuids that the server has not used itself, the seqs of *)
(* committed messages, and the end of credentials.                         *)
Answer ==
  /\ granted \subseteq granted' /\ known \subseteq known' /\ dead \subseteq dead'
  /\ \A u \in granted' \ granted, i \in DOMAIN log :
       log[i].uuid = u => log[i].kind = "user"
  /\ \A k \in known' \ known :
       k[2] + 1 \in DOMAIN log /\ log[k[2] + 1].uuid = k[1]
  /\ dead' \cap tokens = {}
  /\ UNCHANGED <<log, channels, tokens>>

Next == AppendMessage \/ ChangeToken \/ Answer

Spec == Init /\ [][Next]_vars

=============================================================================
