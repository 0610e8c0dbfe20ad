------------------------- MODULE EventLogRefinement -------------------------
(***************************************************************************)
(* EventLog implements PublicationLog.  The stored member lists, the uuid  *)
(* index and the counters do not occur in the mapping: they are caches of  *)
(* what the log says.                                                      *)
(***************************************************************************)
EXTENDS EventLog

(* The stored messages in the order of their seqs, and what never changes  *)
(* about the stored channels.                                              *)
MessageSequence(d) == [i \in 1..(GetMaxSeq(d) + 1) |-> d.log[i - 1]]

ChannelTable(d) ==
  [c \in 1..(GetNextChannelId(d) - 1) |->
     [visibility |-> d.chan[c].visibility, creator |-> d.chan[c].creator]]

Promise == INSTANCE PublicationLog WITH
  log      <- MessageSequence(db),
  channels <- ChannelTable(db),
  tokens   <- db.tokens,
  granted  <- issued,
  known    <- acked,
  dead     <- revoked

(* Every step of the coordinator, a failed write and a restart that        *)
(* recovers it included, is one step of the promised log or none: messages *)
(* are appended one at a time, each admitted by what the log before it     *)
(* says, and whatever clients were told remains true (Publish,             *)
(* PublishAutoSeq, CreateChannel, AddMember, RemoveMember, CommitBatch).   *)
ImplementsPublicationLog == Promise!Spec

=============================================================================
