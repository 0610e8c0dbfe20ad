---------------------------- MODULE MCReadQueries ----------------------------
(***************************************************************************)
(* ReadQueries for TLC.  One principal owns a private and a public         *)
(* channel, the other reads; uuids, tokens and both channels are there     *)
(* from earlier calls.                                                     *)
(***************************************************************************)
EXTENDS ReadQueries

CONSTANTS
  owner, other, token,  \* the principals, and the token each of them has
  Limit                 \* the page limit of the requests

Channel(visibility, members) ==
  [visibility |-> visibility, creator |-> owner, members |-> members]

MCStartDb ==
  LET empty   == Apply(AllocateUuidsBatch(InitialDb, MaxSeq),
                       [InitialDb EXCEPT !.tokens = Principals \X {token}])
      private == Apply(CreateChannelBatch(empty, Channel("private", {owner})),
                       empty)
  IN  Apply(CreateChannelBatch(private, Channel("public", {owner, other})),
            private)

MCRequests ==
  [op: {"Fetch"}, cred: {<<other, token>>},
   channels: {<<>>, <<1>>, <<2, 0>>}, mine: BOOLEAN, limit: {Limit}]
    \cup
  [op: {"ListMessages"}, cred: {<<other, token>>}, channels: {<<>>},
   mine: {FALSE}, limit: {Limit}]

=============================================================================
