---------------------------- MODULE RedisStream ----------------------------
(***************************************************************************)
(* The Redis side of one RelayQ queue, as RedisStreamTransport drives it:  *)
(* the job stream relayq:{queue}:stream with its consumer group, and the   *)
(* dead-letter stream relayq:{queue}:dlq.                                   *)
(*                                                                         *)
(* A stream entry is known by its position in the log, so entry ids grow   *)
(* with every XADD as Redis ids do.  An entry's body is the serialised     *)
(* Job; of the fields of Job.to_dict only the id and the attempt counter   *)
(* matter here.  A body never changes after XADD.                          *)
(*                                                                         *)
(* Redis itself is external: its commands are modelled as the transport    *)
(* uses them, each executed atomically by the server.                      *)
(***************************************************************************)
EXTENDS Naturals, Sequences, FiniteSets

CONSTANTS
  Jobs,          \* job ids, one for every Job object a client submits
  Workers,       \* worker ids; each names one consumer of the group
  NoWorker,      \* owner of an entry that is not in the pending list
  MaxEntries     \* bound: entries the stream may ever hold

ASSUME RedisAssumption ==
  /\ NoWorker \notin Workers
  /\ MaxEntries \in Nat

VARIABLES
  stream,        \* every body ever appended; entry e is stream[e]
  trimmed,       \* entries 1..trimmed have been evicted by MAXLEN
  group,         \* has the consumer group been created?
  lastId,        \* last-delivered id of the group
  owner,         \* pending entries list: the consumer that holds an entry
  dlq            \* the dead-letter stream

redisVars == <<stream, trimmed, group, lastId, owner, dlq>>

Entries == 1 .. MaxEntries

Body == [job : Jobs, attempts : Nat]

\* What Job.to_dict writes for a job and Job.from_dict reads back.
Serialise(j, n) == [job |-> j, attempts |-> n]

RedisTypeOK ==
  /\ stream  \in Seq(Body)
  /\ Len(stream) <= MaxEntries
  /\ trimmed \in 0 .. Len(stream)
  /\ group   \in BOOLEAN
  /\ lastId  \in 0 .. Len(stream)
  /\ owner   \in [Entries -> Workers \cup {NoWorker}]
  /\ dlq     \in Seq(Body)

RedisInit ==
  /\ stream  = << >>
  /\ trimmed = 0
  /\ group   = FALSE
  /\ lastId  = 0
  /\ owner   = [e \in Entries |-> NoWorker]
  /\ dlq     = << >>

-----------------------------------------------------------------------------
(* Queries *)

Pending == {e \in Entries : owner[e] # NoWorker}

DeadLettered(j) == \E i \in DOMAIN dlq : dlq[i].job = j

\* Fault variant: an entry counts until it is acknowledged.
StreamLength_Unsettled ==
  Cardinality({e \in Entries : e <= Len(stream) /\ (e > lastId \/ e \in Pending)})

\* XLEN counts every entry still stored, acknowledged or not: XACK removes an
\* entry from the pending list, never from the stream.
StreamLength == Len(stream) - trimmed

\* The first id XREADGROUP ">" can return, and the ids a read of count returns.
NextId == 1 + (IF lastId > trimmed THEN lastId ELSE trimmed)

ReadBatch(count) ==
  {e \in Entries : NextId <= e /\ e < NextId + count /\ e <= Len(stream)}

-----------------------------------------------------------------------------
(* Commands *)

\* Fault variant: the group starts at "$", the end of the stream.
EnsureGroup_AtEnd ==
  /\ group' = TRUE
  /\ lastId' = IF group THEN lastId ELSE Len(stream)
  /\ UNCHANGED <<stream, trimmed, owner, dlq>>

\* Fault variant: an existing group is sent back to the first entry.
EnsureGroup_Rewinds ==
  /\ group' = TRUE
  /\ lastId' = 0
  /\ UNCHANGED <<stream, trimmed, owner, dlq>>

\* XGROUP CREATE ... id=0 MKSTREAM.  A new group starts before the first entry,
\* BUSYGROUP is swallowed and leaves an existing group where it is.
EnsureGroup ==
  /\ group' = TRUE
  /\ UNCHANGED <<stream, trimmed, lastId, owner, dlq>>

\* XADD with MAXLEN ~ maxlen: append, then evict the oldest entries lazily: at
\* most down to maxlen, possibly not at all.
XAdd(j, n, maxlen) ==
  LET excess == Len(stream) + 1 - maxlen
  IN  /\ Len(stream) < MaxEntries
      /\ stream' = Append(stream, Serialise(j, n))
      /\ trimmed' \in trimmed .. (IF excess > trimmed THEN excess ELSE trimmed)
      /\ UNCHANGED <<group, lastId, owner, dlq>>

\* Fault variant: entries are handed out but the group's cursor stays put.
XReadGroup_CursorStays(w, count) ==
  /\ group
  /\ ReadBatch(count) # {}
  /\ owner' = [e \in Entries |-> IF e \in ReadBatch(count) THEN w ELSE owner[e]]
  /\ UNCHANGED <<stream, trimmed, group, lastId, dlq>>

\* XREADGROUP ">": never-delivered entries only, each put in w's pending list.
XReadGroup(w, count) ==
  /\ group
  /\ ReadBatch(count) # {}
  /\ owner' = [e \in Entries |-> IF e \in ReadBatch(count) THEN w ELSE owner[e]]
  /\ lastId' = IF NextId + count - 1 < Len(stream) THEN NextId + count - 1 ELSE Len(stream)
  /\ UNCHANGED <<stream, trimmed, group, dlq>>

\* XACK takes the entry out of the group's pending list, whoever owns it.
XAck(e) ==
  /\ owner' = [owner EXCEPT ![e] = NoWorker]
  /\ UNCHANGED <<stream, trimmed, group, lastId, dlq>>

\* XAUTOCLAIM of the idle entries S: those still stored move to w, those that
\* were evicted are dropped from the pending list.
XAutoClaim(w, S) ==
  /\ owner' = [e \in Entries |-> IF e \notin S THEN owner[e]
                                 ELSE IF e <= trimmed THEN NoWorker ELSE w]
  /\ UNCHANGED <<stream, trimmed, group, lastId, dlq>>

\* XADD to the dead-letter stream, which has no MAXLEN.
XAddDlq(j, n) ==
  /\ dlq' = Append(dlq, Serialise(j, n))
  /\ UNCHANGED <<stream, trimmed, group, lastId, owner>>
=============================================================================
