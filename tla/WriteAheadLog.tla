--------------------------- MODULE WriteAheadLog ---------------------------
(***************************************************************************)
(* `RaftLog` (crates/mangle-wal/src/log_store.rs): the Raft log and vote   *)
(* in two tables of a redb database, with openraft as its only caller.     *)
(*                                                                         *)
(* A write is a transaction: its body, its commit (which syncs) and the    *)
(* return to openraft are steps, and an error or a crash can fall between  *)
(* any two.  Readers have a handle of their own and take no lock.          *)
(***************************************************************************)
EXTENDS WalCodec, FiniteSets, FiniteSetsExt, Functions

CONSTANTS
    LogIds,    \* log ids: term and node of the leader, index
    Entries,   \* Entries[id]: the entry with that id (log matching of Raft)
    Votes,     \* votes: term, node, committed
    MaxIndex,  \* bound: indexes
    None

Ids == {None} \cup LogIds

\* Functions from some of the indexes.
Partial(S) == UNION {[D -> S] : D \in SUBSET (0..MaxIndex)}

Views ==
    [up : {TRUE}, purged : Ids, last : Ids, vote : {None} \cup Votes, ids : Partial(LogIds)]

Records == {EncodeEntry(Entries[id]) : id \in LogIds}

Tables == Partial(Records)

Metas ==
    [last_purged : {None} \cup {EncodeLogId(id) : id \in LogIds},
     vote : {None} \cup {EncodeVote(v) : v \in Votes}]

\* A write transaction: what it leaves in the tables, openraft's state once the
\* call has returned, and whether it is on disk.
Transactions == [log : Tables, meta : Metas, after : Views, committed : BOOLEAN]

\* The constants are what their comments say, and the codec loses nothing.
ASSUME LogConstants ==
    /\ MaxIndex \in Nat
    /\ None \notin LogIds /\ None \notin Votes /\ None \notin Transactions
    /\ \A id \in LogIds : EncodeLogId(id) # None
    /\ \A v \in Votes : EncodeVote(v) # None
    /\ \A id \in LogIds : /\ id.term \in Nat /\ id.index \in 0..MaxIndex
                          /\ DecodeLogId(EncodeLogId(id)) = id
                          /\ DecodeEntry(EncodeEntry(Entries[id])) = Entries[id]
                          /\ Entries[id].log_id = id
    /\ \A v \in Votes : DecodeVote(EncodeVote(v)) = v /\ v.term \in Nat

VARIABLES
    log,     \* table mangle.log: index to record
    meta,    \* table mangle.meta: last_purged and vote
    txn,     \* the write transaction in progress, or None
    raft,    \* what openraft holds in memory, or Down
    reader   \* a read transaction in progress, or None

walVars == <<log, meta, txn, raft, reader>>

----------------------------------------------------------------------------
(* get_log_state and read_vote *)

NextIndex(id) == IF id = None THEN 0 ELSE id.index + 1

LogIdAt(table, i) == DecodeEntry(table[i]).log_id

LastPurged(keys) ==
    IF keys.last_purged = None THEN None ELSE DecodeLogId(keys.last_purged)

\* Mutant of LastLogId: the id of an empty log is forgotten.
LastLogIdPresent(table, keys) ==
    IF DOMAIN table = {} THEN None ELSE LogIdAt(table, Max(DOMAIN table))

LastLogId(table, keys) ==
    IF DOMAIN table = {} THEN LastPurged(keys) ELSE LogIdAt(table, Max(DOMAIN table))

ReadVote(keys) == IF keys.vote = None THEN None ELSE DecodeVote(keys.vote)

\* What openraft holds after it has read these tables.
StateOf(table, keys) ==
    [up |-> TRUE, purged |-> LastPurged(keys), last |-> LastLogId(table, keys),
     vote |-> ReadVote(keys), ids |-> [i \in DOMAIN table |-> LogIdAt(table, i)]]

Down == [up |-> FALSE]

WalInit ==
    /\ log = <<>>
    /\ meta = [last_purged |-> None, vote |-> None]
    /\ txn = None
    /\ raft = Down
    /\ reader = None

\* RaftLog::open, and openraft reads the state of its storage.
Open ==
    /\ ~raft.up
    /\ raft' = StateOf(log, meta)
    /\ UNCHANGED <<log, meta, txn, reader>>

----------------------------------------------------------------------------
(* write transactions; openraft makes one call at a time *)

\* A transaction with this content; `after` is openraft's state once it returns.
Begin(table, keys, after) ==
    /\ raft.up
    /\ txn = None
    /\ txn' = [log |-> table, meta |-> keys, after |-> after, committed |-> FALSE]
    /\ UNCHANGED <<log, meta, raft, reader>>

\* The entries openraft may append: one per index, after the last, of terms that
\* do not decrease and that it has voted for.
Appendable(batch) ==
    /\ raft.up /\ raft.vote # None
    /\ DOMAIN batch # {}
    /\ \E hi \in 0..MaxIndex : DOMAIN batch = NextIndex(raft.last)..hi
    /\ \A i \in DOMAIN batch :
         /\ batch[i].index = i
         /\ batch[i].term <= raft.vote.term
         /\ raft.last # None => raft.last.term <= batch[i].term
         /\ \A j \in DOMAIN batch : i <= j => batch[i].term <= batch[j].term

\* append_inner: every record is inserted at its index.
Inserted(table, batch) ==
    [i \in DOMAIN table \cup DOMAIN batch |->
        IF i \in DOMAIN batch THEN EncodeEntry(Entries[batch[i]]) ELSE table[i]]

BeginAppend(batch) ==
    /\ Appendable(batch)
    /\ Begin(Inserted(log, batch), meta,
             [raft EXCEPT !.last = batch[Max(DOMAIN batch)],
                          !.ids = [i \in DOMAIN raft.ids \cup DOMAIN batch |->
                                      IF i \in DOMAIN batch THEN batch[i] ELSE raft.ids[i]]])

Without(table, gone) == Restrict(table, DOMAIN table \ gone)

\* truncate: the records from the index on are removed.
BeginTruncate(index) ==
    /\ raft.up /\ index \in DOMAIN raft.ids
    /\ Begin(Without(log, {i \in DOMAIN log : i >= index}), meta,
             [raft EXCEPT !.last = IF index > NextIndex(raft.purged)
                                   THEN raft.ids[index - 1] ELSE raft.purged,
                          !.ids = Without(@, {i \in DOMAIN @ : i >= index})])

\* What openraft may purge: up to an entry it has, or up to a snapshot it was
\* sent that is ahead of its log.
Purgeable(id) ==
    /\ raft.up /\ raft.vote # None
    /\ \/ id.index \in DOMAIN raft.ids /\ raft.ids[id.index] = id
       \/ /\ NextIndex(raft.last) <= id.index
          /\ id.term <= raft.vote.term
          /\ raft.last # None => raft.last.term <= id.term

\* purge: the records up to the index are removed and the id is kept.
BeginPurge(id) ==
    /\ Purgeable(id)
    /\ Begin(Without(log, {i \in DOMAIN log : i <= id.index}),
             [meta EXCEPT !.last_purged = EncodeLogId(id)],
             [raft EXCEPT !.purged = id,
                          !.last = IF NextIndex(@) <= id.index THEN id ELSE @,
                          !.ids = Without(@, {i \in DOMAIN @ : i <= id.index})])

\* Votes of one term by one node, or of a later one; committed comes last.
Higher(v, w) ==
    \/ v.term > w.term
    \/ v.term = w.term /\ v.node > w.node
    \/ v.term = w.term /\ v.node = w.node /\ v.committed /\ ~w.committed

BeginSaveVote(v) ==
    /\ raft.up
    /\ raft.vote # None => Higher(v, raft.vote)
    /\ Begin(log, [meta EXCEPT !.vote = EncodeVote(v)], [raft EXCEPT !.vote = v])

\* Mutant of WalCommit: the tables are two transactions, and one may be lost.
CommitLogOnly ==
    /\ txn # None /\ ~txn.committed
    /\ log' = txn.log
    /\ meta' \in {meta, txn.meta}
    /\ txn' = [txn EXCEPT !.committed = TRUE]
    /\ UNCHANGED <<raft, reader>>

\* txn.commit with Durability::Immediate.
WalCommit ==
    /\ txn # None /\ ~txn.committed
    /\ log' = txn.log
    /\ meta' = txn.meta
    /\ txn' = [txn EXCEPT !.committed = TRUE]
    /\ UNCHANGED <<raft, reader>>

\* The call returns; an append has run its callback.
Acknowledge ==
    /\ txn # None /\ txn.committed
    /\ raft' = txn.after
    /\ txn' = None
    /\ UNCHANGED <<log, meta, reader>>

\* An error of a transaction, or of its commit, after which nobody knows whether
\* it is on disk: openraft stops for good.
WriteFails ==
    /\ txn # None /\ ~txn.committed
    /\ \/ UNCHANGED <<log, meta>>
       \/ log' = txn.log /\ meta' = txn.meta
    /\ txn' = None
    /\ raft' = Down
    /\ reader' = None

WalCrash ==
    /\ raft.up
    /\ txn' = None
    /\ raft' = Down
    /\ reader' = None
    /\ UNCHANGED <<log, meta>>

----------------------------------------------------------------------------
(* try_get_log_entries, from a handle without the lock *)

ReadBegin(lo, hi) ==
    /\ raft.up
    /\ reader = None
    /\ reader' = [table |-> log, next |-> lo, end |-> hi, out |-> <<>>]
    /\ UNCHANGED <<log, meta, txn, raft>>

\* The next row of the range, in a table.
Row(table) == {i \in DOMAIN table : reader.next <= i /\ i < reader.end}

\* Mutant of ReadRow: the row is read from the table as it is now.
ReadRowNow ==
    /\ reader # None
    /\ Row(log) # {}
    /\ LET i == Min(Row(log))
       IN  reader' = [reader EXCEPT !.next = i + 1, !.out = Append(@, LogIdAt(log, i))]
    /\ UNCHANGED <<log, meta, txn, raft>>

ReadRow ==
    /\ reader # None
    /\ Row(reader.table) # {}
    /\ LET i == Min(Row(reader.table))
       IN  reader' = [reader EXCEPT !.next = i + 1,
                                    !.out = Append(@, LogIdAt(reader.table, i))]
    /\ UNCHANGED <<log, meta, txn, raft>>

ReadEnd ==
    /\ reader # None
    /\ Row(reader.table) = {}
    /\ reader' = None
    /\ UNCHANGED <<log, meta, txn, raft>>

WalNext ==
    \/ Open
    \/ /\ txn = None
       /\ \E lo \in 0..MaxIndex : \E hi \in lo..MaxIndex :
            \E batch \in [lo..hi -> LogIds] : BeginAppend(batch)
    \/ \E i \in 0..MaxIndex : BeginTruncate(i)
    \/ \E id \in LogIds : BeginPurge(id)
    \/ \E v \in Votes : BeginSaveVote(v)
    \/ WalCommit
    \/ Acknowledge
    \/ WriteFails
    \/ WalCrash
    \/ \E lo, hi \in 0..(MaxIndex + 1) : lo < hi /\ ReadBegin(lo, hi)
    \/ ReadRow
    \/ ReadEnd

WalSpec == WalInit /\ [][WalNext]_walVars

----------------------------------------------------------------------------
(* properties *)

\* Every variable has the shape the code gives it.
WalTypeOK ==
    /\ log \in Tables
    /\ meta \in Metas
    /\ txn \in {None} \cup Transactions
    /\ raft \in {Down} \cup Views
    /\ txn # None => raft.up
    /\ reader # None =>
         /\ raft.up
         /\ reader.table \in Tables

\* The log has no hole: the table holds exactly the indexes between the purged
\* id and the last one, each record under its own index, however truncations,
\* purges ahead of the log, failed transactions and restarts follow one another
\* (append_inner, truncate, purge and get_log_state rely on each other for it).
Contiguous ==
    /\ DOMAIN log = {i \in 0..MaxIndex : /\ NextIndex(LastPurged(meta)) <= i
                                         /\ i < NextIndex(LastLogId(log, meta))}
    /\ \A i \in DOMAIN log : LogIdAt(log, i).index = i

\* "a command acknowledged to a client is already on disk" (log_store.rs 6): what
\* openraft holds in memory is what it would read back after a crash now, and
\* while a committed call has not returned, what it will hold.
AcknowledgedIsDurable ==
    raft.up => StateOf(log, meta) = IF txn # None /\ txn.committed THEN txn.after ELSE raft

\* A read without the lock returns adjacent entries of one log, with terms that
\* do not decrease, whatever is truncated, appended or purged meanwhile.
ReadsOneLog ==
    reader # None =>
        \A k \in 1..(Len(reader.out) - 1) :
            /\ reader.out[k + 1].index = reader.out[k].index + 1
            /\ reader.out[k + 1].term >= reader.out[k].term

\* The records of which no proper part and no continuation decodes.
WholeRecords ==
    {words \in Records :
        /\ \A n \in 0..(Len(words) - 1) : DecodeEntry(SubSeq(words, 1, n)) = Corrupt
        /\ DecodeEntry(Append(words, 0)) = Corrupt}

\* A record that was cut short or that has something after it does not decode
\* ("a truncated or corrupt record", codec.rs 29-30).
OnlyWholeRecordsDecode == \A i \in DOMAIN log : log[i] \in WholeRecords
=============================================================================
