------------------------ MODULE WriteAheadLogProofs ------------------------
(***************************************************************************)
(* Proofs about WriteAheadLog, for any log ids, votes and number of        *)
(* indexes.  The codec enters only through the assumption LogConstants.    *)
(***************************************************************************)
EXTENDS WriteAheadLog, WellFoundedInduction, TLAPS

----------------------------------------------------------------------------
(* partial functions and log ids *)

LEMMA PartialType ==
    ASSUME NEW S, NEW f \in Partial(S)
    PROVE  DOMAIN f \subseteq 0..MaxIndex /\ f \in [DOMAIN f -> S]
BY DEF Partial

LEMMA PartialIntro ==
    ASSUME NEW S, NEW D \in SUBSET (0..MaxIndex), NEW f \in [D -> S]
    PROVE  f \in Partial(S)
BY DEF Partial

LEMMA NextIndexType ==
    ASSUME NEW id \in Ids
    PROVE  NextIndex(id) \in Nat /\ NextIndex(id) <= MaxIndex + 1
BY LogConstants DEF Ids, NextIndex

\* A table of records says which ids it holds.
LEMMA RecordIds ==
    ASSUME NEW table \in Tables, NEW i \in DOMAIN table
    PROVE  LogIdAt(table, i) \in LogIds /\ table[i] = EncodeEntry(Entries[LogIdAt(table, i)])
<1>1. table[i] \in Records
  BY PartialType DEF Tables
<1>2. PICK id \in LogIds : table[i] = EncodeEntry(Entries[id])
  BY <1>1 DEF Records
<1>3. LogIdAt(table, i) = id
  BY <1>2, LogConstants DEF LogIdAt
<1> QED
  BY <1>2, <1>3

----------------------------------------------------------------------------
(* the inductive invariant *)

\* A state of openraft without holes.
WellFormed(v) ==
    /\ v \in Views
    /\ NextIndex(v.purged) <= NextIndex(v.last)
    /\ DOMAIN v.ids = {i \in 0..MaxIndex : NextIndex(v.purged) <= i /\ i < NextIndex(v.last)}
    /\ \A i \in DOMAIN v.ids : v.ids[i].index = i
    /\ \A i, j \in DOMAIN v.ids : i <= j => v.ids[i].term <= v.ids[j].term
    /\ DOMAIN v.ids = {} => v.last = v.purged
    /\ DOMAIN v.ids # {} => v.last # None /\ v.ids[v.last.index] = v.last

\* The tables hold this state.
Represents(table, keys, v) ==
    /\ table \in Tables
    /\ keys \in Metas
    /\ DOMAIN table = DOMAIN v.ids
    /\ \A i \in DOMAIN table : LogIdAt(table, i) = v.ids[i]
    /\ LastPurged(keys) = v.purged
    /\ ReadVote(keys) = v.vote

\* A well-formed state is what is read back from its tables.
LEMMA Determined ==
    ASSUME NEW table, NEW keys, NEW v, WellFormed(v), Represents(table, keys, v)
    PROVE  StateOf(table, keys) = v
<1>1. v \in Views /\ v.ids \in [DOMAIN v.ids -> LogIds] /\ DOMAIN v.ids \subseteq 0..MaxIndex
  BY PartialType DEF WellFormed, Views
<1>2. [i \in DOMAIN table |-> LogIdAt(table, i)] = v.ids
  BY <1>1 DEF Represents
<1>3. LastLogId(table, keys) = v.last
  <2>1. CASE DOMAIN table = {}
    BY <2>1 DEF LastLogId, Represents, WellFormed
  <2>2. CASE DOMAIN table # {}
    <3>1. v.last \in LogIds /\ v.last.index \in Nat
      BY <1>1, <2>2, LogConstants DEF WellFormed, Represents, Views, Ids
    <3>2. NextIndex(v.last) = v.last.index + 1
      BY <3>1, LogConstants DEF NextIndex
    <3>3. \A i \in DOMAIN table : i <= v.last.index
      BY <1>1, <3>1, <3>2 DEF WellFormed, Represents
    <3>4. v.last.index \in DOMAIN table
      <4>1. PICK i \in DOMAIN table : i \in 0..MaxIndex /\ NextIndex(v.purged) <= i /\ i <= v.last.index
        BY <1>1, <2>2, <3>3 DEF WellFormed, Represents
      <4>2. NextIndex(v.purged) <= v.last.index /\ v.last.index \in 0..MaxIndex
        BY <1>1, <3>1, <4>1, NextIndexType, LogConstants DEF Views
      <4> QED
        BY <3>1, <3>2, <4>2 DEF WellFormed, Represents
    <3>5. Max(DOMAIN table) = v.last.index
      <4>1. \A i \in DOMAIN table : i \in Nat
        BY <1>1 DEF Represents
      <4>2. \A x \in DOMAIN table : (\A y \in DOMAIN table : x >= y) => x = v.last.index
        BY <3>3, <3>4, <4>1
      <4>3. \A y \in DOMAIN table : v.last.index >= y
        BY <3>3, <4>1, <3>1
      <4> QED
        BY <3>4, <4>2, <4>3 DEF Max
    <3> QED
      BY <2>2, <3>4, <3>5 DEF LastLogId, Represents, WellFormed
  <2> QED
    BY <2>1, <2>2
<1> QED
  BY <1>1, <1>2, <1>3 DEF StateOf, Represents, Views

----------------------------------------------------------------------------
(* every call of openraft stages a state without holes *)

Staged(t) == WellFormed(t.after) /\ Represents(t.log, t.meta, t.after)

LEMMA AppendStages ==
    ASSUME WellFormed(raft), Represents(log, meta, raft),
           NEW lo \in 0..MaxIndex, NEW hi \in lo..MaxIndex,
           NEW batch \in [lo..hi -> LogIds], BeginAppend(batch)
    PROVE  Staged(txn')
<1> DEFINE ids == [i \in DOMAIN raft.ids \cup DOMAIN batch |->
                      IF i \in DOMAIN batch THEN batch[i] ELSE raft.ids[i]]
           table == Inserted(log, batch)
           last == batch[Max(DOMAIN batch)]
<1>1. /\ txn'.after = [raft EXCEPT !.last = last, !.ids = ids]
      /\ txn'.log = table /\ txn'.meta = meta
  BY DEF BeginAppend, Begin
<1>2. /\ raft \in Views /\ raft.ids \in [DOMAIN raft.ids -> LogIds]
      /\ DOMAIN raft.ids \subseteq 0..MaxIndex
      /\ DOMAIN batch = lo..hi /\ lo \in Nat /\ hi \in Nat /\ lo <= hi
  <2>1. raft \in Views /\ raft.ids \in Partial(LogIds)
    BY DEF WellFormed, Views
  <2>2. DOMAIN batch = lo..hi /\ lo \in Nat /\ hi \in Nat /\ lo <= hi
    BY LogConstants
  <2> QED
    BY <2>1, <2>2, PartialType
<1>3. lo = NextIndex(raft.last) /\ raft.last \in Ids
  <2>1. PICK h \in 0..MaxIndex : lo..hi = NextIndex(raft.last)..h
    BY <1>2 DEF BeginAppend, Appendable
  <2>2. NextIndex(raft.last) \in Nat /\ raft.last \in Ids
    BY <1>2, NextIndexType DEF Views
  <2> QED
    BY <1>2, <2>1, <2>2
<1>4. Max(DOMAIN batch) = hi
  <2>1. hi \in DOMAIN batch /\ \A i \in DOMAIN batch : i \in Nat /\ hi >= i
    BY <1>2
  <2>2. ASSUME NEW x \in DOMAIN batch, \A y \in DOMAIN batch : x >= y
        PROVE  x = hi
    <3>1. x >= hi /\ hi >= x /\ x \in Nat
      BY <2>1, <2>2
    <3> QED
      BY <1>2, <3>1
  <2> QED
    BY <2>1, <2>2 DEF Max
<1>5. last \in LogIds /\ last.index = hi /\ last # None /\ NextIndex(last) = hi + 1
  <2>1. hi \in DOMAIN batch
    BY <1>2
  <2> QED
    BY <1>2, <1>4, <2>1, LogConstants DEF BeginAppend, Appendable, NextIndex
<1>6. DOMAIN raft.ids \cup DOMAIN batch =
         {i \in 0..MaxIndex : NextIndex(raft.purged) <= i /\ i < NextIndex(last)}
  <2>1. NextIndex(raft.purged) \in Nat /\ NextIndex(raft.purged) <= lo
    BY <1>2, <1>3, NextIndexType DEF WellFormed, Views
  <2>2. DOMAIN raft.ids = {i \in 0..MaxIndex : NextIndex(raft.purged) <= i /\ i < lo}
    BY <1>3 DEF WellFormed
  <2> HIDE DEF last
  <2> QED
    BY <1>2, <1>5, <2>1, <2>2, LogConstants
<1>7. ids \in Partial(LogIds)
  BY <1>2, <1>6, PartialIntro
<1>8. \A i \in DOMAIN ids : ids[i].index = i
  BY <1>2 DEF WellFormed, BeginAppend, Appendable
<1>9. \A i, j \in DOMAIN ids : i <= j => ids[i].term <= ids[j].term
  <2> SUFFICES ASSUME NEW i \in DOMAIN ids, NEW j \in DOMAIN ids, i <= j
               PROVE  ids[i].term <= ids[j].term
    OBVIOUS
  <2>1. CASE i \in DOMAIN batch /\ j \in DOMAIN batch
    BY <2>1 DEF BeginAppend, Appendable
  <2>2. CASE i \notin DOMAIN batch /\ j \notin DOMAIN batch
    BY <2>2 DEF WellFormed
  <2>3. CASE i \in DOMAIN batch /\ j \notin DOMAIN batch
    <3>1. j \in DOMAIN raft.ids /\ j < lo
      BY <1>3, <2>3 DEF WellFormed
    <3> QED
      BY <1>2, <2>3, <3>1
  <2>4. CASE i \notin DOMAIN batch /\ j \in DOMAIN batch
    <3>1. i \in DOMAIN raft.ids /\ raft.last # None /\ raft.ids[raft.last.index] = raft.last
      BY <2>4 DEF WellFormed
    <3>2. raft.last \in LogIds /\ raft.last.index \in 0..MaxIndex /\ lo = raft.last.index + 1
      BY <1>3, <3>1, LogConstants DEF Ids, NextIndex
    <3>3. i <= raft.last.index /\ raft.last.index \in DOMAIN raft.ids
      <4>1. i < lo /\ NextIndex(raft.purged) <= i /\ i \in 0..MaxIndex
        BY <1>3, <3>1 DEF WellFormed
      <4>2. NextIndex(raft.purged) \in Nat
        BY <1>2, NextIndexType DEF Views
      <4>3. NextIndex(raft.purged) <= raft.last.index /\ raft.last.index < NextIndex(raft.last)
        BY <1>3, <3>2, <4>1, <4>2
      <4> QED
        BY <3>2, <4>1, <4>3 DEF WellFormed
    <3>4. raft.ids[i].term <= raft.last.term /\ raft.last.term <= batch[j].term
      BY <2>4, <3>1, <3>3 DEF WellFormed, BeginAppend, Appendable
    <3>5. raft.ids[i].term \in Nat /\ raft.last.term \in Nat /\ batch[j].term \in Nat
      BY <1>2, <2>4, <3>1, <3>2, LogConstants
    <3> QED
      BY <2>4, <3>4, <3>5
  <2> QED
    BY <2>1, <2>2, <2>3, <2>4
<1>10. DOMAIN ids # {} /\ ids[last.index] = last
  BY <1>2, <1>4, <1>5
<1>11. txn'.after \in Views /\ NextIndex(raft.purged) <= NextIndex(last)
  <2>1. txn'.after \in Views
    <3> HIDE DEF ids, last
    <3> QED
      BY <1>1, <1>2, <1>5, <1>7 DEF Views, Ids
  <2>2. NextIndex(raft.purged) \in Nat /\ NextIndex(raft.purged) <= lo
    BY <1>2, <1>3, NextIndexType DEF WellFormed, Views
  <2> QED
    BY <1>2, <1>5, <2>1, <2>2
<1>12. /\ txn'.after.purged = raft.purged /\ txn'.after.last = last
       /\ txn'.after.ids = ids /\ txn'.after.vote = raft.vote
  BY <1>1, <1>2 DEF Views
<1>13. WellFormed(txn'.after)
  <2>1. DOMAIN ids = DOMAIN raft.ids \cup DOMAIN batch
    OBVIOUS
  <2> HIDE DEF ids, last
  <2> QED
    BY <1>5, <1>6, <1>8, <1>9, <1>10, <1>11, <1>12, <2>1 DEF WellFormed
<1>14. table \in Tables
  <2>1. \A i \in DOMAIN batch : EncodeEntry(Entries[batch[i]]) \in Records
    BY DEF Records
  <2>2. log \in [DOMAIN log -> Records] /\ DOMAIN log = DOMAIN raft.ids
    BY PartialType DEF Represents, Tables
  <2>3. table \in [DOMAIN log \cup DOMAIN batch -> Records]
    BY <2>1, <2>2 DEF Inserted
  <2>4. DOMAIN log \cup DOMAIN batch \subseteq 0..MaxIndex
    BY <1>2, <2>2, LogConstants
  <2> QED
    BY <2>3, <2>4, PartialIntro DEF Tables
<1>15. /\ DOMAIN table = DOMAIN ids
       /\ \A i \in DOMAIN table : LogIdAt(table, i) = ids[i]
  <2>1. DOMAIN log = DOMAIN raft.ids /\ \A i \in DOMAIN log : LogIdAt(log, i) = raft.ids[i]
    BY DEF Represents
  <2>2. \A i \in DOMAIN batch : LogIdAt(table, i) = batch[i]
    BY LogConstants DEF LogIdAt, Inserted
  <2>3. \A i \in DOMAIN log \ DOMAIN batch : LogIdAt(table, i) = LogIdAt(log, i)
    BY DEF LogIdAt, Inserted
  <2> QED
    BY <2>1, <2>2, <2>3 DEF Inserted
<1>16. Represents(txn'.log, txn'.meta, txn'.after)
  BY <1>1, <1>12, <1>14, <1>15 DEF Represents
<1> QED
  BY <1>13, <1>16 DEF Staged

\* Removing the same indexes from the table and from the ids.
LEMMA WithoutKeeps ==
    ASSUME NEW v, WellFormed(v), NEW table, NEW keys, Represents(table, keys, v), NEW gone
    PROVE  /\ Without(table, gone) \in Tables
           /\ Without(v.ids, gone) \in Partial(LogIds)
           /\ DOMAIN Without(table, gone) = DOMAIN v.ids \ gone
           /\ DOMAIN Without(v.ids, gone) = DOMAIN v.ids \ gone
           /\ \A i \in DOMAIN v.ids \ gone :
                /\ Without(v.ids, gone)[i] = v.ids[i]
                /\ LogIdAt(Without(table, gone), i) = v.ids[i]
<1>1. /\ v.ids \in [DOMAIN v.ids -> LogIds] /\ DOMAIN v.ids \subseteq 0..MaxIndex
      /\ table \in [DOMAIN table -> Records] /\ DOMAIN table = DOMAIN v.ids
  BY PartialType DEF WellFormed, Views, Represents, Tables
<1>2. /\ Without(v.ids, gone) \in [DOMAIN v.ids \ gone -> LogIds]
      /\ Without(table, gone) \in [DOMAIN v.ids \ gone -> Records]
  BY <1>1 DEF Without, Restrict
<1>3. \A i \in DOMAIN v.ids \ gone :
         /\ Without(v.ids, gone)[i] = v.ids[i]
         /\ Without(table, gone)[i] = table[i]
  BY <1>1 DEF Without, Restrict
<1>4. DOMAIN v.ids \ gone \in SUBSET (0..MaxIndex)
  BY <1>1
<1> QED
  BY <1>1, <1>2, <1>3, <1>4, PartialIntro DEF Tables, LogIdAt, Represents

LEMMA TruncateStages ==
    ASSUME WellFormed(raft), Represents(log, meta, raft),
           NEW index \in 0..MaxIndex, BeginTruncate(index)
    PROVE  Staged(txn')
<1> DEFINE gone == {i \in DOMAIN raft.ids : i >= index}
           ids == Without(raft.ids, gone)
           table == Without(log, gone)
           last == IF index > NextIndex(raft.purged) THEN raft.ids[index - 1] ELSE raft.purged
<1>1. /\ txn'.after = [raft EXCEPT !.last = last, !.ids = ids]
      /\ txn'.log = table /\ txn'.meta = meta
  <2>1. DOMAIN log = DOMAIN raft.ids
    BY DEF Represents
  <2> QED
    BY <2>1 DEF BeginTruncate, Begin
<1>2. /\ raft \in Views /\ index \in DOMAIN raft.ids /\ index \in Nat
      /\ NextIndex(raft.purged) \in Nat /\ NextIndex(raft.purged) <= index
      /\ raft.ids \in [DOMAIN raft.ids -> LogIds]
  <2>1. raft \in Views /\ raft.ids \in Partial(LogIds) /\ raft.purged \in Ids
    BY DEF WellFormed, Views
  <2>2. index \in DOMAIN raft.ids
    BY DEF BeginTruncate
  <2>3. NextIndex(raft.purged) <= index
    BY <2>2 DEF WellFormed
  <2>4. raft.ids \in [DOMAIN raft.ids -> LogIds]
    BY <2>1, PartialType
  <2>5. NextIndex(raft.purged) \in Nat /\ index \in Nat
    BY <2>1, NextIndexType
  <2> QED
    BY <2>1, <2>2, <2>3, <2>4, <2>5
<1>3. DOMAIN ids = {i \in 0..MaxIndex : NextIndex(raft.purged) <= i /\ i < index}
  <2>1. DOMAIN ids = DOMAIN raft.ids \ gone
    BY WithoutKeeps
  <2>2. index < NextIndex(raft.last) /\ NextIndex(raft.last) \in Nat
    BY <1>2, NextIndexType DEF WellFormed, Views
  <2>3. \A i \in 0..MaxIndex : i \in DOMAIN raft.ids \ gone <=> NextIndex(raft.purged) <= i /\ i < index
    BY <1>2, <2>2 DEF WellFormed
  <2>4. DOMAIN raft.ids \subseteq 0..MaxIndex
    BY DEF WellFormed
  <2> HIDE DEF ids, gone
  <2> QED
    BY <2>1, <2>3, <2>4
<1>4. /\ ids \in Partial(LogIds) /\ table \in Tables /\ DOMAIN table = DOMAIN ids
      /\ DOMAIN ids \subseteq DOMAIN raft.ids
      /\ \A i \in DOMAIN ids : ids[i] = raft.ids[i] /\ LogIdAt(table, i) = ids[i]
  <2>1. /\ Without(log, gone) \in Tables
        /\ Without(raft.ids, gone) \in Partial(LogIds)
        /\ DOMAIN Without(log, gone) = DOMAIN raft.ids \ gone
        /\ DOMAIN Without(raft.ids, gone) = DOMAIN raft.ids \ gone
        /\ \A i \in DOMAIN raft.ids \ gone :
             /\ Without(raft.ids, gone)[i] = raft.ids[i]
             /\ LogIdAt(Without(log, gone), i) = raft.ids[i]
    <3> HIDE DEF gone
    <3> QED
      BY WithoutKeeps
  <2> HIDE DEF gone
  <2> QED
    BY <2>1
<1>5. /\ last \in Ids
      /\ NextIndex(last) = index
      /\ DOMAIN ids = {} => last = raft.purged
      /\ DOMAIN ids # {} => last # None /\ ids[last.index] = last
  <2>1. CASE index > NextIndex(raft.purged)
    <3>1. index - 1 \in DOMAIN ids
      <4>1. index - 1 \in 0..MaxIndex /\ NextIndex(raft.purged) <= index - 1 /\ index - 1 < index
        BY <1>2, <2>1, LogConstants
      <4> HIDE DEF ids
      <4> QED
        BY <1>3, <4>1
    <3>2. last = raft.ids[index - 1] /\ last \in LogIds /\ last.index = index - 1
      BY <1>2, <1>4, <2>1, <3>1 DEF WellFormed
    <3>3. ids[index - 1] = last
      BY <1>4, <3>1, <3>2
    <3> HIDE DEF ids, last
    <3> QED
      BY <1>2, <3>1, <3>2, <3>3, LogConstants DEF Ids, NextIndex
  <2>2. CASE ~(index > NextIndex(raft.purged))
    <3>1. DOMAIN ids = {} /\ index = NextIndex(raft.purged)
      <4> HIDE DEF ids
      <4> QED
        BY <1>2, <1>3, <2>2
    <3> QED
      BY <1>2, <2>2, <3>1 DEF Views
  <2> QED
    BY <2>1, <2>2
<1>6. /\ txn'.after \in Views
      /\ txn'.after.purged = raft.purged /\ txn'.after.last = last
      /\ txn'.after.ids = ids /\ txn'.after.vote = raft.vote
  <2>1. ids \in Partial(LogIds) /\ last \in Ids
    BY <1>4, <1>5
  <2> HIDE DEF ids, last
  <2> QED
    BY <1>1, <1>2, <2>1 DEF Views
<1>7. WellFormed(txn'.after)
  <2>1. \A i \in DOMAIN ids : ids[i].index = i
    BY <1>4 DEF WellFormed
  <2>2. \A i, j \in DOMAIN ids : i <= j => ids[i].term <= ids[j].term
    BY <1>4 DEF WellFormed
  <2> HIDE DEF ids, last
  <2> QED
    BY <1>2, <1>3, <1>5, <1>6, <2>1, <2>2 DEF WellFormed
<1> QED
  BY <1>1, <1>4, <1>6, <1>7 DEF Staged, Represents

LEMMA PurgeStages ==
    ASSUME WellFormed(raft), Represents(log, meta, raft),
           NEW id \in LogIds, BeginPurge(id)
    PROVE  Staged(txn')
<1> DEFINE gone == {i \in DOMAIN raft.ids : i <= id.index}
           ids == Without(raft.ids, gone)
           table == Without(log, gone)
           keys == [meta EXCEPT !.last_purged = EncodeLogId(id)]
           last == IF NextIndex(raft.last) <= id.index THEN id ELSE raft.last
<1>1. /\ txn'.after = [raft EXCEPT !.purged = id, !.last = last, !.ids = ids]
      /\ txn'.log = table /\ txn'.meta = keys
  <2>1. DOMAIN log = DOMAIN raft.ids
    BY DEF Represents
  <2> QED
    BY <2>1 DEF BeginPurge, Begin
<1>2. /\ raft \in Views /\ raft.last \in Ids /\ NextIndex(raft.last) \in Nat
      /\ NextIndex(raft.purged) \in Nat /\ DOMAIN raft.ids \subseteq 0..MaxIndex
      /\ id.index \in 0..MaxIndex /\ NextIndex(id) = id.index + 1 /\ id # None
  <2>1. raft \in Views /\ raft.ids \in Partial(LogIds) /\ raft.purged \in Ids /\ raft.last \in Ids
    BY DEF WellFormed, Views
  <2>2. id.index \in 0..MaxIndex /\ id # None
    BY LogConstants
  <2> QED
    BY <2>1, <2>2, PartialType, NextIndexType DEF NextIndex
<1>3. NextIndex(raft.purged) <= id.index
  <2>1. CASE id.index \in DOMAIN raft.ids
    BY <2>1 DEF WellFormed
  <2>2. CASE NextIndex(raft.last) <= id.index
    BY <1>2, <2>2 DEF WellFormed
  <2> QED
    BY <2>1, <2>2 DEF BeginPurge, Purgeable
<1>4. /\ ids \in Partial(LogIds) /\ table \in Tables /\ DOMAIN table = DOMAIN ids
      /\ DOMAIN ids = DOMAIN raft.ids \ gone
      /\ \A i \in DOMAIN ids : ids[i] = raft.ids[i] /\ LogIdAt(table, i) = ids[i]
  <2>1. /\ Without(log, gone) \in Tables
        /\ Without(raft.ids, gone) \in Partial(LogIds)
        /\ DOMAIN Without(log, gone) = DOMAIN raft.ids \ gone
        /\ DOMAIN Without(raft.ids, gone) = DOMAIN raft.ids \ gone
        /\ \A i \in DOMAIN raft.ids \ gone :
             /\ Without(raft.ids, gone)[i] = raft.ids[i]
             /\ LogIdAt(Without(log, gone), i) = raft.ids[i]
    <3> HIDE DEF gone
    <3> QED
      BY WithoutKeeps
  <2> HIDE DEF gone
  <2> QED
    BY <2>1
<1>5. last \in Ids /\ NextIndex(id) <= NextIndex(last)
  BY <1>2 DEF Ids
<1>6. DOMAIN ids = {i \in 0..MaxIndex : NextIndex(id) <= i /\ i < NextIndex(last)}
  <2>1. \A i \in 0..MaxIndex : i \in DOMAIN raft.ids <=>
           NextIndex(raft.purged) <= i /\ i < NextIndex(raft.last)
    BY DEF WellFormed
  <2>2. \A i \in 0..MaxIndex : i \in DOMAIN raft.ids \ gone <=>
           NextIndex(id) <= i /\ i < NextIndex(last)
    BY <1>2, <1>3, <2>1
  <2> HIDE DEF ids, gone, last
  <2> QED
    BY <1>2, <1>4, <2>2
<1>7. /\ DOMAIN ids = {} => last = id
      /\ DOMAIN ids # {} => last # None /\ ids[last.index] = last
  <2>1. CASE NextIndex(raft.last) <= id.index
    <3>1. DOMAIN ids = {}
      <4>1. last = id
        BY <2>1
      <4> HIDE DEF ids, last
      <4> QED
        BY <1>2, <1>6, <4>1
    <3> QED
      BY <2>1, <3>1
  <2>2. CASE ~(NextIndex(raft.last) <= id.index)
    <3>1. id.index \in DOMAIN raft.ids /\ raft.ids[id.index] = id
      BY <2>2 DEF BeginPurge, Purgeable
    <3>2. raft.last # None /\ raft.ids[raft.last.index] = raft.last /\ last = raft.last
      BY <2>2, <3>1 DEF WellFormed
    <3>3. raft.last.index \in 0..MaxIndex /\ NextIndex(raft.last) = raft.last.index + 1
      BY <1>2, <3>2, LogConstants DEF Ids, NextIndex
    <3>4. CASE raft.last.index = id.index
      BY <1>2, <1>6, <3>1, <3>2, <3>3, <3>4
    <3>5. CASE raft.last.index # id.index
      <4>1. raft.last.index \in DOMAIN ids
        BY <1>2, <1>6, <2>2, <3>2, <3>3, <3>5
      <4> QED
        BY <1>4, <3>2, <4>1
    <3> QED
      BY <3>4, <3>5
  <2> QED
    BY <2>1, <2>2
<1>8. /\ txn'.after \in Views
      /\ txn'.after.purged = id /\ txn'.after.last = last
      /\ txn'.after.ids = ids /\ txn'.after.vote = raft.vote
  <2>1. ids \in Partial(LogIds) /\ last \in Ids /\ id \in Ids
    BY <1>4, <1>5 DEF Ids
  <2> HIDE DEF ids, last
  <2> QED
    BY <1>1, <1>2, <2>1 DEF Views
<1>9. WellFormed(txn'.after)
  <2>1. \A i \in DOMAIN ids : ids[i].index = i
    BY <1>4 DEF WellFormed
  <2>2. \A i, j \in DOMAIN ids : i <= j => ids[i].term <= ids[j].term
    BY <1>4 DEF WellFormed
  <2> HIDE DEF ids, last
  <2> QED
    BY <1>5, <1>6, <1>7, <1>8, <2>1, <2>2 DEF WellFormed
<1>10. keys \in Metas /\ LastPurged(keys) = id /\ ReadVote(keys) = raft.vote
  BY LogConstants DEF Represents, Metas, LastPurged, ReadVote
<1> QED
  BY <1>1, <1>4, <1>8, <1>9, <1>10 DEF Staged, Represents

LEMMA VoteStages ==
    ASSUME WellFormed(raft), Represents(log, meta, raft),
           NEW v \in Votes, BeginSaveVote(v)
    PROVE  Staged(txn')
<1>1. /\ txn'.after = [raft EXCEPT !.vote = v]
      /\ txn'.log = log /\ txn'.meta = [meta EXCEPT !.vote = EncodeVote(v)]
  BY DEF BeginSaveVote, Begin
<1>2. /\ txn'.meta \in Metas /\ LastPurged(txn'.meta) = raft.purged /\ ReadVote(txn'.meta) = v
  BY <1>1, LogConstants DEF Represents, Metas, LastPurged, ReadVote
<1>3. /\ txn'.after \in Views /\ txn'.after.purged = raft.purged
      /\ txn'.after.last = raft.last /\ txn'.after.ids = raft.ids /\ txn'.after.vote = v
  BY <1>1 DEF WellFormed, Views
<1> QED
  BY <1>1, <1>2, <1>3 DEF Staged, WellFormed, Represents

----------------------------------------------------------------------------
(* the invariant of the tables *)

\* The tables hold a state without holes, openraft's own or the one it is about
\* to learn of, and so does the transaction in progress.
LogInv ==
    /\ WellFormed(StateOf(log, meta))
    /\ Represents(log, meta, StateOf(log, meta))
    /\ raft = Down \/ raft \in Views
    /\ AcknowledgedIsDurable
    /\ txn # None => txn \in Transactions /\ raft.up /\ Staged(txn)
    /\ reader # None => raft.up /\ reader.table \in Tables

LEMMA LogInvInit == WalInit => LogInv
<1> SUFFICES ASSUME WalInit PROVE LogInv
  OBVIOUS
<1>1. DOMAIN log = {} /\ log \in Tables
  <2>1. DOMAIN log = {} /\ log \in [{} -> Records]
    BY DEF WalInit
  <2> QED
    BY <2>1, PartialIntro DEF Tables
<1>2. meta \in Metas /\ LastPurged(meta) = None /\ ReadVote(meta) = None
  BY DEF WalInit, Metas, LastPurged, ReadVote
<1> DEFINE empty == [i \in DOMAIN log |-> LogIdAt(log, i)]
<1>3. empty \in Partial(LogIds) /\ DOMAIN empty = {}
  <2>1. empty \in [{} -> LogIds]
    BY <1>1
  <2> QED
    BY <2>1, PartialIntro
<1>4. StateOf(log, meta) =
         [up |-> TRUE, purged |-> None, last |-> None, vote |-> None, ids |-> empty]
  BY <1>1, <1>2 DEF StateOf, LastLogId
<1>5. WellFormed(StateOf(log, meta))
  <2> HIDE DEF empty
  <2>1. StateOf(log, meta) \in Views
    BY <1>3, <1>4 DEF Views, Ids
  <2> QED
    BY <1>3, <1>4, <2>1 DEF WellFormed, NextIndex
<1>6. Represents(log, meta, StateOf(log, meta))
  BY <1>1, <1>2, <1>4 DEF Represents
<1> QED
  BY <1>5, <1>6 DEF WalInit, LogInv, AcknowledgedIsDurable, Down

\* A call that stages a good state keeps the invariant.
LEMMA BeginKeeps ==
    ASSUME LogInv, NEW table, NEW keys, NEW after, Begin(table, keys, after), Staged(txn')
    PROVE  LogInv'
<1>1. txn' = [log |-> table, meta |-> keys, after |-> after, committed |-> FALSE]
  BY DEF Begin
<1>2. txn' \in Transactions
  <2>1. table \in Tables /\ keys \in Metas /\ after \in Views
    BY <1>1 DEF Staged, WellFormed, Represents
  <2> QED
    BY <1>1, <2>1 DEF Transactions
<1>3. AcknowledgedIsDurable'
  BY <1>1 DEF Begin, LogInv, AcknowledgedIsDurable
<1> QED
  BY <1>2, <1>3 DEF Begin, LogInv

\* Whenever no call is in progress, the tables are openraft's state.
LEMMA IdleState ==
    ASSUME LogInv, raft.up, txn = None
    PROVE  WellFormed(raft) /\ Represents(log, meta, raft)
BY DEF LogInv, AcknowledgedIsDurable

LEMMA LogInvStep == LogInv /\ [WalNext]_walVars => LogInv'
<1> SUFFICES ASSUME LogInv, [WalNext]_walVars PROVE LogInv'
  OBVIOUS
<1>1. CASE Open
  <2>1. raft' = StateOf(log, meta) /\ raft' \in Views /\ txn = None
    BY <1>1 DEF Open, LogInv, WellFormed
  <2> QED
    BY <1>1, <2>1 DEF Open, LogInv, AcknowledgedIsDurable, Views
<1>2. ASSUME NEW lo \in 0..MaxIndex, NEW hi \in lo..MaxIndex,
             NEW batch \in [lo..hi -> LogIds], BeginAppend(batch)
      PROVE  LogInv'
  <2>1. raft.up /\ txn = None
    BY <1>2 DEF BeginAppend, Begin
  <2>2. Staged(txn')
    BY <1>2, <2>1, IdleState, AppendStages
  <2> QED
    BY <1>2, <2>2, BeginKeeps DEF BeginAppend
<1>3. ASSUME NEW i \in 0..MaxIndex, BeginTruncate(i) PROVE LogInv'
  <2>1. raft.up /\ txn = None
    BY <1>3 DEF BeginTruncate, Begin
  <2>2. Staged(txn')
    BY <1>3, <2>1, IdleState, TruncateStages
  <2> QED
    BY <1>3, <2>2, BeginKeeps DEF BeginTruncate
<1>4. ASSUME NEW id \in LogIds, BeginPurge(id) PROVE LogInv'
  <2>1. raft.up /\ txn = None
    BY <1>4 DEF BeginPurge, Begin
  <2>2. Staged(txn')
    BY <1>4, <2>1, IdleState, PurgeStages
  <2> QED
    BY <1>4, <2>2, BeginKeeps DEF BeginPurge
<1>5. ASSUME NEW v \in Votes, BeginSaveVote(v) PROVE LogInv'
  <2>1. raft.up /\ txn = None
    BY <1>5 DEF BeginSaveVote, Begin
  <2>2. Staged(txn')
    BY <1>5, <2>1, IdleState, VoteStages
  <2> QED
    BY <1>5, <2>2, BeginKeeps DEF BeginSaveVote
<1>6. ASSUME txn # None, log' = txn.log, meta' = txn.meta
      PROVE  /\ StateOf(log', meta') = txn.after
             /\ WellFormed(StateOf(log', meta'))
             /\ Represents(log', meta', StateOf(log', meta'))
  BY <1>6, Determined DEF LogInv, Staged
<1>7. CASE WalCommit
  <2>1. /\ txn \in Transactions /\ raft.up /\ Staged(txn)
        /\ txn' = [txn EXCEPT !.committed = TRUE]
    BY <1>7 DEF WalCommit, LogInv
  <2>2. txn' \in Transactions /\ txn'.committed /\ Staged(txn') /\ txn'.after = txn.after
    BY <2>1 DEF Transactions, Staged
  <2>3. txn' # None
    BY <2>2, LogConstants
  <2> QED
    BY <1>6, <1>7, <2>1, <2>2, <2>3 DEF WalCommit, LogInv, AcknowledgedIsDurable
<1>8. CASE Acknowledge
  <2>1. raft' = StateOf(log, meta) /\ raft' \in Views /\ raft'.up
    BY <1>8 DEF Acknowledge, LogInv, AcknowledgedIsDurable, Transactions, Views
  <2> QED
    BY <1>8, <2>1 DEF Acknowledge, LogInv, AcknowledgedIsDurable
<1>9. CASE WriteFails
  <2>1. WellFormed(StateOf(log', meta')) /\ Represents(log', meta', StateOf(log', meta'))
    BY <1>6, <1>9 DEF WriteFails, LogInv
  <2> QED
    BY <1>9, <2>1 DEF WriteFails, LogInv, AcknowledgedIsDurable, Down
<1>10. CASE WalCrash
  BY <1>10 DEF WalCrash, LogInv, AcknowledgedIsDurable, Down
<1>11. ASSUME NEW lo, NEW hi, ReadBegin(lo, hi) PROVE LogInv'
  <2>1. reader'.table = log /\ log \in Tables
    BY <1>11 DEF ReadBegin, LogInv, Represents
  <2> QED
    BY <1>11, <2>1 DEF ReadBegin, LogInv, AcknowledgedIsDurable
<1>12. CASE ReadRow
  <2>1. PICK i, o : reader' = [reader EXCEPT !.next = i, !.out = o]
    BY <1>12 DEF ReadRow
  <2>2. reader'.table = reader.table
    BY <2>1
  <2> QED
    BY <1>12, <2>2 DEF ReadRow, LogInv, AcknowledgedIsDurable
<1>13. CASE ReadEnd
  BY <1>13 DEF ReadEnd, LogInv, AcknowledgedIsDurable
<1>14. CASE UNCHANGED walVars
  BY <1>14 DEF walVars, LogInv, AcknowledgedIsDurable
<1> QED
  BY <1>1, <1>2, <1>3, <1>4, <1>5, <1>7, <1>8, <1>9, <1>10, <1>11, <1>12, <1>13, <1>14 DEF WalNext

----------------------------------------------------------------------------
(* theorems about the tables *)

LEMMA LogInvAlways == WalSpec => []LogInv
BY LogInvInit, LogInvStep, PTL DEF WalSpec

\* The tables, the transaction, openraft's state and the reader keep their types,
\* and no transaction or reader outlives the process.
THEOREM TypeCorrect == WalSpec => []WalTypeOK
<1>1. LogInv => WalTypeOK
  BY DEF LogInv, WalTypeOK, Represents
<1> QED
  BY <1>1, LogInvAlways, PTL

\* The log never has a hole, for any number of entries and any order of
\* truncations, purges, failures and restarts (append_inner, truncate, purge).
THEOREM LogHasNoHole == WalSpec => []Contiguous
<1>1. LogInv => Contiguous
  <2> SUFFICES ASSUME LogInv PROVE Contiguous
    OBVIOUS
  <2> DEFINE s == StateOf(log, meta)
  <2>1. /\ s.purged = LastPurged(meta) /\ s.last = LastLogId(log, meta)
        /\ DOMAIN s.ids = DOMAIN log /\ \A i \in DOMAIN log : s.ids[i] = LogIdAt(log, i)
    BY DEF StateOf
  <2> HIDE DEF s
  <2>2. WellFormed(s)
    BY DEF LogInv, s
  <2> QED
    BY <2>1, <2>2 DEF WellFormed, Contiguous
<1> QED
  BY <1>1, LogInvAlways, PTL

\* What openraft was told is on disk, at every step of every call (write_txn and
\* its commit with Durability::Immediate).
THEOREM AcknowledgedSurvives == WalSpec => []AcknowledgedIsDurable
<1>1. LogInv => AcknowledgedIsDurable
  BY DEF LogInv
<1> QED
  BY <1>1, LogInvAlways, PTL

----------------------------------------------------------------------------
(* a reader without the lock *)

\* A table without holes whose terms do not decrease.
OneLog(table) ==
    /\ table \in Tables
    /\ \A i \in DOMAIN table : LogIdAt(table, i).index = i
    /\ \A i, j \in DOMAIN table : i <= j => LogIdAt(table, i).term <= LogIdAt(table, j).term
    /\ \A i, j \in DOMAIN table : \A k \in 0..MaxIndex : i <= k /\ k <= j => k \in DOMAIN table

Readers == [table : Tables, next : Nat, end : Nat, out : Seq(LogIds)]

\* The last id that was read is the one before the next index.
ReaderInv ==
    reader # None =>
        /\ reader \in Readers
        /\ OneLog(reader.table)
        /\ Len(reader.out) > 0 =>
             /\ reader.next - 1 \in DOMAIN reader.table
             /\ reader.out[Len(reader.out)] = LogIdAt(reader.table, reader.next - 1)
        /\ ReadsOneLog

\* A non-empty set of indexes has a least element.
LEMMA LeastIndex ==
    ASSUME NEW S \in SUBSET Nat, S # {}
    PROVE  Min(S) \in S /\ \A y \in S : Min(S) <= y
<1>1. \E x \in S : \A y \in S : ~(<<y, x>> \in OpToRel(<, Nat))
  BY NatLessThanWellFounded, WFMin
<1>2. PICK x \in S : \A y \in S : ~(<<y, x>> \in OpToRel(<, Nat))
  BY <1>1
<1>3. \A y \in S : x <= y
  <2> SUFFICES ASSUME NEW y \in S PROVE ~(y < x)
    OBVIOUS
  <2>1. y < x => <<y, x>> \in OpToRel(<, Nat)
    BY DEF OpToRel
  <2> QED
    BY <1>2, <2>1
<1> QED
  BY <1>3 DEF Min

LEMMA LogIsOneLog == LogInv => OneLog(log)
<1> SUFFICES ASSUME LogInv PROVE OneLog(log)
  OBVIOUS
<1> DEFINE s == StateOf(log, meta)
<1>1. /\ DOMAIN s.ids = DOMAIN log /\ \A i \in DOMAIN log : s.ids[i] = LogIdAt(log, i)
  BY DEF StateOf
<1>2. WellFormed(s) /\ log \in Tables
  BY DEF LogInv, Represents
<1> HIDE DEF s
<1>3. /\ \A i \in DOMAIN log : LogIdAt(log, i).index = i
      /\ \A i, j \in DOMAIN log : i <= j => LogIdAt(log, i).term <= LogIdAt(log, j).term
  BY <1>1, <1>2 DEF WellFormed
<1>4. NextIndex(s.purged) \in Nat /\ NextIndex(s.last) \in Nat
  BY <1>2, NextIndexType DEF WellFormed, Views
<1>5. ASSUME NEW i \in DOMAIN log, NEW j \in DOMAIN log, NEW k \in 0..MaxIndex, i <= k, k <= j
      PROVE  k \in DOMAIN log
  <2>1. /\ i \in 0..MaxIndex /\ j \in 0..MaxIndex
        /\ NextIndex(s.purged) <= i /\ j < NextIndex(s.last)
    BY <1>1, <1>2 DEF WellFormed
  <2>2. NextIndex(s.purged) <= k /\ k < NextIndex(s.last)
    BY <1>4, <1>5, <2>1
  <2> QED
    BY <1>1, <1>2, <2>2 DEF WellFormed
<1> QED
  BY <1>2, <1>3, <1>5 DEF OneLog

LEMMA ReadRowKeeps ==
    ASSUME ReaderInv, ReadRow
    PROVE  ReaderInv'
<1> DEFINE table == reader.table
           rows == Row(table)
           i == Min(rows)
           n == Len(reader.out)
           id == LogIdAt(table, i)
<1>1. /\ reader # None /\ reader \in Readers /\ OneLog(table) /\ rows # {} /\ ReadsOneLog
      /\ n > 0 => reader.next - 1 \in DOMAIN table
      /\ n > 0 => reader.out[n] = LogIdAt(table, reader.next - 1)
  BY DEF ReadRow, ReaderInv
<1>2. /\ table \in Tables /\ DOMAIN table \subseteq 0..MaxIndex
      /\ reader.next \in Nat /\ reader.end \in Nat /\ reader.out \in Seq(LogIds) /\ n \in Nat
  <2>1. table \in Tables
    BY <1>1 DEF Readers
  <2> QED
    BY <1>1, <2>1, PartialType DEF Readers, Tables
<1>3. i \in rows /\ \A y \in rows : i <= y
  <2>1. rows \in SUBSET Nat
    BY <1>2 DEF Row
  <2> QED
    BY <1>1, <2>1, LeastIndex
<1>4. i \in DOMAIN table /\ i \in Nat /\ reader.next <= i /\ i < reader.end
  <2>1. \A k \in rows : k \in DOMAIN table /\ k \in Nat /\ reader.next <= k /\ k < reader.end
    BY <1>2 DEF Row
  <2> HIDE DEF i, rows
  <2> QED
    BY <1>3, <2>1
<1>5. id \in LogIds /\ id.index = i
  BY <1>1, <1>2, <1>4, RecordIds DEF OneLog
<1>6. n > 0 => i = reader.next
  <2> SUFFICES ASSUME n > 0 PROVE i = reader.next
    OBVIOUS
  <2>1. reader.next - 1 \in DOMAIN table /\ i \in 0..MaxIndex
    BY <1>1, <1>2, <1>4
  <2>2. reader.next \in 0..MaxIndex /\ reader.next - 1 <= reader.next
    BY <1>2, <1>4, <2>1, LogConstants
  <2>3. reader.next \in DOMAIN table
    BY <1>1, <1>4, <2>1, <2>2 DEF OneLog
  <2>4. reader.next \in rows
    <3>1. reader.next < reader.end
      BY <1>2, <1>4
    <3> QED
      BY <1>2, <2>3, <3>1 DEF Row
  <2>5. i <= reader.next
    BY <1>3, <2>4
  <2> QED
    BY <1>2, <1>4, <2>5
<1>7. reader' = [reader EXCEPT !.next = i + 1, !.out = Append(reader.out, id)]
  BY DEF ReadRow
<1> HIDE DEF id, i, rows
<1>8. /\ reader' \in Readers /\ reader'.table = table /\ reader'.next = i + 1
      /\ reader'.out = Append(reader.out, id)
  <2>1. Append(reader.out, id) \in Seq(LogIds) /\ i + 1 \in Nat
    BY <1>2, <1>4, <1>5
  <2>2. reader' = [table |-> table, next |-> i + 1, end |-> reader.end,
                   out |-> Append(reader.out, id)]
    BY <1>1, <1>7 DEF Readers
  <2> QED
    BY <1>2, <2>1, <2>2 DEF Readers
<1>9. /\ Len(reader'.out) = n + 1 /\ reader'.out[n + 1] = id
      /\ \A k \in 1..n : reader'.out[k] = reader.out[k]
  BY <1>2, <1>5, <1>8
<1>10. n > 0 => id.index = reader.out[n].index + 1 /\ id.term >= reader.out[n].term
  <2> SUFFICES ASSUME n > 0
               PROVE  id.index = reader.out[n].index + 1 /\ id.term >= reader.out[n].term
    OBVIOUS
  <2>1. /\ reader.out[n] = LogIdAt(table, reader.next - 1)
        /\ reader.next - 1 \in DOMAIN table /\ i = reader.next /\ reader.next - 1 <= i
    BY <1>1, <1>2, <1>6
  <2>2. reader.out[n].index = reader.next - 1
    BY <1>1, <2>1 DEF OneLog
  <2>3. reader.out[n].term <= id.term
    BY <1>1, <1>4, <2>1 DEF OneLog, id
  <2>4. reader.out[n] \in LogIds
    BY <1>2, <2>1, RecordIds
  <2>5. reader.out[n].term \in Nat /\ id.term \in Nat
    BY <1>5, <2>4, LogConstants
  <2> QED
    BY <1>2, <1>5, <2>1, <2>2, <2>3, <2>5
<1>11. ReadsOneLog'
  <2> SUFFICES ASSUME NEW k \in 1..n
               PROVE  /\ reader'.out[k + 1].index = reader'.out[k].index + 1
                      /\ reader'.out[k + 1].term >= reader'.out[k].term
    BY <1>2, <1>9 DEF ReadsOneLog
  <2>1. CASE k = n
    BY <1>2, <1>9, <1>10, <2>1
  <2>2. CASE k # n
    <3>1. k \in 1..(n - 1) /\ k + 1 \in 1..n
      BY <1>2, <2>2
    <3> QED
      BY <1>1, <1>9, <3>1 DEF ReadsOneLog
  <2> QED
    BY <2>1, <2>2
<1>12. reader'.next - 1 = i
  BY <1>4, <1>8
<1> QED
  BY <1>1, <1>2, <1>4, <1>8, <1>9, <1>11, <1>12 DEF ReaderInv, id

LEMMA ReaderStep == LogInv /\ ReaderInv /\ [WalNext]_walVars => ReaderInv'
<1> SUFFICES ASSUME LogInv, ReaderInv, [WalNext]_walVars PROVE ReaderInv'
  OBVIOUS
<1>1. ASSUME reader' = reader PROVE ReaderInv'
  BY <1>1 DEF ReaderInv, ReadsOneLog
<1>2. ASSUME reader' = None PROVE ReaderInv'
  BY <1>2 DEF ReaderInv
<1>3. ASSUME NEW lo \in 0..(MaxIndex + 1), NEW hi \in 0..(MaxIndex + 1), ReadBegin(lo, hi)
      PROVE  ReaderInv'
  <2>1. reader' = [table |-> log, next |-> lo, end |-> hi, out |-> <<>>]
    BY <1>3 DEF ReadBegin
  <2>2. reader' \in Readers
    BY <2>1, LogConstants DEF Readers, LogInv, Represents
  <2>3. Len(reader'.out) = 0
    BY <2>1
  <2> QED
    BY <2>1, <2>2, <2>3, LogIsOneLog DEF ReaderInv, ReadsOneLog
<1> QED
  BY <1>1, <1>2, <1>3, ReadRowKeeps
     DEF WalNext, walVars, Open, BeginAppend, BeginTruncate, BeginPurge, BeginSaveVote, Begin, WalCommit,
         Acknowledge, WriteFails, WalCrash, ReadEnd

\* A read without the lock returns adjacent entries of one log (clone_read_handle,
\* try_get_log_entries), because a read transaction keeps the table it began with.
THEOREM ReadersSeeOneLog == WalSpec => []ReadsOneLog
<1>1. WalInit => ReaderInv
  BY DEF WalInit, ReaderInv
<1>2. ReaderInv => ReadsOneLog
  BY DEF ReaderInv, ReadsOneLog
<1> QED
  BY <1>1, <1>2, LogInvAlways, ReaderStep, PTL DEF WalSpec
=============================================================================
