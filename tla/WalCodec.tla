------------------------------ MODULE WalCodec ------------------------------
(***************************************************************************)
(* The records of the write-ahead log (crates/mangle-wal/src/codec.rs) as  *)
(* sequences of words.  A word stands for one fixed-size field; the bytes  *)
(* of a string and of a protobuf command are words too, and length         *)
(* prefixes count words.                                                   *)
(***************************************************************************)
EXTENDS Naturals, Sequences, SequencesExt

\* What a decoder returns for a record that is not one.
Corrupt == [corrupt |-> TRUE]

Counted(words) == <<Len(words)>> \o words

----------------------------------------------------------------------------
(* Reader: what is left of the record, what was got, and whether all reads *)
(* found enough.                                                           *)

Reader(words) == [ok |-> TRUE, rest |-> words, got |-> <<>>]

Take(r, n) ==
    IF r.ok /\ n <= Len(r.rest)
    THEN [ok |-> TRUE, rest |-> SubSeq(r.rest, n + 1, Len(r.rest)),
          got |-> SubSeq(r.rest, 1, n)]
    ELSE [ok |-> FALSE, rest |-> <<>>, got |-> <<>>]

\* Reader::done.
AtEnd(r) == r.ok /\ r.rest = <<>>

\* A count, and that many words.
Words(r) ==
    LET count == Take(r, 1)
    IN  IF count.ok THEN Take(count, count.got[1]) ELSE count

----------------------------------------------------------------------------
(* log ids and votes *)

EncodeLogId(id) == <<id.term, id.node, id.index>>

LogIdOf(words) == [term |-> words[1], node |-> words[2], index |-> words[3]]

DecodeLogId(words) == IF Len(words) = 3 THEN LogIdOf(words) ELSE Corrupt

EncodeVote(v) == <<v.term, v.node, IF v.committed THEN 1 ELSE 0>>

DecodeVote(words) ==
    IF Len(words) = 3
    THEN [term |-> words[1], node |-> words[2], committed |-> words[3] # 0]
    ELSE Corrupt

----------------------------------------------------------------------------
(* memberships: joint configurations, and the addresses of the nodes *)

ConfigWords(config) == Counted(SetToSortSeq(config, <))

NodeWords(node) == <<node.id>> \o Counted(node.addr)

EncodeMembership(m) ==
    LET nodes == SetToSortSeq(m.nodes, LAMBDA x, y : x.id < y.id)
    IN  <<Len(m.configs)>>
        \o FlattenSeq([i \in DOMAIN m.configs |-> ConfigWords(m.configs[i])])
        \o <<Len(nodes)>>
        \o FlattenSeq([i \in DOMAIN nodes |-> NodeWords(nodes[i])])

\* One more configuration, or node, after those that were got.
ConfigItem(r) == LET ids == Words(r) IN [ids EXCEPT !.got = Append(r.got, ToSet(@))]

NodeItem(r) ==
    LET id   == Take(r, 1)
        addr == Words(id)
    IN  [addr EXCEPT !.got =
            IF addr.ok THEN Append(r.got, [id |-> id.got[1], addr |-> @]) ELSE @]

DecodeMembership(words) ==
    LET UpTo(count)  == IF count.ok THEN [i \in 1..count.got[1] |-> i] ELSE <<>>
        Start(count) == [count EXCEPT !.got = <<>>]
        n_configs    == Take(Reader(words), 1)
        configs      == FoldLeft(LAMBDA r, i : ConfigItem(r), Start(n_configs), UpTo(n_configs))
        n_nodes      == Take(configs, 1)
        nodes        == FoldLeft(LAMBDA r, i : NodeItem(r), Start(n_nodes), UpTo(n_nodes))
    IN  IF AtEnd(nodes)
        THEN [configs |-> configs.got, nodes |-> ToSet(nodes.got)]
        ELSE Corrupt

\* A flag, the log id it announces, and the membership; as in snapshot.meta.
EncodeStoredMembership(stored) ==
    (IF stored.log_ids = {} THEN <<0>>
     ELSE <<1>> \o EncodeLogId(CHOOSE id \in stored.log_ids : TRUE))
    \o EncodeMembership(stored.membership)

DecodeStoredMembership(words) ==
    LET flag == Take(Reader(words), 1)
        id   == IF flag.ok /\ flag.got[1] # 0 THEN Take(flag, 3) ELSE [flag EXCEPT !.got = <<>>]
        m    == IF id.ok THEN DecodeMembership(id.rest) ELSE Corrupt
    IN  IF m = Corrupt THEN Corrupt
        ELSE [log_ids |-> IF id.got = <<>> THEN {} ELSE {LogIdOf(id.got)}, membership |-> m]

----------------------------------------------------------------------------
(* entries: log id, tag, payload *)

EncodeEntry(e) ==
    EncodeLogId(e.log_id) \o
    CASE e.kind = "blank"      -> <<0>>
      [] e.kind = "normal"     -> <<1>> \o Counted(e.payload)
      [] e.kind = "membership" -> <<2>> \o Counted(EncodeMembership(e.payload))

\* Mutant of DecodePayload: words after the payload are ignored.
DecodePayloadPrefix(id, tag) ==
    LET bytes == IF tag.got[1] = 0 THEN [tag EXCEPT !.got = <<>>] ELSE Words(tag)
        m     == DecodeMembership(bytes.got)
    IN  CASE ~bytes.ok       -> Corrupt
          [] tag.got[1] = 0 -> [log_id |-> id, kind |-> "blank", payload |-> <<>>]
          [] tag.got[1] = 1 -> [log_id |-> id, kind |-> "normal", payload |-> bytes.got]
          [] tag.got[1] = 2 -> IF m = Corrupt THEN Corrupt
                               ELSE [log_id |-> id, kind |-> "membership", payload |-> m]
          [] OTHER          -> Corrupt

\* The payload of a record whose tag was just read.
DecodePayload(id, tag) ==
    LET bytes == IF tag.got[1] = 0 THEN [tag EXCEPT !.got = <<>>] ELSE Words(tag)
        m     == DecodeMembership(bytes.got)
    IN  CASE ~AtEnd(bytes)   -> Corrupt
          [] tag.got[1] = 0 -> [log_id |-> id, kind |-> "blank", payload |-> <<>>]
          [] tag.got[1] = 1 -> [log_id |-> id, kind |-> "normal", payload |-> bytes.got]
          [] tag.got[1] = 2 -> IF m = Corrupt THEN Corrupt
                               ELSE [log_id |-> id, kind |-> "membership", payload |-> m]
          [] OTHER          -> Corrupt

DecodeEntry(words) ==
    LET id  == Take(Reader(words), 3)
        tag == Take(id, 1)
    IN  IF tag.ok THEN DecodePayload(LogIdOf(id.got), tag) ELSE Corrupt
=============================================================================
