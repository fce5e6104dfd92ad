------------------------------ MODULE MCServer ------------------------------
(***************************************************************************)
(* The program p1 of MCProgramStore with its mutation log; clients of the  *)
(* cluster send streams of up to two messages, among them one without a    *)
(* message, one over two programs, one that is too long, and one that does *)
(* not decode.  The write-ahead log has entries of every kind, over two    *)
(* terms.                                                                  *)
(***************************************************************************)
EXTENDS MCProgramStore, Server

CONSTANTS n1, n2, c1, c2, MaxTerm

Op(kind, f) == [kind |-> kind, fact |-> f]

MCMutations == [name : {p1}, ops : {<<Op("Insert", a)>>, <<Op("Retract", a)>>, <<Op("Retract", e)>>}]

\* What clients sent before the change of mode: single ops, and two ops on a fact
\* in one command.
MCLogged ==
    {c \in MCCommands :
        Len(c.ops) = 2 => c.ops \in {<<Op("Insert", a), Op("Retract", a)>>, <<Op("Retract", e), Op("Insert", e)>>}}

Message(program, rows) == [program |-> program, rows |-> rows]

MCStreams == {<<>>,
              <<Message("p", 1), Message("p", 1)>>,
              <<Message("p", 1), Message("q", 1)>>,
              <<Message("p", 2), Message("p", 1)>>,
              <<Message("p", Malformed)>>}

\* Nodes and clients of the cluster are alike.
Alike == Permutations({n1, n2}) \cup Permutations({c1, c2})

\* One node leads every term.
MCLogIds == [term : 1..MaxTerm, node : {1}, index : 0..MaxIndex]

\* A joint configuration with an address of two words and one of none.
Joint ==
    [configs |-> <<{1, 2}, {2}>>, nodes |-> {[id |-> 1, addr |-> <<7, 9>>], [id |-> 2, addr |-> <<>>]}]

Single == [configs |-> <<{1}>>, nodes |-> {[id |-> 1, addr |-> <<5>>]}]

\* Entries of every kind: in term 1 the membership of the bootstrap, a command
\* and a joint membership; the leader of a later term starts with a blank entry.
MCEntries ==
    [id \in MCLogIds |->
        CASE id.term > 1 -> [log_id |-> id, kind |-> "blank", payload |-> <<>>]
          [] id.index = 0 -> [log_id |-> id, kind |-> "membership", payload |-> Single]
          [] id.index = 1 -> [log_id |-> id, kind |-> "normal", payload |-> <<id.term, 0>>]
          [] OTHER -> [log_id |-> id, kind |-> "membership", payload |-> Joint]]

\* The vote of term 1 is granted before it is committed.
MCVotes ==
    {v \in [term : 1..MaxTerm, node : {1}, committed : BOOLEAN] : v.term > 1 => v.committed}

\* The membership of snapshot.meta, with and without a log id.
ASSUME StoredMemberships ==
    \A m \in {Joint, Single} : \A ids \in {{}} \cup {{id} : id \in MCLogIds} :
        LET stored == [log_ids |-> ids, membership |-> m]
        IN  DecodeStoredMembership(EncodeStoredMembership(stored)) = stored
=============================================================================
