-------------------------- MODULE MCStoreSessions --------------------------
(***************************************************************************)
(* For the two stores: sessions over a binary relation e with a compound   *)
(* column, and over a temporal relation s beside a relation r without      *)
(* columns.  For the C interface: two programs over the relations e, r and *)
(* s, one with facts, a rule and a rule over it, one with a single fact    *)
(* and a relation it only reads.  For the database: MCDatabase.            *)
(***************************************************************************)
EXTENDS StoreSessions, MCDatabase

MCRelations == {"e", "r", "s"}

MCSessions == {{"e"}, {"r", "s"}}
MCTuples   == [e |-> {<<Num(1), List(<<Num(1)>>)>>, <<Num(1), List(<<Num(2)>>)>>,
                      <<Num(2), List(<<Num(2)>>)>>},
               r |-> {<<>>},
               s |-> {<<Num(1), Num(2)>>, <<Time(3), Time(3)>>, <<Num(2), Num(4)>>,
                      <<Num(6), Num(6)>>}]

Name(n) == [k |-> "name", n |-> n, e |-> <<>>]

GivenFact(r, t)  == [head |-> r, tuple |-> t, body |-> ""]
CopyRule(h, r)   == [head |-> h, tuple |-> <<Wildcard>>, body |-> r]

MCPrograms  == [rules |-> [edb |-> {},
                           strata |-> <<<<GivenFact("e", <<Num(1)>>), GivenFact("e", <<Name(2)>>)>>,
                                        <<CopyRule("r", "e"), GivenFact("r", <<Num(1)>>)>>,
                                        <<CopyRule("s", "r")>>>>],
                facts |-> [edb |-> {"e"}, strata |-> <<<<GivenFact("r", <<Num(3)>>)>>>>]]
MCHandles == [e |-> {<<Num(1)>>, <<Num(3)>>, <<BuildCompound("map", <<Num(1)>>)>>, <<Num(1), Num(1)>>},
              r |-> {<<Num(1)>>, <<BuildCompound("list", <<Num(1)>>)>>},
              s |-> {<<Name(2)>>}]
MCQueries == {[rel |-> "e", args |-> <<Wildcard>>], [rel |-> "r", args |-> <<Num(1)>>],
              [rel |-> "s", args |-> <<>>]}
=============================================================================
