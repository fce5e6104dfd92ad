---------------------------- MODULE ClusterReads ----------------------------
(***************************************************************************)
(* Clients of a replicated server: the read levels and the mutation        *)
(* streams of crates/mangle-server/src/rpc.rs over the Engine of           *)
(* crates/mangle-raft/src/engine.rs, through elections, restarts and       *)
(* shutdowns.                                                              *)
(*                                                                         *)
(* openraft is external.  It is modelled from how Engine uses it: entries  *)
(* are chosen in one order; a node that was leader may go on believing so; *)
(* what it proposed and could not commit is floating, and a later leader   *)
(* may bring it in or not, whatever the client was told; client_write      *)
(* returns when this node applied the entry, and fails when it steps down. *)
(***************************************************************************)
EXTENDS Naturals, SequencesExt, FiniteSets

CONSTANTS Nodes, NoNode, Clients,
          Streams,       \* mutation streams: sequences of messages [program, rows]
          Malformed,     \* the rows of a message without a payload that decodes
          MaxOps,        \* MAX_MUTATIONS_PER_COMMAND
          MaxAsks,       \* bound: requests
          MaxElections, MaxDowns

VARIABLES
    chosen,     \* openraft: the committed entries
    floating,   \* openraft: entries proposed and not committed
    leader,     \* openraft: whom the last election chose
    believers,  \* the nodes whose metrics name themselves as the leader
    machine,    \* machine[n]: process, applied entries, last_applied in metrics
    asked,      \* asked[c]: the request in progress
    told,       \* told[c]: the request answered last, with its answer
    asks, elections, downs

raftVars    == <<chosen, floating, leader, believers, elections>>
clusterVars == <<raftVars, machine, asked, told, asks, downs>>

Quiet == [kind |-> "none"]
Noop  == [program |-> "", rows |-> 0, id |-> 0]

ClusterInit ==
    /\ chosen = <<>> /\ floating = {}
    /\ leader = NoNode /\ believers = {}
    /\ machine = [n \in Nodes |-> [is |-> "up", applied |-> 0, seen |-> 0]]
    /\ asked = [c \in Clients |-> Quiet]
    /\ told = [c \in Clients |-> Quiet]
    /\ asks = 0 /\ elections = 0 /\ downs = 0

----------------------------------------------------------------------------
(* requests *)

Answer(c, r, status) ==
    /\ told' = [told EXCEPT ![c] = [r EXCEPT !.stage = status]]
    /\ asked' = [asked EXCEPT ![c] = Quiet]

Request(n, kind, level, entry, stream) ==
    [kind |-> kind, node |-> n, level |-> level, entry |-> entry, stream |-> stream,
     since |-> Len(chosen), index |-> 0, upto |-> 0, stage |-> "asked"]

\* Engine::write, up to the proposal: a node that does not believe it leads
\* refuses with a hint, and one whose Raft core was shut down with an error.
Propose(c, r) ==
    IF machine[r.node].is = "stopping" THEN Answer(c, r, "unavailable") /\ UNCHANGED floating
    ELSE IF r.node \notin believers THEN Answer(c, r, "not_leader") /\ UNCHANGED floating
    ELSE /\ asked' = [asked EXCEPT ![c] = [r EXCEPT !.stage = "proposed"]]
         /\ floating' = floating \cup {r.entry}
         /\ UNCHANGED told

\* Mutant of Barrier: it waits for what this node knows of, without a proposal.
BarrierLocal(c, r) ==
    IF r.node \notin believers THEN Answer(c, r, "not_leader") /\ UNCHANGED floating
    ELSE /\ asked' = [asked EXCEPT ![c] = [r EXCEPT !.stage = "wait",
                                                    !.index = machine[r.node].applied]]
         /\ UNCHANGED <<told, floating>>

\* Engine::read_barrier, up to the proposal of its Noop
Barrier(c, r) == Propose(c, r)

\* query, up to its read or to its barrier
Query(c, n, level) ==
    LET r == Request(n, "query", level, [Noop EXCEPT !.id = asks + 1], <<>>)
    IN  /\ asked[c] = Quiet /\ asks < MaxAsks
        /\ asks' = asks + 1
        /\ \/ /\ level = "NONE" \/ (level = "WEAK" /\ n \in believers)
              /\ asked' = [asked EXCEPT ![c] = [r EXCEPT !.stage = "read"]]
              /\ UNCHANGED <<told, floating>>
           \/ /\ level = "WEAK" /\ n \notin believers
              /\ Answer(c, r, "not_leader")
              /\ UNCHANGED floating
           \/ level = "STRONG" /\ Barrier(c, r)
        /\ UNCHANGED <<chosen, leader, believers, elections, machine, downs>>

\* Mutant of TakeMessage: a stream may go on with another program.
TakeAnyMessage(acc, m) ==
    IF acc.status # "" THEN acc
    ELSE IF m.rows = Malformed THEN [acc EXCEPT !.status = "invalid"]
    ELSE IF acc.rows + m.rows > MaxOps THEN [acc EXCEPT !.status = "exhausted"]
    ELSE [acc EXCEPT !.program = m.program, !.rows = @ + m.rows]

\* One message of a stream: apply_mutations returns at the first that is of
\* another program, does not decode, or makes the command too long.
TakeMessage(acc, m) ==
    IF acc.status # "" THEN acc
    ELSE IF acc.program \notin {"none", m.program} \/ m.rows = Malformed
    THEN [acc EXCEPT !.status = "invalid"]
    ELSE IF acc.rows + m.rows > MaxOps THEN [acc EXCEPT !.status = "exhausted"]
    ELSE [acc EXCEPT !.program = m.program, !.rows = @ + m.rows]

Collected(stream) == FoldLeft(TakeMessage, [program |-> "none", rows |-> 0, status |-> ""], stream)

\* insert_facts and retract_facts: the whole stream is one command, and nothing
\* is written before it has ended.
Mutate(c, n, stream) ==
    LET all == Collected(stream)
        r   == Request(n, "mutate", "", [program |-> all.program, rows |-> all.rows, id |-> asks + 1],
                       stream)
    IN  /\ asked[c] = Quiet /\ asks < MaxAsks
        /\ asks' = asks + 1
        /\ IF stream = <<>> THEN Answer(c, r, "invalid") /\ UNCHANGED floating
           ELSE IF all.status # "" THEN Answer(c, r, all.status) /\ UNCHANGED floating
           ELSE Propose(c, r)
        /\ UNCHANGED <<chosen, leader, believers, elections, machine, downs>>

\* client_write returns: a write is answered, a barrier goes on to wait_applied.
WriteReturns(c) ==
    LET r == asked[c]
    IN  /\ r # Quiet /\ r.stage = "committed"
        /\ machine[r.node].is = "up" /\ machine[r.node].applied >= r.index
        /\ IF r.kind = "mutate" THEN Answer(c, r, "ok")
           ELSE asked' = [asked EXCEPT ![c].stage = "wait"] /\ UNCHANGED told
        /\ UNCHANGED <<raftVars, machine, asks, downs>>

\* wait_applied: the metrics are there, or their channel was closed.
WaitApplied(c) ==
    LET r == asked[c]
    IN  /\ r # Quiet /\ r.stage = "wait"
        /\ machine[r.node].seen >= r.index \/ machine[r.node].is = "stopping"
        /\ asked' = [asked EXCEPT ![c].stage = "read"]
        /\ UNCHANGED <<raftVars, machine, told, asks, downs>>

\* execute_query_patterns under the read lock, in a task of its own
Read(c) ==
    LET r == asked[c]
    IN  /\ r # Quiet /\ r.stage = "read"
        /\ Answer(c, [r EXCEPT !.upto = machine[r.node].applied], "ok")
        /\ UNCHANGED <<raftVars, machine, asks, downs>>

----------------------------------------------------------------------------
(* openraft and the processes *)

Choose(c) ==
    LET r == asked[c]
    IN  /\ r # Quiet /\ r.stage = "proposed"
        /\ r.node = leader /\ r.entry \in floating
        /\ chosen' = Append(chosen, r.entry)
        /\ floating' = floating \ {r.entry}
        /\ asked' = [asked EXCEPT ![c].stage = "committed", ![c].index = Len(chosen) + 1]
        /\ UNCHANGED <<leader, believers, elections, machine, told, asks, downs>>

\* A node wins an election and brings in what it has of the floating entries.
Elect(n, brought) ==
    /\ machine[n].is = "up" /\ n \notin believers
    /\ elections < MaxElections
    /\ elections' = elections + 1
    /\ leader' = n
    /\ believers' = believers \cup {n}
    /\ chosen' = chosen \o SetToSeq(brought)
    /\ floating' = floating \ brought
    /\ UNCHANGED <<machine, asked, told, asks, downs>>

Waiting(n) == {c \in Clients : asked[c] # Quiet /\ asked[c].node = n
                                /\ asked[c].stage \in {"proposed", "committed"}}

\* The requests of S end with an error, or with none when the process is gone.
Fail(S, status) ==
    /\ told' = [c \in Clients |-> IF c \in S THEN [asked[c] EXCEPT !.stage = status] ELSE told[c]]
    /\ asked' = [c \in Clients |-> IF c \in S THEN Quiet ELSE asked[c]]

\* A leader hears of its successor: its writers get ForwardToLeader.
StepDown(n) ==
    /\ n \in believers \ {leader} /\ machine[n].is = "up"
    /\ believers' = believers \ {n}
    /\ Fail(Waiting(n), "not_leader")
    /\ UNCHANGED <<chosen, floating, leader, elections, machine, asks, downs>>

ApplyChosen(n) ==
    /\ machine[n].is = "up" /\ machine[n].applied < Len(chosen)
    /\ machine' = [machine EXCEPT ![n].applied = @ + 1]
    /\ UNCHANGED <<raftVars, asked, told, asks, downs>>

Publish(n) ==
    /\ machine[n].is = "up" /\ machine[n].seen < machine[n].applied
    /\ machine' = [machine EXCEPT ![n].seen = machine[n].applied]
    /\ UNCHANGED <<raftVars, asked, told, asks, downs>>

\* shutdown_signal: the Raft core stops while the requests in progress go on.
Shutdown(n) ==
    /\ machine[n].is = "up" /\ downs < MaxDowns
    /\ downs' = downs + 1
    /\ machine' = [machine EXCEPT ![n].is = "stopping"]
    /\ Fail(Waiting(n), "unavailable")
    /\ UNCHANGED <<raftVars, asks>>

\* The process is gone; it starts again from the snapshot it has.
Restarted(n, kept) ==
    /\ machine[n].is = "stopping" \/ downs < MaxDowns
    /\ downs' = IF machine[n].is = "stopping" THEN downs ELSE downs + 1
    /\ machine' = [machine EXCEPT ![n] = [@ EXCEPT !.is = "up", !.applied = kept, !.seen = 0]]
    /\ Fail({c \in Clients : asked[c] # Quiet /\ asked[c].node = n}, "lost")
    /\ believers' = believers \ {n}
    /\ leader' = IF leader = n THEN NoNode ELSE leader
    /\ UNCHANGED <<chosen, floating, elections, asks>>

ClusterNext ==
    \/ \E c \in Clients :
          \/ \E n \in Nodes :
                \/ \E level \in {"NONE", "WEAK", "STRONG"} : Query(c, n, level)
                \/ \E stream \in Streams : Mutate(c, n, stream)
          \/ WriteReturns(c) \/ WaitApplied(c) \/ Read(c) \/ Choose(c)
    \/ \E n \in Nodes :
          \/ \E brought \in SUBSET floating : Elect(n, brought)
          \/ StepDown(n) \/ ApplyChosen(n) \/ Publish(n)
          \/ Shutdown(n)
          \/ \E kept \in 0..machine[n].applied : Restarted(n, kept)

----------------------------------------------------------------------------
(* properties *)

\* service.proto 72-74: a STRONG read observes everything committed before it,
\* whichever node answers it and whatever became of that node in between
\* (Engine::read_barrier, wait_applied, query).
StrongReadsAreFresh ==
    \A c \in Clients :
        told[c] # Quiet /\ told[c].kind = "query" /\ told[c].level = "STRONG"
                        /\ told[c].stage = "ok"
            => told[c].upto >= told[c].since

\* A mutation stream that is acknowledged is one entry of the log, at one place,
\* with all its rows and all for the program of each of its messages; one that
\* is refused as invalid or too long has not left an entry and never will
\* (apply_mutations, execute_command).
StreamsAreOneEntry ==
    \A c \in Clients : told[c] # Quiet /\ told[c].kind = "mutate" =>
        LET r    == told[c]
            mine == {i \in DOMAIN chosen : chosen[i].id = r.entry.id}
        IN  /\ r.stage \in {"invalid", "exhausted"} => mine = {} /\ r.entry \notin floating
            /\ r.stage = "ok" =>
                 /\ mine = {r.index} /\ r.entry \notin floating
                 /\ \A m \in ToSet(r.stream) : m.program = chosen[r.index].program
                 /\ chosen[r.index].rows = FoldLeft(LAMBDA sum, m : sum + m.rows, 0, r.stream)
=============================================================================
