------------------------ MODULE ProgramStoreProofs ------------------------
(***************************************************************************)
(* Proofs about ProgramStore, for every choice of programs, facts, sources *)
(* of failure and commands of any length.                                  *)
(***************************************************************************)
EXTENDS ProgramStore, SequenceTheorems, TLAPS

----------------------------------------------------------------------------
(* sequences *)

LEMMA ElementType ==
    ASSUME NEW S, NEW seq \in Seq(S), NEW i \in DOMAIN seq
    PROVE  seq[i] \in S
OBVIOUS

LEMMA PrefixType ==
    ASSUME NEW S, NEW seq \in Seq(S), NEW k \in 0..Len(seq)
    PROVE  SubSeq(seq, 1, k) \in Seq(S)
BY SubSeqProperties

LEMMA HeadTailType ==
    ASSUME NEW ops \in Seq(Ops), ops # <<>>
    PROVE  Head(ops) \in Ops /\ Tail(ops) \in Seq(Ops)
BY HeadTailProperties

LEMMA HeadTailShape ==
    ASSUME NEW S, NEW seq \in Seq(S), seq # <<>>
    PROVE  /\ DOMAIN seq \subseteq Nat \ {0}
           /\ DOMAIN Tail(seq) \subseteq Nat \ {0}
           /\ 1 \in DOMAIN seq /\ Head(seq) = seq[1]
           /\ \A i \in DOMAIN Tail(seq) : i + 1 \in DOMAIN seq /\ Tail(seq)[i] = seq[i + 1]
           /\ \A j \in DOMAIN seq : j = 1 \/ j - 1 \in DOMAIN Tail(seq)
<1>1. Tail(seq) \in Seq(S) /\ Len(Tail(seq)) = Len(seq) - 1 /\ Len(seq) \in Nat \ {0}
  BY HeadTailProperties, EmptySeq
<1>2. DOMAIN seq = 1..Len(seq) /\ DOMAIN Tail(seq) = 1..Len(Tail(seq))
  BY <1>1
<1>3. \A i \in 1..Len(Tail(seq)) : Tail(seq)[i] = seq[i + 1]
  BY HeadTailProperties
<1> QED
  BY <1>1, <1>2, <1>3

----------------------------------------------------------------------------
(* the types of the operators *)

LEMMA LineType ==
    ASSUME NEW lines \in LogLines, Readable(lines),
           NEW kind \in {"Insert", "Retract"}, NEW f \in Lines(lines, kind)
    PROVE  f \in Facts
<1>1. PICK j \in DOMAIN lines : lines[j].kind = kind /\ f = Reparse[lines[j].fact]
  BY DEF Lines
<1>2. lines[j] \in Ops
  BY <1>1, ElementType DEF LogLines, TornLine
<1>3. Reparse[lines[j].fact] \in Facts \cup {Unparsable}
  BY <1>2, ConstantTypes DEF Ops
<1> QED
  BY <1>1, <1>3 DEF Readable

\* The facts that loading a program reads from its files are facts.
LEMMA ExternalType ==
    ASSUME NEW n \in Programs, NEW lines \in LogLines, Readable(lines)
    PROVE  External(n, lines) \in SUBSET Facts
BY LineType, ConstantTypes DEF External

LEMMA EmptyLedgerType == EmptyLedger \in Ledgers
BY DEF EmptyLedger, Ledgers

LEMMA OpenedType ==
    ASSUME NEW s \in Sources, NEW x \in SUBSET Facts
    PROVE  Opened(s, x) \in StoredPrograms
BY DEF Opened, StoredPrograms, EmptyLedger, Ledgers

LEMMA DirType ==
    ASSUME NEW i \in DOMAIN Dir
    PROVE  Dir[i].name \in Programs /\ Dir[i].source \in Sources
<1>1. Dir[i] \in [name : Programs, source : Sources]
  BY ElementType, ConstantTypes
<1> QED
  BY <1>1

LEMMA LoadedFromType ==
    ASSUME NEW fs \in [Programs -> LogLines], NEW I \in SUBSET LoadableFiles(fs)
    PROVE  LoadedFrom(I, fs) \in Registries
<1> SUFFICES ASSUME NEW n \in Programs, \E i \in I : Dir[i].name = n
             PROVE  Opened(Dir[CHOOSE i \in I : Dir[i].name = n].source,
                           External(n, fs[n])) \in StoredPrograms
  BY DEF LoadedFrom, Registries
<1> DEFINE k == CHOOSE i \in I : Dir[i].name = n
<1>1. k \in I /\ Dir[k].name = n
  OBVIOUS
<1> HIDE DEF k
<1>2. k \in DOMAIN Dir /\ Loadable(n, Dir[k].source, fs[n])
  BY <1>1 DEF LoadableFiles
<1>3. External(n, fs[n]) \in SUBSET Facts
  BY <1>2, ExternalType DEF Loadable
<1>4. Opened(Dir[k].source, External(n, fs[n])) \in StoredPrograms
  BY <1>2, <1>3, DirType, OpenedType
<1> QED
  BY <1>4 DEF k

LEMMA FactsOfType ==
    ASSUME NEW ops \in Seq(Ops)
    PROVE  FactsOf(ops) \in SUBSET Facts
<1>1. \A i \in DOMAIN ops : ops[i] \in Ops
  BY ElementType
<1> QED
  BY <1>1 DEF FactsOf, Ops

LEMMA NoteType ==
    ASSUME NEW l \in Ledgers, NEW op \in Ops
    PROVE  Note(l, op) \in Ledgers
BY DEF Note, NoteInsert, NoteRetract, Ledgers, Ops

LEMMA BatchedType ==
    ASSUME NEW F \in SUBSET Facts, NEW op \in Ops
    PROVE  Batched(F, op) \in SUBSET Facts
BY DEF Batched, Ops

LEMMA SurvivorsType ==
    ASSUME NEW lines \in LogLines
    PROVE  Survivors(lines) \subseteq LogLines
<1>1. \A k \in 0..Len(lines) : SubSeq(lines, 1, k) \in LogLines
  BY PrefixType DEF LogLines
<1>2. \A k \in 0..Len(lines) - 1 : Append(SubSeq(lines, 1, k), TornLine) \in LogLines
  <2> DEFINE L == Ops \cup {TornLine}
  <2>1. TornLine \in L
    OBVIOUS
  <2> HIDE DEF L
  <2> SUFFICES ASSUME NEW k \in 0..Len(lines) - 1
               PROVE  Append(SubSeq(lines, 1, k), TornLine) \in Seq(L)
    BY DEF L, LogLines
  <2>2. Len(lines) \in Nat
    BY DEF LogLines
  <2>3. SubSeq(lines, 1, k) \in Seq(L)
    BY <1>1, <2>2 DEF L, LogLines
  <2> QED
    BY <2>1, <2>3
<1> QED
  BY <1>1, <1>2 DEF Survivors

----------------------------------------------------------------------------
(* type correctness *)

\* A command in progress is one of a registered program.
LEMMA InProgress ==
    ASSUME TypeOK, call.phase \in {"batch", "note"}
    PROVE  /\ call \in Running
           /\ call # Idle
           /\ call.name \in Programs
           /\ call.todo \in Seq(Ops)
           /\ call.applied \in Seq(Ops)
           /\ call.skipped \in Nat
           /\ programs[call.name] \in StoredPrograms
<1>1. call \in Running /\ call # Idle
  BY DEF TypeOK, Idle
<1> QED
  BY <1>1 DEF TypeOK, Running, Registries

LEMMA CallAppliedUpdate ==
    ASSUME NEW c \in Running, NEW rest \in Seq(Ops), NEW done \in Seq(Ops)
    PROVE  /\ [c EXCEPT !.todo = rest, !.applied = done] \in Running
           /\ [c EXCEPT !.todo = rest, !.applied = done].name = c.name
BY DEF Running

LEMMA CallSkippedUpdate ==
    ASSUME NEW c \in Running, NEW rest \in Seq(Ops), NEW k \in Nat
    PROVE  /\ [c EXCEPT !.todo = rest, !.skipped = k] \in Running
           /\ [c EXCEPT !.todo = rest, !.skipped = k].name = c.name
BY DEF Running

LEMMA ProgramUpdate ==
    ASSUME NEW reg \in Registries, NEW n \in Programs, reg[n] \in StoredPrograms,
           NEW F \in SUBSET Facts, NEW l \in Ledgers
    PROVE  /\ [reg EXCEPT ![n].facts = F] \in Registries
           /\ [reg EXCEPT ![n].facts = F][n] \in StoredPrograms
           /\ [reg EXCEPT ![n].ledger = l] \in Registries
           /\ [reg EXCEPT ![n].ledger = l][n] \in StoredPrograms
BY DEF Registries, StoredPrograms

LEMMA StepTypeOK == TypeOK /\ [Next]_vars => TypeOK'
<1> SUFFICES ASSUME TypeOK, [Next]_vars
             PROVE  TypeOK'
  OBVIOUS
<1>1. ASSUME NEW c \in Commands, RejectMutate(c.name, c.ops)
      PROVE  TypeOK'
  BY <1>1 DEF RejectMutate, TypeOK, Outcomes
<1>2. ASSUME NEW c \in Commands, BeginMutate(c.name, c.ops)
      PROVE  TypeOK'
  <2>1. c.name \in Programs /\ c.ops \in Seq(Ops) /\ programs[c.name] \in StoredPrograms
    BY <1>2, ConstantTypes DEF BeginMutate, TypeOK, Registries
  <2>2. call' \in {Idle} \cup Running
    BY <1>2, <2>1 DEF BeginMutate, Running
  <2> QED
    BY <1>2, <2>1, <2>2 DEF BeginMutate, TypeOK
<1>3. CASE BatchOp
  <2> DEFINE op == Head(call.todo)
             n  == call.name
  <2>1. /\ op \in Ops /\ Tail(call.todo) \in Seq(Ops)
        /\ n \in Programs /\ programs[n] \in StoredPrograms
        /\ call \in Running /\ call.applied \in Seq(Ops) /\ call.skipped \in Nat
    BY <1>3, InProgress, HeadTailType DEF BatchOp
  <2>2. CASE Effective(programs[n].facts, op)
    <3> DEFINE F    == Batched(programs[n].facts, op)
               done == Append(call.applied, op)
    <3>1. F \in SUBSET Facts
      BY <2>1, BatchedType DEF StoredPrograms
    <3>2. done \in Seq(Ops)
      BY <2>1, AppendProperties
    <3>3. /\ programs' = [programs EXCEPT ![n].facts = F]
          /\ call' = [call EXCEPT !.todo = Tail(call.todo), !.applied = done]
      BY <1>3, <2>2 DEF BatchOp
    <3> HIDE DEF F, done, op
    <3>4. call' \in Running /\ call'.name = n
      BY <2>1, <3>2, <3>3, CallAppliedUpdate
    <3>5. programs' \in Registries /\ programs'[n] \in StoredPrograms
      BY <2>1, <3>1, <3>3, ProgramUpdate, EmptyLedgerType DEF TypeOK
    <3> QED
      BY <1>3, <3>4, <3>5, ConstantTypes DEF BatchOp, TypeOK
  <2>3. CASE ~Effective(programs[n].facts, op)
    <3>1. call' = [call EXCEPT !.todo = Tail(call.todo), !.skipped = call.skipped + 1]
      BY <1>3, <2>3 DEF BatchOp
    <3>2. call.skipped + 1 \in Nat
      BY <2>1
    <3>3. call' \in Running /\ call'.name = n
      BY <2>1, <3>1, <3>2, CallSkippedUpdate
    <3> QED
      BY <1>3, <2>1, <2>3, <3>3, ConstantTypes DEF BatchOp, TypeOK
  <2> QED
    BY <2>2, <2>3
<1>4. CASE Commit
  <2>1. call' \in {Idle} \cup Running /\ (call' # Idle => call'.name = call.name)
    BY <1>4, InProgress DEF Commit, Running
  <2>2. outcome' \in Outcomes
    BY <1>4, InProgress DEF Commit, Outcomes, MutatedOutcome, TypeOK
  <2> QED
    BY <1>4, <2>1, <2>2, InProgress, ConstantTypes DEF Commit, TypeOK
<1>5. CASE CommitFails
  <2>1. FactsOf(call.applied) \in SUBSET Facts
    BY <1>5, InProgress, FactsOfType DEF CommitFails
  <2> QED
    BY <1>5, <2>1 DEF CommitFails, TypeOK, Running, Outcomes
<1>6. CASE NoteOp
  <2> DEFINE op == Head(call.todo)
             n  == call.name
  <2>1. /\ op \in Ops /\ Tail(call.todo) \in Seq(Ops)
        /\ n \in Programs /\ programs[n] \in StoredPrograms
    BY <1>6, InProgress, HeadTailType DEF NoteOp
  <2>2. Note(programs[n].ledger, op) \in Ledgers
    BY <2>1, NoteType DEF StoredPrograms
  <2>3. programs' \in Registries /\ programs'[n] # Absent
    BY <1>6, <2>1, <2>2, ConstantTypes DEF NoteOp, TypeOK, Registries, StoredPrograms
  <2>4. call' \in Running /\ call'.name = n
    BY <1>6, <2>1, InProgress DEF NoteOp, Running
  <2>5. Append(files[n], op) \in LogLines
    BY <2>1, AppendProperties DEF LogLines, TypeOK
  <2> QED
    BY <1>6, <2>1, <2>3, <2>4, <2>5 DEF NoteOp, TypeOK
<1>7. CASE AppendFails
  <2> DEFINE op == Head(call.todo)
             n  == call.name
  <2>1. /\ op \in Ops /\ Tail(call.todo) \in Seq(Ops) /\ call.todo \in Seq(Ops)
        /\ n \in Programs /\ programs[n] \in StoredPrograms
    BY <1>7, InProgress, HeadTailType DEF AppendFails
  <2>2. Note(programs[n].ledger, op) \in Ledgers
    BY <2>1, NoteType DEF StoredPrograms
  <2>3. programs' \in Registries
    BY <1>7, <2>1, <2>2 DEF AppendFails, TypeOK, Registries, StoredPrograms
  <2>4. FactsOf(Tail(call.todo)) \in SUBSET Facts /\ FactsOf(call.todo) \in SUBSET Facts
    BY <2>1, FactsOfType
  <2> QED
    BY <1>7, <2>3, <2>4 DEF AppendFails, TypeOK, Running, Outcomes
<1>8. CASE FinishMutate
  BY <1>8, InProgress DEF FinishMutate, TypeOK, Running, Outcomes, MutatedOutcome
<1>9. ASSUME NEW n \in Programs, NEW s \in Sources, LoadProgram(n, s)
      PROVE  TypeOK'
  <2>1. CASE Loadable(n, s, files[n])
    <3>1. Opened(s, External(n, files[n])) \in StoredPrograms
      BY <2>1, ExternalType, OpenedType DEF Loadable, TypeOK
    <3> QED
      BY <1>9, <2>1, <3>1 DEF LoadProgram, Forget, TypeOK, Registries, Outcomes
  <2>2. CASE ~Loadable(n, s, files[n])
    BY <1>9, <2>2 DEF LoadProgram, TypeOK, Outcomes
  <2> QED
    BY <2>1, <2>2
<1>10. ASSUME NEW n \in Programs, DeleteProgram(n)
       PROVE  TypeOK'
  BY <1>10 DEF DeleteProgram, Forget, TypeOK, Registries, Outcomes
<1>11. ASSUME NEW n \in Programs, Reload(n)
       PROVE  TypeOK'
  <2>1. CASE {i \in DOMAIN Dir : Dir[i].name = n} = {}
    BY <1>11, <2>1 DEF Reload, TypeOK, Outcomes
  <2>2. CASE {i \in DOMAIN Dir : Dir[i].name = n} # {}
    BY <1>9, <1>11, <2>2, DirType DEF Reload
  <2> QED
    BY <2>1, <2>2
<1>12. CASE ReloadAll
  <2> DEFINE upto == {i \in DOMAIN Dir : \A j \in 1..i : j \in LoadableFiles(files)}
  <2>1. upto \subseteq LoadableFiles(files)
    <3>1. DOMAIN Dir \subseteq Nat \ {0}
      BY ConstantTypes
    <3> QED
      BY <3>1
  <2>2. LoadedFrom(upto, files) \in Registries
    BY <2>1, LoadedFromType DEF TypeOK
  <2> QED
    BY <1>12, <2>2 DEF ReloadAll, Forget, TypeOK, Outcomes
<1>13. CASE Restart
  <2>1. files' \in [Programs -> LogLines]
    BY <1>13, SurvivorsType DEF Restart, TypeOK
  <2>2. LoadedFrom(LoadableFiles(files'), files') \in Registries
    BY <2>1, LoadedFromType
  <2> QED
    BY <1>13, <2>1, <2>2 DEF Restart, Forget, TypeOK, Running, Outcomes
<1>14. CASE UNCHANGED vars
  BY <1>14 DEF vars, TypeOK
<1> QED
  BY <1>1, <1>2, <1>3, <1>4, <1>5, <1>6, <1>7, <1>8, <1>9, <1>10, <1>11, <1>12,
     <1>13, <1>14 DEF Next

\* Type correctness: whatever fails, the registry, the command in progress, the
\* mutation logs and the histories keep their shape, and a command in progress
\* is always one of a registered program.
THEOREM TypeCorrect == Spec => []TypeOK
<1>1. Init => TypeOK
  BY DEF Init, TypeOK, Registries, EmptyRegistry, Running, Outcomes, LogLines
<1> QED
  BY <1>1, StepTypeOK, PTL DEF Spec

----------------------------------------------------------------------------
(* the ledger *)

\* The effective ops of the command in progress on n that the ledger has not
\* noted yet: those batched so far, then those still to be noted.
Pending(n) ==
    IF call = Idle \/ call.name # n THEN <<>>
    ELSE IF call.phase = "batch" THEN call.applied ELSE call.todo

\* The last op on a fact says whether the fact is present.
LastOp(ops, i) == \A j \in DOMAIN ops : j > i => ops[j].fact # ops[i].fact

LastOpsDecide(ops, facts) ==
    \A i \in DOMAIN ops :
        LastOp(ops, i) => ((ops[i].kind = "Insert") <=> (ops[i].fact \in facts))

\* What the ledger of program P named n says of its facts, up to pending ops
\* and facts changed without a note.
Described(n, P, ops, silent) ==
    /\ P.ledger.replicated \cap P.ledger.retracted = {}
    /\ LastOpsDecide(ops, P.facts)
    /\ P.ledger.replicated \subseteq P.facts \cup FactsOf(ops) \cup silent
    /\ P.ledger.retracted \cap P.facts \subseteq FactsOf(ops) \cup silent
    /\ n \notin Persistent =>
         P.facts \subseteq Restored(Base[n], P.ledger) \cup FactsOf(ops) \cup silent

LedgerInv ==
    \A n \in Programs :
        /\ programs[n] # Absent => Described(n, programs[n], Pending(n), unnoted[n])
        /\ n \notin Persistent => files[n] = <<>>

LEMMA FactsOfEmpty == FactsOf(<<>>) = {}
BY DEF FactsOf

LEMMA FactsOfAppend ==
    ASSUME NEW ops \in Seq(Ops), NEW op \in Ops
    PROVE  FactsOf(Append(ops, op)) = FactsOf(ops) \cup {op.fact}
<1>1. /\ DOMAIN Append(ops, op) = DOMAIN ops \cup {Len(ops) + 1}
      /\ \A i \in DOMAIN ops : Append(ops, op)[i] = ops[i]
      /\ Append(ops, op)[Len(ops) + 1] = op
  BY AppendProperties
<1> HIDE DEF Ops
<1> QED
  BY <1>1 DEF FactsOf

LEMMA FactsOfTail ==
    ASSUME NEW ops \in Seq(Ops), ops # <<>>
    PROVE  FactsOf(ops) = FactsOf(Tail(ops)) \cup {Head(ops).fact}
<1>1. 1 \in DOMAIN ops /\ Head(ops) = ops[1]
  BY HeadTailShape
<1>2. \A i \in DOMAIN Tail(ops) : i + 1 \in DOMAIN ops /\ Tail(ops)[i] = ops[i + 1]
  BY HeadTailShape
<1>3. \A j \in DOMAIN ops :
        j = 1 \/ \E i \in DOMAIN Tail(ops) : Tail(ops)[i] = ops[j]
  BY HeadTailShape
<1> QED
  BY <1>1, <1>2, <1>3 DEF FactsOf

\* An op that is batched decides its fact from now on.
LEMMA LastOpsAppend ==
    ASSUME NEW ops \in Seq(Ops), NEW op \in Ops, NEW F, LastOpsDecide(ops, F)
    PROVE  LastOpsDecide(Append(ops, op), Batched(F, op))
<1> DEFINE more == Append(ops, op)
<1>1. /\ DOMAIN more = DOMAIN ops \cup {Len(ops) + 1}
      /\ \A i \in DOMAIN ops : more[i] = ops[i] /\ i < Len(ops) + 1
      /\ more[Len(ops) + 1] = op
  BY AppendProperties
<1> SUFFICES ASSUME NEW i \in DOMAIN more, LastOp(more, i)
             PROVE  (more[i].kind = "Insert") <=> (more[i].fact \in Batched(F, op))
  BY DEF LastOpsDecide
<1>2. CASE i = Len(ops) + 1
  BY <1>1, <1>2 DEF Batched
<1>3. CASE i \in DOMAIN ops
  <2>1. LastOp(ops, i) /\ ops[i].fact # op.fact
    BY <1>1, <1>3 DEF LastOp
  <2> QED
    BY <1>1, <1>3, <2>1 DEF LastOpsDecide, Batched
<1> QED
  BY <1>1, <1>2, <1>3

\* The first op leaves the pending ones: the others decide as before, and it
\* decides its fact itself when none of them is on that fact.
LEMMA LastOpsTail ==
    ASSUME NEW ops \in Seq(Ops), ops # <<>>, NEW F, LastOpsDecide(ops, F)
    PROVE  /\ LastOpsDecide(Tail(ops), F)
           /\ Head(ops).fact \in FactsOf(Tail(ops))
                \/ ((Head(ops).kind = "Insert") <=> (Head(ops).fact \in F))
<1>1. /\ DOMAIN ops \subseteq Nat \ {0}
      /\ DOMAIN Tail(ops) \subseteq Nat \ {0}
      /\ 1 \in DOMAIN ops /\ Head(ops) = ops[1]
      /\ \A i \in DOMAIN Tail(ops) : i + 1 \in DOMAIN ops /\ Tail(ops)[i] = ops[i + 1]
      /\ \A j \in DOMAIN ops : j = 1 \/ j - 1 \in DOMAIN Tail(ops)
  BY HeadTailShape
<1>2. LastOpsDecide(Tail(ops), F)
  <2> SUFFICES ASSUME NEW i \in DOMAIN Tail(ops), LastOp(Tail(ops), i)
               PROVE  (Tail(ops)[i].kind = "Insert") <=> (Tail(ops)[i].fact \in F)
    BY DEF LastOpsDecide
  <2>1. LastOp(ops, i + 1)
    <3> SUFFICES ASSUME NEW j \in DOMAIN ops, j > i + 1
                 PROVE  ops[j].fact # ops[i + 1].fact
      BY DEF LastOp
    <3>1. PICK k \in DOMAIN Tail(ops) : j = k + 1 /\ k > i
      BY <1>1
    <3> QED
      BY <1>1, <3>1 DEF LastOp
  <2> QED
    BY <1>1, <2>1 DEF LastOpsDecide
<1>3. ASSUME Head(ops).fact \notin FactsOf(Tail(ops))
      PROVE  (Head(ops).kind = "Insert") <=> (Head(ops).fact \in F)
  <2>1. LastOp(ops, 1)
    BY <1>1, <1>3 DEF LastOp, FactsOf
  <2> QED
    BY <1>1, <2>1 DEF LastOpsDecide
<1> QED
  BY <1>2, <1>3

\* A program that was just opened is described by the empty ledger.
LEMMA DescribedOpened ==
    ASSUME NEW n \in Programs, NEW s, NEW x,
           n \notin Persistent => x = Base[n]
    PROVE  Described(n, Opened(s, x), <<>>, {})
BY FactsOfEmpty DEF Described, Opened, EmptyLedger, Restored, LastOpsDecide

LEMMA DescribedBatch ==
    ASSUME NEW n \in Programs, NEW P \in StoredPrograms, NEW ops \in Seq(Ops),
           NEW op \in Ops, NEW silent, Described(n, P, ops, silent)
    PROVE  Described(n, [P EXCEPT !.facts = Batched(P.facts, op)], Append(ops, op), silent)
<1> DEFINE F == Batched(P.facts, op)
           Q == [P EXCEPT !.facts = F]
<1>1. LastOpsDecide(Append(ops, op), F)
  BY LastOpsAppend DEF Described
<1>2. FactsOf(Append(ops, op)) = FactsOf(ops) \cup {op.fact}
  BY FactsOfAppend
<1>3. Q.facts = F /\ Q.ledger = P.ledger
  BY DEF StoredPrograms
<1>4. F \subseteq P.facts \cup {op.fact} /\ P.facts \subseteq F \cup {op.fact}
  BY DEF Batched
<1> HIDE DEF F, Q
<1>5. Described(n, Q, Append(ops, op), silent)
  BY <1>1, <1>2, <1>3, <1>4 DEF Described
<1> QED
  BY <1>5 DEF F, Q

LEMMA DescribedNote ==
    ASSUME NEW n \in Programs, NEW P \in StoredPrograms, NEW ops \in Seq(Ops),
           ops # <<>>, NEW silent, Described(n, P, ops, silent)
    PROVE  Described(n, [P EXCEPT !.ledger = Note(P.ledger, Head(ops))], Tail(ops), silent)
<1> DEFINE op == Head(ops)
           L  == Note(P.ledger, op)
           Q  == [P EXCEPT !.ledger = L]
<1>1. op \in Ops /\ P.ledger \in Ledgers
  BY HeadTailType DEF StoredPrograms
<1>2. /\ LastOpsDecide(Tail(ops), P.facts)
      /\ op.fact \in FactsOf(Tail(ops)) \/ ((op.kind = "Insert") <=> (op.fact \in P.facts))
  BY LastOpsTail DEF Described
<1>3. FactsOf(ops) = FactsOf(Tail(ops)) \cup {op.fact}
  BY FactsOfTail
<1>4. Q.facts = P.facts /\ Q.ledger = L
  BY DEF StoredPrograms
<1>5. /\ op.kind = "Insert" =>
           /\ L.replicated = P.ledger.replicated \cup {op.fact}
           /\ L.retracted = P.ledger.retracted \ {op.fact}
      /\ op.kind # "Insert" /\ op.fact \in P.ledger.replicated =>
           /\ L.replicated = P.ledger.replicated \ {op.fact}
           /\ L.retracted = P.ledger.retracted
      /\ op.kind # "Insert" /\ op.fact \notin P.ledger.replicated =>
           /\ L.replicated = P.ledger.replicated
           /\ L.retracted = P.ledger.retracted \cup {op.fact}
  BY <1>1 DEF Note, NoteInsert, NoteRetract, Ledgers
<1> HIDE DEF op, L, Q
<1>6. Described(n, Q, Tail(ops), silent)
  <2>1. Q.ledger.replicated \cap Q.ledger.retracted = {}
    BY <1>4, <1>5 DEF Described
  <2>2. Q.ledger.replicated \subseteq Q.facts \cup FactsOf(Tail(ops)) \cup silent
    BY <1>2, <1>3, <1>4, <1>5 DEF Described
  <2>3. Q.ledger.retracted \cap Q.facts \subseteq FactsOf(Tail(ops)) \cup silent
    BY <1>2, <1>3, <1>4, <1>5 DEF Described
  <2>4. n \notin Persistent =>
          Q.facts \subseteq Restored(Base[n], Q.ledger) \cup FactsOf(Tail(ops)) \cup silent
    BY <1>2, <1>3, <1>4, <1>5 DEF Described, Restored
  <2> QED
    BY <1>2, <1>4, <2>1, <2>2, <2>3, <2>4 DEF Described
<1> QED
  BY <1>6 DEF op, L, Q

\* Pending ops that are given up become facts changed without a note.
LEMMA DescribedGiveUp ==
    ASSUME NEW n, NEW P, NEW ops, NEW silent, Described(n, P, ops, silent)
    PROVE  Described(n, P, <<>>, silent \cup FactsOf(ops))
BY FactsOfEmpty DEF Described, LastOpsDecide

LEMMA ExternalEmpty ==
    ASSUME NEW n \in Programs
    PROVE  External(n, <<>>) = Base[n]
BY DEF External, Lines

LEMMA SurvivorsEmpty ==
    ASSUME NEW lines \in Survivors(<<>>)
    PROVE  lines = <<>>
<1>1. Len(<<>>) = 0
  OBVIOUS
<1>2. \E k \in 0..0 : lines = SubSeq(<<>>, 1, k)
  <2>1. 0..0 - 1 = {}
    OBVIOUS
  <2> QED
    BY <1>1, <2>1 DEF Survivors
<1>3. SubSeq(<<>>, 1, 0) = <<>>
  OBVIOUS
<1> QED
  BY <1>2, <1>3

\* A program that LoadedFrom opens is described by its ledger.
LEMMA DescribedLoaded ==
    ASSUME NEW fs, NEW I, NEW n \in Programs, LoadedFrom(I, fs)[n] # Absent,
           n \notin Persistent => fs[n] = <<>>
    PROVE  Described(n, LoadedFrom(I, fs)[n], <<>>, {})
<1>1. PICK s : LoadedFrom(I, fs)[n] = Opened(s, External(n, fs[n]))
  BY DEF LoadedFrom
<1>2. n \notin Persistent => External(n, fs[n]) = Base[n]
  BY ExternalEmpty
<1> HIDE DEF External
<1>3. Described(n, Opened(s, External(n, fs[n])), <<>>, {})
  BY <1>2, DescribedOpened
<1> QED
  BY <1>1, <1>3

LEMMA StepLedgerInv == TypeOK /\ LedgerInv /\ [Next]_vars => LedgerInv'
<1> SUFFICES ASSUME TypeOK, LedgerInv, [Next]_vars,
                    NEW m \in Programs
             PROVE  /\ programs'[m] # Absent =>
                         Described(m, programs'[m], Pending(m)', unnoted'[m])
                    /\ m \notin Persistent => files'[m] = <<>>
  BY DEF LedgerInv
<1>0. /\ programs[m] # Absent => Described(m, programs[m], Pending(m), unnoted[m])
      /\ m \notin Persistent => files[m] = <<>>
  BY DEF LedgerInv
<1>1. ASSUME NEW c \in Commands, RejectMutate(c.name, c.ops)
      PROVE  /\ UNCHANGED <<programs, unnoted, files>>
             /\ Pending(m)' = Pending(m)
  BY <1>1 DEF RejectMutate, Pending
<1>2. ASSUME NEW c \in Commands, BeginMutate(c.name, c.ops)
      PROVE  /\ UNCHANGED <<programs, unnoted, files>>
             /\ Pending(m)' = Pending(m)
  BY <1>2 DEF BeginMutate, Pending, Idle
<1>3. CASE BatchOp
  <2> DEFINE op == Head(call.todo)
             n  == call.name
  <2>1. /\ op \in Ops
        /\ n \in Programs /\ programs[n] \in StoredPrograms
        /\ call \in Running /\ call # Idle /\ call.phase = "batch"
        /\ call.applied \in Seq(Ops)
    BY <1>3, InProgress, HeadTailType DEF BatchOp
  <2>2. UNCHANGED <<unnoted, files>>
    BY <1>3 DEF BatchOp
  <2>3. CASE Effective(programs[n].facts, op)
    <3>1. /\ programs' = [programs EXCEPT ![n].facts = Batched(programs[n].facts, op)]
          /\ call' = [call EXCEPT !.todo = Tail(call.todo),
                                  !.applied = Append(call.applied, op)]
      BY <1>3, <2>3 DEF BatchOp
    <3>2. /\ call' # Idle /\ call'.name = n /\ call'.phase = "batch"
          /\ call'.applied = Append(call.applied, op)
      BY <2>1, <3>1 DEF Running, Idle
    <3>3. CASE m = n
      <4>1. programs'[m] = [programs[m] EXCEPT !.facts = Batched(programs[m].facts, op)]
        BY <2>1, <3>1, <3>3 DEF TypeOK, Registries
      <4>2. Pending(m) = call.applied /\ Pending(m)' = Append(call.applied, op)
        BY <2>1, <3>2, <3>3 DEF Pending
      <4>3. Described(m, programs[m], call.applied, unnoted[m])
        BY <1>0, <2>1, <3>3, <4>2, ConstantTypes
      <4> HIDE DEF op
      <4> QED
        BY <1>0, <2>1, <2>2, <3>3, <4>1, <4>2, <4>3, DescribedBatch
    <3>4. CASE m # n
      BY <1>0, <2>1, <2>2, <3>1, <3>2, <3>4 DEF Pending, TypeOK, Registries
    <3> QED
      BY <3>3, <3>4
  <2>4. CASE ~Effective(programs[n].facts, op)
    <3>1. call' = [call EXCEPT !.todo = Tail(call.todo), !.skipped = call.skipped + 1]
      BY <1>3, <2>4 DEF BatchOp
    <3>2. /\ call' # Idle /\ call'.name = n /\ call'.phase = "batch"
          /\ call'.applied = call.applied
      BY <2>1, <3>1 DEF Running, Idle
    <3>3. Pending(m)' = Pending(m)
      BY <2>1, <3>2 DEF Pending
    <3> QED
      BY <1>0, <1>3, <2>2, <2>4, <3>3 DEF BatchOp
  <2> QED
    BY <2>3, <2>4
<1>4. ASSUME Commit
      PROVE  /\ UNCHANGED <<programs, unnoted, files>>
             /\ Pending(m)' = Pending(m)
  <2>1. call \in Running /\ call # Idle /\ call.phase = "batch"
    BY <1>4, InProgress DEF Commit
  <2>2. UNCHANGED <<programs, unnoted, files>>
    BY <1>4 DEF Commit
  <2>3. CASE call.applied = <<>>
    BY <1>4, <2>1, <2>2, <2>3 DEF Commit, Pending
  <2>4. CASE call.applied # <<>>
    <3>1. call' = [call EXCEPT !.phase = "note", !.todo = call.applied]
      BY <1>4, <2>4 DEF Commit
    <3>2. /\ call'.phase = "note" /\ call'.name = call.name
          /\ call'.todo = call.applied /\ call' # Idle
      BY <2>1, <3>1 DEF Running, Idle
    <3> QED
      BY <2>1, <2>2, <3>2 DEF Pending
  <2> QED
    BY <2>3, <2>4
<1>5. CASE CommitFails
  <2>1. /\ call \in Running /\ call # Idle /\ call.phase = "batch"
        /\ call.name \in Programs /\ programs[call.name] \in StoredPrograms
    BY <1>5, InProgress DEF CommitFails
  <2>2. /\ UNCHANGED <<programs, files>> /\ call' = Idle
        /\ unnoted' = [unnoted EXCEPT ![call.name] = @ \cup FactsOf(call.applied)]
    BY <1>5 DEF CommitFails
  <2>3. Pending(m)' = <<>>
    BY <2>2 DEF Pending
  <2>4. CASE m = call.name
    <3>1. Pending(m) = call.applied
      BY <2>1, <2>4 DEF Pending
    <3>2. unnoted'[m] = unnoted[m] \cup FactsOf(call.applied)
      BY <2>1, <2>2, <2>4 DEF TypeOK
    <3> QED
      BY <1>0, <2>2, <2>3, <3>1, <3>2, DescribedGiveUp
  <2>5. CASE m # call.name
    <3>1. Pending(m) = <<>>
      BY <2>5 DEF Pending
    <3>2. unnoted'[m] = unnoted[m]
      BY <2>2, <2>5 DEF TypeOK
    <3> QED
      BY <1>0, <2>2, <2>3, <3>1, <3>2
  <2> QED
    BY <2>4, <2>5
<1>6. CASE NoteOp
  <2> DEFINE op == Head(call.todo)
             n  == call.name
  <2>1. /\ n \in Programs /\ programs[n] \in StoredPrograms
        /\ call \in Running /\ call # Idle /\ call.phase = "note"
        /\ call.todo \in Seq(Ops) /\ call.todo # <<>>
    BY <1>6, InProgress DEF NoteOp
  <2>2. /\ UNCHANGED unnoted
        /\ programs' = [programs EXCEPT ![n].ledger = Note(programs[n].ledger, op)]
        /\ call' = [call EXCEPT !.todo = Tail(call.todo)]
        /\ m \notin Persistent => files'[m] = files[m]
    BY <1>6 DEF NoteOp, TypeOK
  <2>3. /\ call' # Idle /\ call'.name = n /\ call'.phase = "note"
        /\ call'.todo = Tail(call.todo)
    BY <2>1, <2>2 DEF Running, Idle
  <2>4. CASE m = n
    <3>1. programs'[m] = [programs[m] EXCEPT !.ledger = Note(programs[m].ledger, op)]
      BY <2>1, <2>2, <2>4 DEF TypeOK, Registries
    <3>2. Pending(m) = call.todo /\ Pending(m)' = Tail(call.todo)
      BY <2>1, <2>3, <2>4 DEF Pending
    <3>3. Described(m, programs[m], call.todo, unnoted[m])
      BY <1>0, <2>1, <2>4, <3>2, ConstantTypes
    <3> QED
      BY <1>0, <2>1, <2>2, <2>4, <3>1, <3>2, <3>3, DescribedNote
  <2>5. CASE m # n
    BY <1>0, <2>1, <2>2, <2>3, <2>5 DEF Pending, TypeOK, Registries
  <2> QED
    BY <2>4, <2>5
<1>7. CASE AppendFails
  <2> DEFINE op == Head(call.todo)
             n  == call.name
             rest == Tail(call.todo)
  <2>1. /\ n \in Programs /\ programs[n] \in StoredPrograms
        /\ call \in Running /\ call # Idle /\ call.phase = "note"
        /\ call.todo \in Seq(Ops) /\ call.todo # <<>>
    BY <1>7, InProgress DEF AppendFails
  <2>2. /\ UNCHANGED files
        /\ programs' = [programs EXCEPT ![n].ledger = Note(programs[n].ledger, op)]
        /\ unnoted' = [unnoted EXCEPT ![n] = @ \cup FactsOf(rest)]
        /\ call' = Idle
    BY <1>7 DEF AppendFails
  <2>3. Pending(m)' = <<>>
    BY <2>2 DEF Pending
  <2>4. CASE m = n
    <3>1. programs'[m] = [programs[m] EXCEPT !.ledger = Note(programs[m].ledger, op)]
      BY <2>1, <2>2, <2>4 DEF TypeOK, Registries
    <3>2. unnoted'[m] = unnoted[m] \cup FactsOf(rest)
      BY <2>1, <2>2, <2>4 DEF TypeOK
    <3>3. Pending(m) = call.todo
      BY <2>1, <2>4 DEF Pending
    <3>4. Described(m, programs[m], call.todo, unnoted[m])
      BY <1>0, <2>1, <2>4, <3>3, ConstantTypes
    <3>5. Described(m, programs'[m], rest, unnoted[m])
      BY <2>1, <2>4, <3>1, <3>4, DescribedNote
    <3> HIDE DEF rest
    <3>6. Described(m, programs'[m], <<>>, unnoted'[m])
      BY <3>2, <3>5, DescribedGiveUp
    <3> QED
      BY <1>0, <2>2, <2>3, <3>6
  <2>5. CASE m # n
    <3>1. Pending(m) = <<>>
      BY <2>5 DEF Pending
    <3>2. unnoted'[m] = unnoted[m] /\ programs'[m] = programs[m]
      BY <2>2, <2>5 DEF TypeOK, Registries
    <3> QED
      BY <1>0, <2>2, <2>3, <3>1, <3>2
  <2> QED
    BY <2>4, <2>5
<1>8. ASSUME FinishMutate
      PROVE  /\ UNCHANGED <<programs, unnoted, files>>
             /\ Pending(m)' = Pending(m)
  BY <1>8, InProgress DEF FinishMutate, Pending
<1>9. ASSUME NEW n \in Programs, NEW s, LoadProgram(n, s)
      PROVE  /\ programs'[m] # Absent =>
                  Described(m, programs'[m], Pending(m)', unnoted'[m])
             /\ m \notin Persistent => files'[m] = <<>>
  <2>1. Pending(m) = <<>> /\ Pending(m)' = <<>> /\ UNCHANGED files
    BY <1>9 DEF LoadProgram, Pending
  <2>2. CASE Loadable(n, s, files[n]) /\ m = n
    <3>1. programs'[m] = Opened(s, External(m, files[m])) /\ unnoted'[m] = {}
      BY <1>9, <2>2 DEF LoadProgram, Forget, TypeOK, Registries
    <3>2. m \notin Persistent => External(m, files[m]) = Base[m]
      BY <1>0, ExternalEmpty
    <3> HIDE DEF External
    <3>3. Described(m, Opened(s, External(m, files[m])), <<>>, {})
      BY <3>2, DescribedOpened
    <3> QED
      BY <1>0, <2>1, <3>1, <3>3
  <2>3. CASE ~(Loadable(n, s, files[n]) /\ m = n)
    <3>1. programs'[m] = programs[m] /\ unnoted'[m] = unnoted[m]
      BY <1>9, <2>3 DEF LoadProgram, Forget, TypeOK, Registries
    <3> QED
      BY <1>0, <2>1, <3>1
  <2> QED
    BY <2>2, <2>3
<1>10. ASSUME NEW n \in Programs, DeleteProgram(n)
       PROVE  /\ Pending(m)' = Pending(m) /\ UNCHANGED files
              /\ programs'[m] # Absent =>
                   programs'[m] = programs[m] /\ unnoted'[m] = unnoted[m]
  BY <1>10 DEF DeleteProgram, Forget, Pending, TypeOK, Registries
<1>11. ASSUME NEW n \in Programs, Reload(n)
       PROVE  \/ /\ UNCHANGED <<programs, unnoted, files>>
                 /\ Pending(m)' = Pending(m)
              \/ \E s : LoadProgram(n, s)
  BY <1>11 DEF Reload, Pending
<1>12. CASE ReloadAll
  <2>1. PICK I : programs' = LoadedFrom(I, files)
    BY <1>12 DEF ReloadAll
  <2>2. Pending(m)' = <<>> /\ unnoted'[m] = {} /\ UNCHANGED files
    BY <1>12 DEF ReloadAll, Forget, Pending
  <2> QED
    BY <1>0, <2>1, <2>2, DescribedLoaded
<1>13. CASE Restart
  <2>1. m \notin Persistent => files'[m] = <<>>
    BY <1>0, <1>13, SurvivorsEmpty DEF Restart
  <2>2. Pending(m)' = <<>> /\ unnoted'[m] = {}
    BY <1>13 DEF Restart, Forget, Pending
  <2>3. PICK I : programs' = LoadedFrom(I, files')
    BY <1>13 DEF Restart
  <2> QED
    BY <2>1, <2>2, <2>3, DescribedLoaded
<1>14. ASSUME UNCHANGED vars
       PROVE  /\ UNCHANGED <<programs, unnoted, files>>
              /\ Pending(m)' = Pending(m)
  BY <1>14 DEF vars, Pending
<1>15. ASSUME UNCHANGED <<programs, unnoted, files>>, Pending(m)' = Pending(m)
       PROVE  /\ programs'[m] # Absent =>
                   Described(m, programs'[m], Pending(m)', unnoted'[m])
              /\ m \notin Persistent => files'[m] = <<>>
  BY <1>0, <1>15
<1> QED
  BY <1>0, <1>1, <1>2, <1>3, <1>4, <1>5, <1>6, <1>7, <1>8, <1>9, <1>10, <1>11, <1>12,
     <1>13, <1>14, <1>15 DEF Next

LEMMA LedgerInvariant == Spec => []LedgerInv
<1>1. Init => LedgerInv
  BY DEF Init, LedgerInv, EmptyRegistry
<1> QED
  BY <1>1, TypeCorrect, StepLedgerInv, PTL DEF Spec

\* The ledger describes the store between commands, whatever commands were sent
\* and whichever of them failed half-way: no fact is replicated and retracted at
\* once, replicated facts are present and retracted ones absent, but for the
\* facts of failed commands (note_insert and note_retract of store.rs).
THEOREM LedgerIsSound == Spec => []LedgerSound
<1>1. LedgerInv => LedgerSound
  BY FactsOfEmpty DEF LedgerInv, LedgerSound, Described, Pending
<1> QED
  BY <1>1, LedgerInvariant, PTL

\* A snapshot restore loses no fact: what install_snapshot_state rebuilds from
\* the ledger and the external sources contains every present fact, but for the
\* facts of failed commands.
THEOREM RestoreKeepsFacts == Spec => []RestoreLosesNothing
<1>1. LedgerInv => RestoreLosesNothing
  BY FactsOfEmpty DEF LedgerInv, RestoreLosesNothing, Described, Pending
<1> QED
  BY <1>1, LedgerInvariant, PTL

----------------------------------------------------------------------------
(* the mutation log *)

\* What the log of n would bring back is in the facts of P, up to pending ops
\* and facts changed without a log line.
LogCovered(n, P, ops, lines, silent) ==
    Readable(lines) => External(n, lines) \subseteq P.facts \cup FactsOf(ops) \cup silent

LogInv ==
    \A n \in Persistent : programs[n] # Absent =>
        LogCovered(n, programs[n], Pending(n), files[n], unlogged[n])

LEMMA LinesAppend ==
    ASSUME NEW lines \in LogLines, NEW op \in Ops, NEW kind
    PROVE  Lines(Append(lines, op), kind) =
             Lines(lines, kind) \cup {Reparse[x.fact] : x \in {y \in {op} : y.kind = kind}}
<1> DEFINE more == Append(lines, op)
<1>1. /\ DOMAIN more = DOMAIN lines \cup {Len(lines) + 1}
      /\ \A i \in DOMAIN lines : more[i] = lines[i]
      /\ more[Len(lines) + 1] = op
  BY AppendProperties DEF LogLines
<1> HIDE DEF more
<1>2. Lines(more, kind) =
        Lines(lines, kind) \cup {Reparse[x.fact] : x \in {y \in {op} : y.kind = kind}}
  BY <1>1 DEF Lines
<1> QED
  BY <1>2 DEF more

LEMMA ReadablePrefix ==
    ASSUME NEW lines \in LogLines, NEW op \in Ops, Readable(Append(lines, op))
    PROVE  Readable(lines) /\ Reparse[op.fact] # Unparsable
<1>1. \A i \in DOMAIN lines :
        i \in DOMAIN Append(lines, op) /\ Append(lines, op)[i] = lines[i]
  BY AppendProperties DEF LogLines
<1>2. Unparsable \notin Lines(lines, "Insert") \cup Lines(lines, "Retract")
  BY LinesAppend DEF Readable
<1>3. op.kind \in {"Insert", "Retract"}
  BY DEF Ops
<1>4. Reparse[op.fact] # Unparsable
  BY <1>3, LinesAppend DEF Readable
<1> QED
  BY <1>1, <1>2, <1>4 DEF Readable

LEMMA ExternalAppend ==
    ASSUME PrintsFaithfully, NEW n \in Programs, NEW lines \in LogLines,
           NEW op \in Ops, Readable(Append(lines, op)),
           NEW f \in External(n, Append(lines, op))
    PROVE  /\ f \in External(n, lines) \/ (op.kind = "Insert" /\ f = op.fact)
           /\ op.kind = "Retract" => f # op.fact
<1>1. Reparse[op.fact] = op.fact
  BY ReadablePrefix DEF PrintsFaithfully, Ops
<1>2. op.kind \in {"Insert", "Retract"}
  BY DEF Ops
<1>3. \A kind : Lines(Append(lines, op), kind) =
        Lines(lines, kind) \cup {Reparse[x.fact] : x \in {y \in {op} : y.kind = kind}}
  BY LinesAppend
<1> QED
  BY <1>1, <1>2, <1>3 DEF External

LEMMA LogCoveredNote ==
    ASSUME PrintsFaithfully, NEW n \in Programs, NEW P \in StoredPrograms,
           NEW ops \in Seq(Ops), ops # <<>>, LastOpsDecide(ops, P.facts),
           NEW lines \in LogLines, NEW silent, LogCovered(n, P, ops, lines, silent)
    PROVE  LogCovered(n, P, Tail(ops), Append(lines, Head(ops)), silent)
<1> DEFINE op == Head(ops)
<1> SUFFICES ASSUME Readable(Append(lines, op)),
                    NEW f \in External(n, Append(lines, op))
             PROVE  f \in P.facts \cup FactsOf(Tail(ops)) \cup silent
  BY DEF LogCovered
<1>1. op \in Ops
  BY HeadTailType
<1>2. op.fact \in FactsOf(Tail(ops)) \/ ((op.kind = "Insert") <=> (op.fact \in P.facts))
  BY LastOpsTail
<1>3. FactsOf(ops) = FactsOf(Tail(ops)) \cup {op.fact}
  BY FactsOfTail
<1> HIDE DEF op
<1>4. /\ f \in External(n, lines) \/ (op.kind = "Insert" /\ f = op.fact)
      /\ op.kind = "Retract" => f # op.fact
  BY <1>1, ExternalAppend
<1>5. Readable(lines)
  BY <1>1, ReadablePrefix
<1>6. op.kind \in {"Insert", "Retract"}
  BY <1>1 DEF Ops
<1> QED
  BY <1>2, <1>3, <1>4, <1>5, <1>6 DEF LogCovered

LEMMA LogCoveredBatch ==
    ASSUME NEW n, NEW P \in StoredPrograms, NEW ops \in Seq(Ops), NEW op \in Ops,
           NEW lines, NEW silent, LogCovered(n, P, ops, lines, silent)
    PROVE  LogCovered(n, [P EXCEPT !.facts = Batched(P.facts, op)], Append(ops, op),
                      lines, silent)
<1>1. FactsOf(Append(ops, op)) = FactsOf(ops) \cup {op.fact}
  BY FactsOfAppend
<1>2. P.facts \subseteq Batched(P.facts, op) \cup {op.fact}
  BY DEF Batched
<1>3. [P EXCEPT !.facts = Batched(P.facts, op)].facts = Batched(P.facts, op)
  BY DEF StoredPrograms
<1> QED
  BY <1>1, <1>2, <1>3 DEF LogCovered

LEMMA LogCoveredGiveUp ==
    ASSUME NEW n, NEW P, NEW ops, NEW lines, NEW silent, LogCovered(n, P, ops, lines, silent)
    PROVE  LogCovered(n, P, <<>>, lines, silent \cup FactsOf(ops))
BY FactsOfEmpty DEF LogCovered

LEMMA LogCoveredLoaded ==
    ASSUME NEW fs, NEW I, NEW n \in Programs, LoadedFrom(I, fs)[n] # Absent
    PROVE  LogCovered(n, LoadedFrom(I, fs)[n], <<>>, fs[n], {})
<1>1. PICK s : LoadedFrom(I, fs)[n] = Opened(s, External(n, fs[n]))
  BY DEF LoadedFrom
<1> QED
  BY <1>1 DEF LogCovered, Opened

LEMMA StepLogInv ==
    PrintsFaithfully /\ TypeOK /\ LedgerInv /\ LogInv /\ [Next]_vars => LogInv'
<1> SUFFICES ASSUME PrintsFaithfully, TypeOK, LedgerInv, LogInv, [Next]_vars,
                    NEW m \in Persistent, programs'[m] # Absent
             PROVE  LogCovered(m, programs'[m], Pending(m)', files'[m], unlogged'[m])
  BY DEF LogInv
<1>0. /\ m \in Programs
      /\ programs[m] # Absent =>
           LogCovered(m, programs[m], Pending(m), files[m], unlogged[m])
      /\ programs[m] # Absent => LastOpsDecide(Pending(m), programs[m].facts)
  BY ConstantTypes DEF LogInv, LedgerInv, Described
<1>1. ASSUME NEW c \in Commands, RejectMutate(c.name, c.ops)
      PROVE  UNCHANGED <<programs, unlogged, files>> /\ Pending(m)' = Pending(m)
  BY <1>1 DEF RejectMutate, Pending
<1>2. ASSUME NEW c \in Commands, BeginMutate(c.name, c.ops)
      PROVE  UNCHANGED <<programs, unlogged, files>> /\ Pending(m)' = Pending(m)
  BY <1>2 DEF BeginMutate, Pending, Idle
<1>3. CASE BatchOp
  <2> DEFINE op == Head(call.todo)
             n  == call.name
  <2>1. /\ op \in Ops
        /\ n \in Programs /\ programs[n] \in StoredPrograms
        /\ call \in Running /\ call # Idle /\ call.phase = "batch"
        /\ call.applied \in Seq(Ops)
    BY <1>3, InProgress, HeadTailType DEF BatchOp
  <2>2. UNCHANGED <<unlogged, files>>
    BY <1>3 DEF BatchOp
  <2>3. CASE Effective(programs[n].facts, op)
    <3>1. /\ programs' = [programs EXCEPT ![n].facts = Batched(programs[n].facts, op)]
          /\ call' = [call EXCEPT !.todo = Tail(call.todo),
                                  !.applied = Append(call.applied, op)]
      BY <1>3, <2>3 DEF BatchOp
    <3>2. /\ call' # Idle /\ call'.name = n /\ call'.phase = "batch"
          /\ call'.applied = Append(call.applied, op)
      BY <2>1, <3>1 DEF Running, Idle
    <3>3. CASE m = n
      <4>1. programs'[m] = [programs[m] EXCEPT !.facts = Batched(programs[m].facts, op)]
        BY <2>1, <3>1, <3>3 DEF TypeOK, Registries
      <4>2. Pending(m) = call.applied /\ Pending(m)' = Append(call.applied, op)
        BY <2>1, <3>2, <3>3 DEF Pending
      <4>3. LogCovered(m, programs[m], call.applied, files[m], unlogged[m])
        BY <1>0, <2>1, <3>3, <4>2, ConstantTypes
      <4> HIDE DEF op
      <4> QED
        BY <2>1, <2>2, <3>3, <4>1, <4>2, <4>3, LogCoveredBatch
    <3>4. CASE m # n
      BY <1>0, <2>1, <2>2, <3>1, <3>2, <3>4 DEF Pending, TypeOK, Registries
    <3> QED
      BY <3>3, <3>4
  <2>4. CASE ~Effective(programs[n].facts, op)
    <3>1. call' = [call EXCEPT !.todo = Tail(call.todo), !.skipped = call.skipped + 1]
      BY <1>3, <2>4 DEF BatchOp
    <3>2. /\ call' # Idle /\ call'.name = n /\ call'.phase = "batch"
          /\ call'.applied = call.applied
      BY <2>1, <3>1 DEF Running, Idle
    <3>3. Pending(m)' = Pending(m)
      BY <2>1, <3>2 DEF Pending
    <3> QED
      BY <1>0, <1>3, <2>2, <2>4, <3>3 DEF BatchOp
  <2> QED
    BY <2>3, <2>4
<1>4. ASSUME Commit
      PROVE  UNCHANGED <<programs, unlogged, files>> /\ Pending(m)' = Pending(m)
  <2>1. call \in Running /\ call # Idle /\ call.phase = "batch"
    BY <1>4, InProgress DEF Commit
  <2>2. UNCHANGED <<programs, unlogged, files>>
    BY <1>4 DEF Commit
  <2>3. CASE call.applied = <<>>
    BY <1>4, <2>1, <2>2, <2>3 DEF Commit, Pending
  <2>4. CASE call.applied # <<>>
    <3>1. call' = [call EXCEPT !.phase = "note", !.todo = call.applied]
      BY <1>4, <2>4 DEF Commit
    <3>2. /\ call'.phase = "note" /\ call'.name = call.name
          /\ call'.todo = call.applied /\ call' # Idle
      BY <2>1, <3>1 DEF Running, Idle
    <3> QED
      BY <2>1, <2>2, <3>2 DEF Pending
  <2> QED
    BY <2>3, <2>4
<1>5. CASE CommitFails
  <2>1. /\ call \in Running /\ call # Idle /\ call.phase = "batch"
        /\ call.name \in Programs
    BY <1>5, InProgress DEF CommitFails
  <2>2. /\ UNCHANGED <<programs, files>> /\ call' = Idle
        /\ unlogged' = [unlogged EXCEPT ![call.name] = @ \cup FactsOf(call.applied)]
    BY <1>5 DEF CommitFails
  <2>3. Pending(m)' = <<>>
    BY <2>2 DEF Pending
  <2>4. CASE m = call.name
    <3>1. Pending(m) = call.applied
      BY <2>1, <2>4 DEF Pending
    <3>2. unlogged'[m] = unlogged[m] \cup FactsOf(call.applied)
      BY <2>1, <2>2, <2>4 DEF TypeOK
    <3> QED
      BY <1>0, <2>2, <2>3, <3>1, <3>2, LogCoveredGiveUp
  <2>5. CASE m # call.name
    BY <1>0, <2>2, <2>3, <2>5 DEF Pending, TypeOK
  <2> QED
    BY <2>4, <2>5
<1>6. CASE NoteOp
  <2> DEFINE op == Head(call.todo)
             n  == call.name
  <2>1. /\ n \in Programs /\ programs[n] \in StoredPrograms
        /\ call \in Running /\ call # Idle /\ call.phase = "note"
        /\ call.todo \in Seq(Ops) /\ call.todo # <<>>
    BY <1>6, InProgress DEF NoteOp
  <2>2. /\ UNCHANGED unlogged
        /\ programs' = [programs EXCEPT ![n].ledger = Note(programs[n].ledger, op)]
        /\ call' = [call EXCEPT !.todo = Tail(call.todo)]
        /\ files' = IF n \in Persistent
                    THEN [files EXCEPT ![n] = Append(files[n], op)] ELSE files
    BY <1>6 DEF NoteOp
  <2>3. /\ call' # Idle /\ call'.name = n /\ call'.phase = "note"
        /\ call'.todo = Tail(call.todo)
    BY <2>1, <2>2 DEF Running, Idle
  <2>4. CASE m = n
    <3>1. programs'[m].facts = programs[m].facts
      BY <2>1, <2>2, <2>4 DEF TypeOK, Registries, StoredPrograms
    <3>2. Pending(m) = call.todo /\ Pending(m)' = Tail(call.todo)
      BY <2>1, <2>3, <2>4 DEF Pending
    <3>3. /\ LogCovered(m, programs[m], call.todo, files[m], unlogged[m])
          /\ LastOpsDecide(call.todo, programs[m].facts)
      BY <1>0, <2>1, <2>4, <3>2, ConstantTypes
    <3>4. files'[m] = Append(files[m], op) /\ files[m] \in LogLines
      BY <1>0, <2>1, <2>2, <2>4 DEF TypeOK
    <3>5. LogCovered(m, programs[m], Tail(call.todo), Append(files[m], op), unlogged[m])
      BY <1>0, <2>1, <2>4, <3>3, <3>4, LogCoveredNote
    <3> QED
      BY <2>2, <3>1, <3>2, <3>4, <3>5 DEF LogCovered
  <2>5. CASE m # n
    <3>1. programs'[m] = programs[m] /\ files'[m] = files[m] /\ unlogged'[m] = unlogged[m]
      BY <2>2, <2>5 DEF TypeOK, Registries
    <3>2. Pending(m) = <<>> /\ Pending(m)' = <<>>
      BY <2>3, <2>5 DEF Pending
    <3> QED
      BY <1>0, <3>1, <3>2
  <2> QED
    BY <2>4, <2>5
<1>7. CASE AppendFails
  <2> DEFINE n == call.name
  <2>1. /\ n \in Programs /\ programs[n] \in StoredPrograms
        /\ call \in Running /\ call # Idle /\ call.phase = "note"
    BY <1>7, InProgress DEF AppendFails
  <2>2. /\ UNCHANGED files
        /\ programs' = [programs EXCEPT ![n].ledger = Note(programs[n].ledger, Head(call.todo))]
        /\ unlogged' = [unlogged EXCEPT ![n] = @ \cup FactsOf(call.todo)]
        /\ call' = Idle
    BY <1>7 DEF AppendFails
  <2>3. Pending(m)' = <<>>
    BY <2>2 DEF Pending
  <2>4. CASE m = n
    <3>1. programs'[m].facts = programs[m].facts
      BY <2>1, <2>2, <2>4 DEF TypeOK, Registries, StoredPrograms
    <3>2. unlogged'[m] = unlogged[m] \cup FactsOf(call.todo)
      BY <2>1, <2>2, <2>4 DEF TypeOK
    <3>3. Pending(m) = call.todo
      BY <2>1, <2>4 DEF Pending
    <3>4. LogCovered(m, programs[m], call.todo, files[m], unlogged[m])
      BY <1>0, <2>1, <2>4, <3>3, ConstantTypes
    <3>5. LogCovered(m, programs[m], <<>>, files[m], unlogged'[m])
      BY <3>2, <3>4, LogCoveredGiveUp
    <3> QED
      BY <2>2, <2>3, <3>1, <3>5 DEF LogCovered
  <2>5. CASE m # n
    <3>1. programs'[m] = programs[m] /\ unlogged'[m] = unlogged[m]
      BY <2>2, <2>5 DEF TypeOK, Registries
    <3>2. Pending(m) = <<>>
      BY <2>5 DEF Pending
    <3> QED
      BY <1>0, <2>2, <2>3, <3>1, <3>2
  <2> QED
    BY <2>4, <2>5
<1>8. ASSUME FinishMutate
      PROVE  UNCHANGED <<programs, unlogged, files>> /\ Pending(m)' = Pending(m)
  BY <1>8, InProgress DEF FinishMutate, Pending
<1>9. ASSUME NEW n \in Programs, NEW s, LoadProgram(n, s)
      PROVE  LogCovered(m, programs'[m], Pending(m)', files'[m], unlogged'[m])
  <2>1. Pending(m) = <<>> /\ Pending(m)' = <<>> /\ UNCHANGED files
    BY <1>9 DEF LoadProgram, Pending
  <2>2. CASE Loadable(n, s, files[n]) /\ m = n
    <3>1. programs'[m].facts = External(m, files[m])
      BY <1>9, <2>2 DEF LoadProgram, Opened, TypeOK, Registries
    <3> QED
      BY <2>1, <3>1 DEF LogCovered
  <2>3. CASE ~(Loadable(n, s, files[n]) /\ m = n)
    <3>1. programs'[m] = programs[m] /\ unlogged'[m] = unlogged[m]
      BY <1>0, <1>9, <2>3 DEF LoadProgram, Forget, TypeOK, Registries
    <3> QED
      BY <1>0, <2>1, <3>1
  <2> QED
    BY <2>2, <2>3
<1>10. ASSUME NEW n \in Programs, DeleteProgram(n)
       PROVE  /\ Pending(m)' = Pending(m) /\ UNCHANGED files
              /\ programs'[m] = programs[m] /\ unlogged'[m] = unlogged[m]
  BY <1>0, <1>10 DEF DeleteProgram, Forget, Pending, TypeOK, Registries
<1>11. ASSUME NEW n \in Programs, Reload(n)
       PROVE  \/ /\ UNCHANGED <<programs, unlogged, files>>
                 /\ Pending(m)' = Pending(m)
              \/ \E s : LoadProgram(n, s)
  BY <1>11 DEF Reload, Pending
<1>12. CASE ReloadAll
  <2>1. PICK I : programs' = LoadedFrom(I, files)
    BY <1>12 DEF ReloadAll
  <2>2. Pending(m)' = <<>> /\ unlogged'[m] = {} /\ UNCHANGED files
    BY <1>0, <1>12 DEF ReloadAll, Forget, Pending
  <2> QED
    BY <1>0, <2>1, <2>2, LogCoveredLoaded
<1>13. CASE Restart
  <2>1. Pending(m)' = <<>> /\ unlogged'[m] = {}
    BY <1>0, <1>13 DEF Restart, Forget, Pending
  <2>2. PICK I : programs' = LoadedFrom(I, files')
    BY <1>13 DEF Restart
  <2> QED
    BY <1>0, <2>1, <2>2, LogCoveredLoaded
<1>14. ASSUME UNCHANGED vars
       PROVE  UNCHANGED <<programs, unlogged, files>> /\ Pending(m)' = Pending(m)
  BY <1>14 DEF vars, Pending
<1>15. ASSUME UNCHANGED <<programs, unlogged, files>>, Pending(m)' = Pending(m)
       PROVE  LogCovered(m, programs'[m], Pending(m)', files'[m], unlogged'[m])
  BY <1>0, <1>15
<1> QED
  BY <1>0, <1>1, <1>2, <1>3, <1>4, <1>5, <1>6, <1>7, <1>8, <1>9, <1>10, <1>11, <1>12,
     <1>13, <1>14, <1>15 DEF Next

\* A restart never brings back a fact that was retracted: when no printed fact
\* parses back as another one, what load_data reads from the files of a loaded
\* persistent program is present, but for facts whose change the log never got.
THEOREM RestartIsSafe == Spec => []RestartNeverResurrects
<1>1. Init => LogInv
  BY ConstantTypes DEF Init, LogInv, EmptyRegistry
<1>2. LogInv => RestartNeverResurrects
  BY FactsOfEmpty DEF LogInv, LogCovered, RestartNeverResurrects, Pending
<1>3. ~PrintsFaithfully => RestartNeverResurrects
  BY DEF RestartNeverResurrects
<1>4. CASE PrintsFaithfully
  BY <1>1, <1>2, <1>4, TypeCorrect, LedgerInvariant, StepLogInv, PTL DEF Spec
<1>5. CASE ~PrintsFaithfully
  BY <1>3, <1>5, PTL
<1> QED
  BY <1>4, <1>5
=============================================================================
