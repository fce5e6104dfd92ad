------------------------------ MODULE Language ------------------------------
(***************************************************************************)
(* The language layer, from the text to the facts.  A behaviour is one of: *)
(* a program that is read, stratified and lowered (FrontEnd), a program    *)
(* that is checked, planned, interpreted and compiled (RulePipeline), or a *)
(* value that the layers type, compute, write and read (ValueLaws).  The   *)
(* three share the terms, the types and the built-in functions.            *)
(***************************************************************************)
EXTENDS FrontEnd, RulePipeline, ValueLaws

vars == <<frontVars, ruleVars, lawVars>>

FrontIdle ==
    /\ text = [program |-> <<>>, style |-> ""] /\ phase = "idle"
    /\ merged = [decls |-> <<>>, clauses |-> <<>>]
    /\ unread = 0 /\ strata = <<>> /\ ir = NewContext

RuleIdle ==
    /\ source = <<>> /\ hash = FALSE /\ store = 0 /\ plans = <<>> /\ pushed = {}
    /\ stage = "idle" /\ at = 0 /\ derived = {} /\ error = "" /\ executed = NotRun

LawIdle == task = [kind |-> ""] /\ step = "idle" /\ found = <<>>

Init ==
    \/ FrontInit /\ RuleIdle /\ LawIdle
    \/ FrontIdle /\ RuleInit /\ LawIdle
    \/ FrontIdle /\ RuleIdle /\ LawInit

Next ==
    \/ FrontNext /\ UNCHANGED <<ruleVars, lawVars>>
    \/ RuleNext /\ UNCHANGED <<frontVars, lawVars>>
    \/ LawNext /\ UNCHANGED <<frontVars, ruleVars>>

Spec == Init /\ [][Next]_vars
=============================================================================
