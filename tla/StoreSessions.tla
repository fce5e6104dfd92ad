--------------------------- MODULE StoreSessions ---------------------------
(***************************************************************************)
(* Sessions of the clients that the stores have outside the driver.  A     *)
(* behaviour is one of: a client of the trait Store that calls MemStore    *)
(* and DiskStore side by side (StoreTiers), a host program that calls the  *)
(* C interface over a MemStore (FfiSession), or the owner of a Database    *)
(* with its cache of derived facts (Database).                             *)
(***************************************************************************)
EXTENDS StoreTiers, FfiSession, Database

VARIABLE client

sessionVars == <<client, tierVars, hostVars, vars>>

TierIdle ==
    /\ session = {} /\ mem = MemNew /\ disk = DiskNew /\ held = DiskOpen(DiskNew)
    /\ todo = <<>> /\ kept = {} /\ overwritten = {} /\ missed = {}
    /\ storeCalls = 0 /\ crashes = 0

HostIdle ==
    /\ engine = Freed /\ cursors = [c \in Cursors |-> NoCursor]
    /\ blob = <<>> /\ last = NoAnswer /\ calls = 0

DatabaseIdle ==
    /\ dir = [facts |-> {}, stamp |-> 0] /\ contents = [i \in 0..MaxEdits |-> {}]
    /\ meta = None /\ idb = None /\ db = None /\ call = Idle

SessionInit ==
    \/ client = "store"    /\ TierInit /\ HostIdle /\ DatabaseIdle
    \/ client = "host"     /\ TierIdle /\ HostInit /\ DatabaseIdle
    \/ client = "database" /\ TierIdle /\ HostIdle /\ Init

SessionNext ==
    \/ client = "store"    /\ TierNext /\ UNCHANGED <<client, hostVars, vars>>
    \/ client = "host"     /\ HostNext /\ UNCHANGED <<client, tierVars, vars>>
    \/ client = "database" /\ Next /\ UNCHANGED <<client, tierVars, hostVars>>

SessionSpec == SessionInit /\ [][SessionNext]_sessionVars
=============================================================================
