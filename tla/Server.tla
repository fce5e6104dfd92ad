------------------------------- MODULE Server -------------------------------
(***************************************************************************)
(* The server beneath its operator and its clients: a node that changes    *)
(* from its own mutation logs to the replicated log (Startup), a cluster   *)
(* that answers clients (ClusterReads), or the write-ahead log that one    *)
(* node keeps (WriteAheadLog).  They are looked at one at a time; part     *)
(* says which.                                                             *)
(***************************************************************************)
EXTENDS Startup, ClusterReads, WriteAheadLog

VARIABLE part

serverVars == <<part, vars, startVars, clusterVars, walVars>>

ServerInit ==
    /\ part \in {"start", "cluster", "wal"}
    /\ StartInit /\ ClusterInit /\ WalInit

ServerNext ==
    \/ part = "start" /\ StartNext /\ UNCHANGED <<part, clusterVars, walVars>>
    \/ part = "cluster" /\ ClusterNext /\ UNCHANGED <<part, vars, startVars, walVars>>
    \/ part = "wal" /\ WalNext /\ UNCHANGED <<part, vars, startVars, clusterVars>>

ServerSpec == ServerInit /\ [][ServerNext]_serverVars
=============================================================================
