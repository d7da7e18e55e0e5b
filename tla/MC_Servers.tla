----------------------------- MODULE MC_Servers -----------------------------
(***************************************************************************)
(* A node labelled controller and worker running Linux.  Four server       *)
(* configs: one matching, one disabled, one for storage nodes only, one    *)
(* matching; the controller virtual IP is configured, the worker one is    *)
(* not.  Four commands: one for this node, one for storage nodes, one for  *)
(* Windows hosts, one for this node.                                       *)
(***************************************************************************)
EXTENDS Servers

CONSTANTS Storage, Linux, Windows

MCLabels == {Controller, Worker, Storage}
MCOSes == {Linux, Windows}

MCServerConfigs ==
    << [enabled |-> TRUE,  labels |-> {Controller}],
       [enabled |-> FALSE, labels |-> {Controller}],
       [enabled |-> TRUE,  labels |-> {Storage}],
       [enabled |-> TRUE,  labels |-> {Controller, Worker}] >>

MCCommands ==
    << [labels |-> {Controller},         os |-> {Linux}],
       [labels |-> {Storage},            os |-> {Linux}],
       [labels |-> {Worker},             os |-> {Windows}],
       [labels |-> {Worker, Storage},    os |-> {Linux, Windows}] >>

MCNodeLabels == {Controller, Worker}

MCVIPConfigured == [r \in {Controller, Worker} |-> r = Controller]

\* A single controller-and-worker node: every server config applies and
\* both virtual IPs are configured.
MCAllServerConfigs ==
    << [enabled |-> TRUE, labels |-> {Controller}],
       [enabled |-> TRUE, labels |-> {Worker}] >>

MCBothVIPs == [r \in {Controller, Worker} |-> TRUE]

=============================================================================
