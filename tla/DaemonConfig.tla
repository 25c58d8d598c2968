---------------------------- MODULE DaemonConfig ----------------------------
(***************************************************************************)
(* The daemon's configuration (daemon/src/config.rs): one file is loaded   *)
(* and further files are merged into it.  A setting that has its default   *)
(* value, or none, is Unset: to merge, a file that spells out the default  *)
(* is a file that does not mention the setting.                            *)
(***************************************************************************)
EXTENDS Integers, Sequences, SequencesExt

CONSTANTS
    Files,       \* records: settings, peers, exit_nodes
    Unset,
    MaxFiles     \* bound on the files read

ASSUME ConfigAssumption == MaxFiles \in Nat

\* The single-valued settings of a file.
Fields ==
    {"mode", "bind", "location", "max_connections", "reverse_mode", "handler_endpoint",
     "preferred_group_id", "node_id", "election_timeout", "heartbeat_interval", "tmpfs_path",
     "tmpfs_size", "disk_path", "segment_size_limit", "compaction_threshold", "clickhouse",
     "server_sk", "hmac_secret", "token_ttl", "key_rotation_interval", "grace_period",
     "fallback_target", "client_sni", "enable_reverse_proxy", "url", "prometheus_bind",
     "prometheus_enabled"}

\* The settings that merge looks at.
Merged == {"mode", "bind", "location", "max_connections", "node_id", "server_sk",
           "hmac_secret", "token_ttl", "key_rotation_interval", "url", "prometheus_bind"}

VARIABLES
    config,      \* the configuration in effect
    read         \* history: the files read, the base file first

configVars == <<config, read>>

Default == [settings |-> [f \in Fields |-> Unset], peers |-> <<>>, exit_nodes |-> <<>>]

ConfigInit == config = Default /\ read = <<>>

\* Mutant of MergeSettings: a setting the new file leaves out is reset.
MergeSettings_All(self, other) ==
    [f \in Fields |-> IF f \in Merged THEN other[f] ELSE self[f]]

MergeSettings(self, other) ==
    [f \in Fields |-> IF f \in Merged /\ other[f] # Unset THEN other[f] ELSE self[f]]

AddPeer(peer, peers) == IF Contains(peers, peer) THEN peers ELSE Append(peers, peer)

\* Mutant of AddNode: nodes are compared by their endpoint.
AddNode_Endpoint(node, nodes) ==
    LET same == {i \in DOMAIN nodes : nodes[i].endpoint = node.endpoint}
    IN  IF same = {} THEN Append(nodes, node)
        ELSE [nodes EXCEPT ![CHOOSE i \in same : \A j \in same : i <= j].endpoint = node.endpoint]

\* The first node of that name takes the new endpoint (with weight and group)
\* and keeps its location.
AddNode(node, nodes) ==
    LET same == {i \in DOMAIN nodes : nodes[i].name = node.name}
    IN  IF same = {} THEN Append(nodes, node)
        ELSE [nodes EXCEPT ![CHOOSE i \in same : \A j \in same : i <= j].endpoint = node.endpoint]

Merge(self, other) ==
    [settings   |-> MergeSettings(self.settings, other.settings),
     peers      |-> FoldLeft(LAMBDA acc, p : AddPeer(p, acc), self.peers, other.peers),
     exit_nodes |-> FoldLeft(LAMBDA acc, n : AddNode(n, acc), self.exit_nodes, other.exit_nodes)]

Load(file) ==
    /\ read = <<>>
    /\ config' = file /\ read' = <<file>>

\* A file that cannot be read or parsed leaves the configuration as it is.
LoadMerge(file) ==
    /\ read # <<>> /\ Len(read) < MaxFiles
    /\ config' = Merge(config, file)
    /\ read' = Append(read, file)

ConfigNext == \E file \in Files : Load(file) \/ LoadMerge(file)

-----------------------------------------------------------------------------

\* Types.
ConfigTypeOK ==
    /\ DOMAIN config.settings = Fields /\ Len(read) <= MaxFiles
    /\ Merged \subseteq Fields

\* Whether f has the value of the last file that gives it one other than the
\* default.
LastGiven(f) ==
    LET given == {i \in DOMAIN read : read[i].settings[f] # Unset}
        last  == CHOOSE i \in given : \A j \in given : j <= i
    IN  config.settings[f] = IF given = {} THEN Unset ELSE read[last].settings[f]

\* Each setting that merge looks at has the value of the last file that gives
\* it one other than the default, however the files before and after it
\* alternate (load, load_merge, merge).
MergedFollowFiles == \A f \in Merged : LastGiven(f)

\* The rules stated above merge, "Scalar values: overwrite if the new value
\* differs from default" and "Option values: overwrite if Some", for every
\* setting of a file.
RulesKept == \A f \in Fields : LastGiven(f)

\* The elements of s that are not in known, each where it first occurs.
FirstOnly(s, known) ==
    LET keep  == {k \in DOMAIN s : s[k] \notin known /\ \A j \in 1 .. k - 1 : s[j] # s[k]}
        order == SetToSortSeq(keep, <)
    IN  [k \in DOMAIN order |-> s[order[k]]]

\* What merging makes of the lists, whatever repetitions the files contain.
\* The base file's peers and nodes stay in place; later files add each new
\* peer and each new name once, in the order in which they first name it; the
\* first node of a name takes the endpoint the name was last given by a later
\* file and keeps the location it had, and a further node of the name in the
\* base file stays as it is (load, merge).
ListsAccumulate ==
    read # <<>> =>
    LET base     == read[1]
        Later(l) == FlattenSeq([i \in 1 .. Len(read) - 1 |-> l[i + 1]])
        peers    == Later([i \in DOMAIN read |-> read[i].peers])
        nodes    == Later([i \in DOMAIN read |-> read[i].exit_nodes])
        Names(s) == [k \in DOMAIN s |-> s[k].name]
        result   == config.exit_nodes
    IN  /\ config.peers = base.peers \o FirstOnly(peers, ToSet(base.peers))
        /\ Names(result) = Names(base.exit_nodes)
                              \o FirstOnly(Names(nodes), ToSet(Names(base.exit_nodes)))
        /\ \A i \in DOMAIN result :
            LET given == SelectSeq(nodes, LAMBDA m : m.name = result[i].name)
                added == i > Len(base.exit_nodes)
                node  == IF added THEN Head(given) ELSE base.exit_nodes[i]
                first == \A j \in 1 .. i - 1 : result[j].name # result[i].name
            IN  /\ result[i].location = node.location
                /\ result[i].endpoint = IF first /\ given # <<>> THEN Last(given).endpoint
                                        ELSE node.endpoint

=============================================================================
