------------------------------- MODULE HostKeys -------------------------------
(***************************************************************************)
(* The SSH identity of one device at one address and port: the scan that   *)
(* records what the device presents, trust on first use, the approval and  *)
(* rejection of a key by operators, and the jobs that connect (backups and *)
(* connection tests).  A key is its own fingerprint.                       *)
(*                                                                         *)
(* Transactions run under READ COMMITTED: the rows of keys are read one    *)
(* step before the transaction commits.  A row that a transaction has      *)
(* selected FOR UPDATE cannot be changed by another one until then.        *)
(***************************************************************************)
EXTENDS Naturals, FiniteSets

CONSTANTS
    HostKeySet,   \* the keys a device may present
    FileKeys,     \* those that a known_hosts file of the deployment lists
    Connectors    \* jobs that connect to the device at the same time

ASSUME HostKeyAssumption == FileKeys \subseteq HostKeySet

NoKey == "no key"

VARIABLES
    hostPolicy,   \* host_key_policy: "strict", "first" (trust on first use) or "off"
    hostsFile,    \* that file: "none", "profile" (known_hosts_path) or "system"
    presented,    \* the key the device presents
    keyRow,       \* SSHHostKey.status of each key, "none" without a row
    approvals,    \* transactions of operators in trust_host_key
    connector,    \* what each job is doing
    trustedFirst, \* keys ever trusted without an operator
    vouched,      \* keys an operator ever approved
    crossed       \* the last key became trusted after another one had, unseen

hostKeyVars == <<hostPolicy, hostsFile, presented, keyRow, approvals, connector, trustedFirst,
                 vouched, crossed>>

Trusted == {k \in HostKeySet : keyRow[k] = "trusted"}
Waiting == [at |-> "idle", key |-> NoKey, known |-> {}, alone |-> TRUE]

HostKeysInit ==
    /\ hostPolicy \in {"strict", "first", "off"}
    /\ hostsFile \in {"none", "profile", "system"}
    /\ hostPolicy = "off" => hostsFile # "profile"
    /\ presented \in HostKeySet
    /\ keyRow = [k \in HostKeySet |-> "none"]
    /\ approvals = {}
    /\ connector = [c \in Connectors |-> Waiting]
    /\ trustedFirst = {} /\ vouched = {} /\ crossed = FALSE

\* Rows a transaction holds: an approval its candidate and what it replaces, a
\* first trust its candidate.
LockedKeys ==
    UNION {{a.key} \cup a.replaces : a \in approvals}
        \cup {connector[c].key : c \in {d \in Connectors : connector[d].at = "first-commit"}}

Connector(c, at) == connector[c].at = at

-----------------------------------------------------------------------------
(* Jobs *)

\* ensure_first_host_key_trusted reads the profile and the trusted keys.
StartJob(c) ==
    /\ Connector(c, "idle")
    /\ connector' = [connector EXCEPT ![c].at =
          IF hostPolicy = "first" /\ Trusted = {} THEN "scan" ELSE "context"]
    /\ UNCHANGED <<hostPolicy, hostsFile, presented, keyRow, approvals, trustedFirst, vouched,
                   crossed>>

\* SSHHostKeyScanJob, and the scan at the end of a test that met an unknown key.
StartScan(c) ==
    /\ Connector(c, "idle")
    /\ hostPolicy # "off"
    /\ connector' = [connector EXCEPT ![c].at = "scan"]
    /\ UNCHANGED <<hostPolicy, hostsFile, presented, keyRow, approvals, trustedFirst, vouched,
                   crossed>>

\* A job that connects goes on, a scan of its own ends here.
AfterScan == {[Waiting EXCEPT !.at = "context"], Waiting}

\* The key is read before authentication and its row created or refreshed.
ScanTargetHostKey(c) ==
    /\ Connector(c, "scan")
    /\ presented \notin LockedKeys
    /\ keyRow' = [keyRow EXCEPT ![presented] = IF @ = "none" THEN "pending" ELSE @]
    /\ \E next \in IF hostPolicy = "first" /\ keyRow'[presented] = "pending"
                   THEN {[Waiting EXCEPT !.at = "first", !.key = presented]} ELSE AfterScan :
          connector' = [connector EXCEPT ![c] = next]
    /\ UNCHANGED <<hostPolicy, hostsFile, presented, approvals, trustedFirst, vouched, crossed>>

\* The device cannot be reached or does not answer the scan.
ScanFails(c) ==
    /\ Connector(c, "scan")
    /\ \E next \in AfterScan : connector' = [connector EXCEPT ![c] = next]
    /\ UNCHANGED <<hostPolicy, hostsFile, presented, keyRow, approvals, trustedFirst, vouched,
                   crossed>>

\* Mutant: only trusted keys count as history.
EndpointHistoryTrusted(k) == Trusted \ {k} # {}

\* Any other row of the endpoint, whatever became of it.
EndpointHistoryExists(k) == \E other \in HostKeySet \ {k} : keyRow[other] # "none"

\* trust_first_seen_host_key locks its candidate and looks at the history ...
FirstCheck(c) ==
    /\ Connector(c, "first")
    /\ connector[c].key \notin LockedKeys
    /\ \E next \in IF keyRow[connector[c].key] # "pending"
                      \/ EndpointHistoryExists(connector[c].key)
                   THEN AfterScan ELSE {[connector[c] EXCEPT !.at = "first-commit"]} :
          connector' = [connector EXCEPT ![c] = next]
    /\ UNCHANGED <<hostPolicy, hostsFile, presented, keyRow, approvals, trustedFirst, vouched,
                   crossed>>

\* Open approvals have not seen the key that becomes trusted now.
Overtaken(open) == {[a EXCEPT !.alone = FALSE] : a \in open}

\* ... and commits.
FirstCommit(c) ==
    /\ Connector(c, "first-commit")
    /\ keyRow' = [keyRow EXCEPT ![connector[c].key] = "trusted"]
    /\ trustedFirst' = trustedFirst \cup {connector[c].key}
    /\ crossed' = (crossed \/ ~ connector[c].alone)
    /\ approvals' = Overtaken(approvals)
    /\ \E next \in AfterScan : connector' = [connector EXCEPT ![c] = next]
    /\ UNCHANGED <<hostPolicy, hostsFile, presented, vouched>>

\* get_target_execution_context: the trusted keys become known_hosts lines.
\* Without verification every key will do, even none.
LoadContext(c) ==
    /\ Connector(c, "context")
    /\ connector' = [connector EXCEPT ![c].at = "connect",
                        ![c].known = IF hostPolicy = "off" THEN HostKeySet \cup {NoKey}
                                     ELSE Trusted]
    /\ UNCHANGED <<hostPolicy, hostsFile, presented, keyRow, approvals, trustedFirst, vouched,
                   crossed>>

\* materialized_known_hosts adds the lines of the profile's file.  Without any
\* trusted key that file is used as it is, or else that of the system.
KnownHosts(trusted) ==
    IF hostsFile = "profile" \/ (hostsFile = "system" /\ trusted = {})
    THEN trusted \cup FileKeys ELSE trusted

\* The transport compares before it authenticates.
Connect(c) ==
    /\ Connector(c, "connect")
    /\ connector' = [connector EXCEPT ![c] =
          IF presented \in KnownHosts(@.known)
          THEN [@ EXCEPT !.at = "session", !.key = presented] ELSE Waiting]
    /\ UNCHANGED <<hostPolicy, hostsFile, presented, keyRow, approvals, trustedFirst, vouched,
                   crossed>>

\* The collection ends; nothing of the session is kept.
Disconnect(c) ==
    /\ Connector(c, "session")
    /\ connector' = [connector EXCEPT ![c] = Waiting]
    /\ UNCHANGED <<hostPolicy, hostsFile, presented, keyRow, approvals, trustedFirst, vouched,
                   crossed>>

-----------------------------------------------------------------------------
(* Operators *)

\* The other trusted keys of the endpoint.
Previous(k) == Trusted \ {k}

\* trust_host_key locks the candidate and the keys it replaces ...
ApprovalCheck(k) ==
    /\ keyRow[k] # "none"
    /\ ({k} \cup Previous(k)) \cap LockedKeys = {}
    /\ approvals' = approvals \cup {[key |-> k, replaces |-> Previous(k), alone |-> TRUE]}
    /\ UNCHANGED <<hostPolicy, hostsFile, presented, keyRow, connector, trustedFirst, vouched,
                   crossed>>

\* ... and commits.
ApprovalCommit(a) ==
    /\ keyRow' = [k \in HostKeySet |-> IF k = a.key THEN "trusted"
                                       ELSE IF k \in a.replaces THEN "rejected" ELSE keyRow[k]]
    /\ vouched' = vouched \cup {a.key}
    /\ approvals' = Overtaken(approvals \ {a})
    /\ connector' = [c \in Connectors |-> [connector[c] EXCEPT !.alone =
                                               @ /\ ~ Connector(c, "first-commit")]]
    /\ crossed' = ~ a.alone
    /\ UNCHANGED <<hostPolicy, hostsFile, presented, trustedFirst>>

\* reject_host_key: one row, locked and saved.
RejectHostKey(k) ==
    /\ keyRow[k] # "none"
    /\ k \notin LockedKeys
    /\ keyRow' = [keyRow EXCEPT ![k] = "rejected"]
    /\ UNCHANGED <<hostPolicy, hostsFile, presented, approvals, connector, trustedFirst, vouched,
                   crossed>>

\* The device is replaced, reset or impersonated.
DeviceChanges ==
    /\ presented' \in HostKeySet \ {presented}
    /\ UNCHANGED <<hostPolicy, hostsFile, keyRow, approvals, connector, trustedFirst, vouched,
                   crossed>>

HostKeysNext ==
    \/ \E c \in Connectors :
          \/ StartJob(c) \/ StartScan(c) \/ ScanTargetHostKey(c) \/ ScanFails(c)
          \/ FirstCheck(c) \/ FirstCommit(c) \/ LoadContext(c) \/ Connect(c) \/ Disconnect(c)
    \/ \E k \in HostKeySet : ApprovalCheck(k) \/ RejectHostKey(k)
    \/ \E a \in approvals : ApprovalCommit(a)
    \/ DeviceChanges

-----------------------------------------------------------------------------
\* Without an operator at most one key of an endpoint is ever trusted: neither
\* a changed device, nor a rejected key, nor two first connections at once make
\* a second one.  A verified session meets that key, one an operator approved,
\* or one of the deployment's known_hosts file; of the system's file only when
\* the job had found no trusted key.  And whenever a key became trusted last
\* in a transaction that had seen all the others, it is the only trusted one,
\* also after two approvals that crossed had left two (no constraint of
\* SSHHostKey forbids that; history variable crossed).
FirstTrustOnce ==
    /\ Cardinality(trustedFirst) <= 1
    /\ \A c \in Connectors :
          Connector(c, "session") /\ NoKey \notin connector[c].known =>
             \/ connector[c].key \in trustedFirst \cup vouched
             \/ /\ connector[c].key \in FileKeys
                /\ hostsFile = "profile" \/ (hostsFile = "system" /\ connector[c].known = {})
    /\ crossed \/ Cardinality(Trusted) <= 1
=============================================================================
