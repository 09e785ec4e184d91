------------------------------- MODULE Policy -------------------------------
(***************************************************************************)
(* What a session may do: the two Seatbelt profiles src/src/policy.rs      *)
(* renders from one policy, and how Seatbelt decides by one.               *)
(*                                                                         *)
(* A path is the sequence of its names.  A socket is the path it is bound  *)
(* at, and an address is a path of its own.  A rule allows or denies some  *)
(* operations on some paths; a profile is the sequence of its rules.       *)
(***************************************************************************)
EXTENDS Naturals, Sequences

CONSTANTS
    Names,   \* what paths are made of
    Paths,   \* the canonical paths of the machine
    NoSock   \* no socket

Places == Seq(Names)
ASSUME PolicyAssumption ==
    /\ Paths \subseteq Places /\ NoSock \notin Places
    /\ {".codex", "config.toml", "hooks.json", ".claude", "settings.json", ".ssh", "known_hosts",
        ".gnupg", "S.gpg-agent.extra", "tcp 443", "localhost"} \subseteq Names

(* A session's policy, and a rule.                                         *)
Policies ==
    [project : Places, home : Places, state : Places, tmp : Places, exit : Places,
     grants : SUBSET Places, ssh_agent : {NoSock} \cup Places, open_sock : Places]

(* Of the operations with one rule for all of them, some.                  *)
ReadOps == {"file-read*", "file-read-data", "file-read-metadata"}
WriteOps ==
    {"file-write*", "file-write-create", "file-write-data", "file-write-unlink", "file-link"}

Operations ==
    ReadOps \cup WriteOps
        \cup {"process-fork", "process-exec", "process-exec no-sandbox", "network-outbound"}
Rules == [allow : BOOLEAN, ops : SUBSET Operations, what : SUBSET Places]

(* What a process asks for is never a class.                               *)
Reads == ReadOps \ {"file-read*"}
Writes == WriteOps \ {"file-write*"}

-----------------------------------------------------------------------------
(* Seatbelt.  Rules that name an operation come before rules that name its *)
(* class; among those, the last that matches wins; by default, no.         *)

Class(op) ==
    IF op \in Reads THEN "file-read*"
    ELSE IF op \in Writes \ {"file-link"} THEN "file-write*" ELSE op

Matching(profile, op, path) ==
    {i \in DOMAIN profile : op \in profile[i].ops /\ path \in profile[i].what}
LastAllows(profile, matching) ==
    \E i \in matching : profile[i].allow /\ \A j \in matching : j <= i
Allows(profile, op, path) ==
    LET own == Matching(profile, op, path) IN
    LastAllows(profile, IF own # {} THEN own ELSE Matching(profile, Class(op), path))

-----------------------------------------------------------------------------
(* The places a policy names.                                              *)

Allow(ops, what) == [allow |-> TRUE, ops |-> ops, what |-> what]
Deny(ops, what) == [allow |-> FALSE, ops |-> ops, what |-> what]

Subpath(dir) ==
    {path \in Paths : Len(dir) <= Len(path) /\ SubSeq(path, 1, Len(dir)) = dir}
(* A component below the home, anywhere.                                   *)
Component(home, name) ==
    {path \in Subpath(home) : \E i \in (Len(home) + 1) .. Len(path) : path[i] = name}
(* A file below the home, by its name.                                     *)
Named(home, names) ==
    {path \in Subpath(home) : Len(path) > Len(home) /\ path[Len(path)] \in names}

Records(policy) == Subpath(policy.home \o <<".nd7">>) \cup Subpath(policy.state)
AgentConfigs(policy) ==
    {policy.home \o <<".codex", "config.toml">>, policy.home \o <<".codex", "hooks.json">>,
     policy.home \o <<".claude", "settings.json">>}
Sealed(policy) == Records(policy) \cup AgentConfigs(policy)

KnownHosts(policy) == policy.home \o <<".ssh", "known_hosts">>
Secrets(policy) ==
    Subpath(policy.home \o <<".ssh">>) \cup Subpath(policy.home \o <<".aws">>)
        \cup Subpath(policy.state \o <<"vault">>)

(* Claude Code's scratch directories and .claude.json with its backups.    *)
Scratch == {"claude-1"}
ClaudeJson == {".claude.json", ".claude.json.backup"}
Writable(policy) ==
    Subpath(policy.project) \cup Subpath(policy.tmp)
        \cup (UNION {Subpath(<<"private", "tmp", s>>) : s \in Scratch})
        \cup Component(policy.home, ".claude") \cup Component(policy.home, ".codex")
        \cup Named(policy.home, ClaudeJson)
(* The login keychain, and the file beside it that replaces it.            *)
KeychainFiles == {"login.keychain-db", "login.keychain-db.sb-1"}
Keychain(policy) ==
    {path \in Named(policy.home, KeychainFiles) :
        /\ Len(path) >= Len(policy.home) + 3
        /\ SubSeq(path, Len(path) - 2, Len(path) - 1) = <<"Library", "Keychains">>}
GpgAgent(policy) == policy.home \o <<".gnupg", "S.gpg-agent.extra">>
Granted(policy) == UNION {Subpath(dir) : dir \in policy.grants}

-----------------------------------------------------------------------------
(* The profiles.                                                           *)

(* Slip: known_hosts is readable without an agent too.                     *)
SshRulesAlways(policy) ==
    <<Allow({"network-outbound"}, {policy.ssh_agent}), Allow(ReadOps, {KnownHosts(policy)})>>
(* ssh: the proxy's socket, and the one file it needs.  Without an agent   *)
(* there is no proxy, and so no ssh at all.                                *)
SshRules(policy) ==
    IF policy.ssh_agent = NoSock THEN <<>>
    ELSE <<Allow({"network-outbound"}, {policy.ssh_agent}),
           Allow(ReadOps, {KnownHosts(policy)})>>

Body(policy) ==
    <<Allow({"process-fork", "process-exec"}, Paths),
      Allow({"file-read*"}, Paths),
      Deny(ReadOps, Secrets(policy)),
      Allow({"file-write*"}, Writable(policy)),
      Allow({"network-outbound"}, {<<"tcp 443">>, <<"localhost">>}),
      Allow({"network-outbound"}, {GpgAgent(policy)})>>
    \o SshRules(policy)

(* deny_records and deny_agent_config.                                     *)
Denies(policy) ==
    <<Deny(WriteOps, Records(policy)), Deny(WriteOps, AgentConfigs(policy))>>

(* render_floor: the way out, signing in, and the broker that opens URLs.  *)
FloorProfile(policy) ==
    Body(policy)
    \o <<Allow({"process-exec no-sandbox"}, {policy.exit}),
         Allow({"file-write*"}, Keychain(policy)),
         Allow({"network-outbound"}, {policy.open_sock})>>
    \o Denies(policy)

(* Slip: the grants are added at the end.                                  *)
CommandProfileGrantsLast(policy) ==
    Body(policy) \o Denies(policy) \o <<Allow(WriteOps, Granted(policy))>>
(* Slip: what the floor may open, its commands may.                        *)
CommandProfileOpens(policy) ==
    Body(policy) \o <<Allow({"network-outbound"}, {policy.open_sock})>>
    \o (IF policy.grants = {} THEN <<>> ELSE <<Allow({"file-write*"}, Granted(policy))>>)
    \o Denies(policy)
(* render_policy.                                                          *)
CommandProfile(policy) ==
    Body(policy)
    \o (IF policy.grants = {} THEN <<>> ELSE <<Allow({"file-write*"}, Granted(policy))>>)
    \o Denies(policy)
=============================================================================
