----------------------------- MODULE MCSandbox -----------------------------
(* Sandbox on one home: two projects, one of them with an ssh agent, and a *)
(* third run that gets the pid of the first.                               *)
EXTENDS Sandbox, TLC

CONSTANTS r1, r2, r3

MCNames == STRING
Home == <<"home">>
State == Home \o <<"state">>
Project(r) == <<"code", IF r = r1 THEN "one" ELSE "two">>
MCPidOf == [r \in Runs |-> IF r = r2 THEN "2" ELSE "1"]
Sessions(r) == Home \o <<".nd7", "sessions", MCPidOf[r]>>

MCLayout ==
    [r \in Runs |->
        [project |-> Project(r), home |-> Home, state |-> State, tmp |-> <<"tmp">>,
         exit |-> <<"bin", "nd7-exec">>, grants |-> {},
         ssh_agent |-> IF r = r2 THEN NoSock ELSE Sessions(r) \o <<"ssh.sock">>,
         open_sock |-> Sessions(r) \o <<"open.sock">>]]

(* The home, a directory of it, one of the agents', and a project.         *)
MCGrantable == {Home, Home \o <<"notes">>, Home \o <<".claude">>, <<"code", "two">>}

MCPaths ==
    {Home \o tail : tail \in
        {<<>>, <<"notes">>, <<"notes", "f">>, <<".nd7">>, <<".nd7", "sessions", "1", "policy.sb">>,
         <<".nd7", "sessions", "1", "ssh.sock">>, <<".nd7", "sessions", "1", "open.sock">>,
         <<".nd7", "sessions", "2", "open.sock">>, <<".ssh", "id">>, <<".ssh", "known_hosts">>,
         <<".aws", "key">>, <<"state", "log">>, <<"state", "vault", "key">>,
         <<".claude", "settings.json">>, <<".claude", "x">>, <<".claude.json">>,
         <<".codex", "config.toml">>, <<".codex", "hooks.json">>, <<".codex", "auth.json">>,
         <<"Library", "Keychains", "login.keychain-db">>, <<".gnupg", "S.gpg-agent.extra">>}}
    \cup {<<"code", "one", "f">>, <<"code", "two">>, <<"code", "two", "f">>, <<"tmp", "f">>,
          <<"bin", "nd7-exec">>}

Symmetry == Permutations(Procs)
=============================================================================
