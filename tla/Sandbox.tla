------------------------------ MODULE Sandbox ------------------------------
(***************************************************************************)
(* The processes of a session and the profile each is held to: `nd7 run`   *)
(* starts the agent under the floor (src/src/bin/nd7.rs spawn,             *)
(* src/src/sandbox.rs); the agent's hook rewrites a Bash command to run    *)
(* through nd7-exec (src/src/hook_prefix.rs), which alone leaves the floor *)
(* and applies the session's policy to itself before it becomes the shell  *)
(* (src/src/bin/nd7-exec.rs); whatever a process starts inherits its       *)
(* profile.  Meanwhile `nd7 allow` and `nd7 deny` change the grants.       *)
(*                                                                         *)
(* One step reads or writes the session's record here; the steps that      *)
(* takes, and what can happen between them, are module RunSession's.       *)
(***************************************************************************)
EXTENDS Policy, FiniteSets

CONSTANTS
    Runs,       \* nd7 run processes
    Procs,      \* processes they start, and those start
    Layout,     \* Layout[r]: the policy run r starts with
    PidOf,      \* PidOf[r]: its process id, which an earlier run may have had
    Grantable,  \* canonical directories allow and deny are given
    NoRun,      \* no run
    MaxGrants   \* bound: calls of allow and deny

ASSUME SandboxAssumption ==
    /\ NoRun \notin Runs /\ MaxGrants \in Nat
    /\ Layout \in [Runs -> Policies] /\ \A r \in Runs : Layout[r].grants = {}
    /\ Grantable \subseteq Places

(* A run's sockets are files of its session directory, which is named by   *)
(* its pid.                                                                *)
SessionDir(r) == Layout[r].home \o <<".nd7", "sessions", PidOf[r]>>
ASSUME SocketAssumption ==
    /\ PidOf \in [Runs -> Names] /\ {".nd7", "sessions", "open.sock", "ssh.sock"} \subseteq Names
    /\ \A r \in Runs :
           /\ Layout[r].open_sock = SessionDir(r) \o <<"open.sock">>
           /\ Layout[r].ssh_agent \in {NoSock, SessionDir(r) \o <<"ssh.sock">>}

VARIABLES
    stage,    \* stage[r]: "new", "up" or "over"
    grants,   \* grants[r]: the grants of its record
    proc,     \* proc[p]: its program and run, the profile the kernel holds it to
              \* or none, and the grants that was rendered with
    changes

vars == <<stage, grants, proc, changes>>

Held(program, r, profile, gs) ==
    [program |-> program, run |-> r, free |-> FALSE, profile |-> profile, grants |-> gs]
Free(program, r) ==
    [program |-> program, run |-> r, free |-> TRUE, profile |-> <<>>, grants |-> {}]
Gone == Free("none", NoRun)

Init ==
    /\ stage = [r \in Runs |-> "new"]
    /\ grants = [r \in Runs |-> {}]
    /\ proc = [p \in Procs |-> Gone]
    /\ changes = 0

PolicyOf(r) == [Layout[r] EXCEPT !.grants = grants[r]]
Live(p) == proc[p].program # "none"
Settled(p) == Live(p) /\ proc[p].program # "exit"

(* What the kernel lets a process do: all, while it is held to no profile. *)
May(p, op, path) == proc[p].free \/ Allows(proc[p].profile, op, path)
MayLeave(p) == May(p, "process-exec no-sandbox", Layout[proc[p].run].exit)

(* spawn: the record is written, the sockets are served, and the agent     *)
(* starts under the floor rendered from the same policy.  A pid is another *)
(* run's again once its holder is gone.                                    *)
StartRun(r) ==
    /\ stage[r] = "new"
    /\ \A q \in Runs : stage[q] = "up" => PidOf[q] # PidOf[r]
    /\ \E p \in Procs :
           /\ ~ Live(p)
           /\ proc' = [proc EXCEPT ![p] = Held("agent", r, FloorProfile(PolicyOf(r)), {})]
    /\ stage' = [stage EXCEPT ![r] = "up"]
    /\ UNCHANGED <<grants, changes>>

(* A process with a copy of its starter's profile.                         *)
Fork(p, c) ==
    /\ Live(p) /\ proc[p].program # "exit" /\ ~ Live(c)
    /\ proc' = [proc EXCEPT ![c] = [proc[p] EXCEPT !.program = "shell"]]
    /\ UNCHANGED <<stage, grants, changes>>

(* The agent runs a Bash command.  The hook's reply sends it through       *)
(* nd7-exec; without a reply the command stays under the floor.            *)
Bash(p, c) ==
    /\ proc[p].program = "agent" /\ ~ Live(c)
    /\ MayLeave(p)
    /\ proc' = [proc EXCEPT ![c] = Free("exit", proc[p].run)]
    /\ UNCHANGED <<stage, grants, changes>>

(* Anything else that executes nd7-exec: outside the command profile it is *)
(* let out too, and inside it (confined) the shell just runs.              *)
ExecExit(p) ==
    /\ proc[p].program = "shell"
    /\ MayLeave(p)
    /\ proc' = [proc EXCEPT ![p] = Free("exit", proc[p].run)]
    /\ UNCHANGED <<stage, grants, changes>>

(* find_session, policy, apply_to_self, exec_shell.                        *)
ApplyPolicy(p) ==
    /\ proc[p].program = "exit" /\ stage[proc[p].run] = "up"
    /\ LET r == proc[p].run IN
       proc' = [proc EXCEPT ![p] = Held("shell", r, CommandProfile(PolicyOf(r)), grants[r])]
    /\ UNCHANGED <<stage, grants, changes>>

(* Slip: a command whose policy cannot be applied runs all the same.       *)
RunsUnapplied(p) ==
    /\ proc[p].program = "exit"
    /\ proc' = [proc EXCEPT ![p].program = "shell"]
    /\ UNCHANGED <<stage, grants, changes>>
(* refuse: no session among the ancestors, no policy.sb, or Seatbelt does  *)
(* not take it.                                                            *)
RefuseCommand(p) ==
    /\ proc[p].program = "exit"
    /\ proc' = [proc EXCEPT ![p] = Gone]
    /\ UNCHANGED <<stage, grants, changes>>

Ends(p) ==
    /\ proc[p].program = "shell"
    /\ proc' = [proc EXCEPT ![p] = Gone]
    /\ UNCHANGED <<stage, grants, changes>>

(* grant: never nd7's own records by name; anything above them will do.    *)
Grant(r, dir) ==
    /\ stage[r] = "up" /\ changes < MaxGrants
    /\ dir \notin Records(Layout[r])
    /\ \/ dir \notin grants[r] /\ grants' = [grants EXCEPT ![r] = @ \cup {dir}]
       \/ dir \in grants[r] /\ grants' = [grants EXCEPT ![r] = @ \ {dir}]
    /\ changes' = changes + 1
    /\ UNCHANGED <<stage, proc>>

(* The agent exits, and nd7 run with it; what it started may stay.         *)
EndRun(r) ==
    /\ stage[r] = "up"
    /\ stage' = [stage EXCEPT ![r] = "over"]
    /\ proc' = [p \in Procs |->
                   IF proc[p].run = r /\ proc[p].program = "agent" THEN Gone ELSE proc[p]]
    /\ UNCHANGED <<grants, changes>>

(* Killed, and the agent lives on.                                         *)
KillRun(r) ==
    /\ stage[r] = "up"
    /\ stage' = [stage EXCEPT ![r] = "over"]
    /\ UNCHANGED <<grants, proc, changes>>

Next ==
    \/ \E r \in Runs : StartRun(r) \/ EndRun(r) \/ KillRun(r) \/ \E dir \in Grantable : Grant(r, dir)
    \/ \E p \in Procs : ExecExit(p) \/ ApplyPolicy(p) \/ RefuseCommand(p) \/ Ends(p)
    \/ \E p, c \in Procs : Fork(p, c) \/ Bash(p, c)

Spec == Init /\ [][Next]_vars

-----------------------------------------------------------------------------
(* Properties.                                                             *)

(* A process of a session that is not nd7-exec on its way to a policy can  *)
(* write none of nd7's records and none of the agents' configuration, with *)
(* whatever was granted ("so no grant and no later rule can make them      *)
(* writable").                                                             *)
RecordsSealed ==
    \A p \in Procs : Settled(p) =>
        \A op \in Writes, path \in Sealed(Layout[proc[p].run]) : ~ May(p, op, path)

(* Nor can it read a credential or a key of the vault, but for known_hosts *)
(* where the session has an agent to ask ("Reading is open; credentials    *)
(* and the vault's keys are not").                                         *)
SecretsUnread ==
    \A p \in Procs : Settled(p) =>
        LET layout == Layout[proc[p].run] IN
        \A op \in Reads, path \in Secrets(layout) :
            May(p, op, path) => path = KnownHosts(layout) /\ layout.ssh_agent # NoSock

(* Outside the fixed places a process may write only where a grant said so *)
(* when its command began, and then it cannot leave its profile for a      *)
(* wider one: what the agent starts by itself has no grants ("only ever in *)
(* the per-command profile", "no way out").                                *)
GrantsOnlyInCommands ==
    \A p \in Procs : Settled(p) =>
        LET layout == Layout[proc[p].run] IN
        \A op \in Writes, path \in Paths \ (Writable(layout) \cup Keychain(layout)) :
            May(p, op, path)
                => /\ \E dir \in proc[p].grants : path \in Subpath(dir)
                   /\ ~ MayLeave(p)

(* Of the sockets some `nd7 run` serves, a process reaches those of its    *)
(* own run, or, left behind by a run that is over, of one that has its pid *)
(* again; never those of a run beside its own.  And the socket that opens  *)
(* URLs it reaches only where the agent itself runs ("the commands the     *)
(* model runs cannot open anything").                                      *)
OwnOrHeir(r, own) == r = own \/ (stage[own] = "over" /\ PidOf[r] = PidOf[own])
SocketsOfOwnRun ==
    \A p \in Procs : Settled(p) =>
        \A r \in Runs : stage[r] = "up" =>
            /\ May(p, "network-outbound", Layout[r].ssh_agent) => OwnOrHeir(r, proc[p].run)
            /\ May(p, "network-outbound", Layout[r].open_sock)
                   => OwnOrHeir(r, proc[p].run) /\ MayLeave(p)
=============================================================================
