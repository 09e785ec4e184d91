----------------------------- MODULE RunSession -----------------------------
(***************************************************************************)
(* The directory `~/.nd7/sessions/<pid>` of an `nd7 run`                   *)
(* (src/src/session.rs) and the four kinds of process that meet in it:     *)
(* `nd7 run` sweeps what dead runs left, makes its own directory, writes   *)
(* record.json and policy.sb, starts the agent and removes the directory   *)
(* at its end; `nd7 allow` and `nd7 deny` read the record, change it and   *)
(* write both files back; `nd7-exec` looks for the directory among its     *)
(* ancestors' pids and applies the profile it finds.                       *)
(*                                                                         *)
(* Nobody takes a lock, pids are used again, and any of them may be        *)
(* killed between two system calls.  The shim and the sockets that also    *)
(* live in the directory are left out.                                     *)
(***************************************************************************)
EXTENDS Naturals, Sequences

CONSTANTS
    Runs,      \* nd7 run processes; each runs once
    Granters,  \* terminals in which allow and deny are typed
    Pids,      \* the pids nd7 run gets, one of which a process has while it lives
    OtherPid,  \* any other pid, for an agent
    Paths,     \* canonical directories a grant may name
    NoPid,     \* no pid
    NoRun,     \* no run
    MaxCalls,  \* bound: calls of allow and deny
    MaxDeaths  \* bound: processes killed, I/O errors included

ASSUME RunSessionAssumption ==
    /\ Runs \cap Granters = {} /\ NoPid # OtherPid /\ NoPid \notin Pids
    /\ OtherPid \notin Pids /\ NoRun \notin Runs
    /\ MaxCalls \in Nat /\ MaxDeaths \in Nat

Files == {"record", "policy"}
Writers == Runs \cup Granters

(* What a file holds: nothing (no such file), no bytes yet, the start of   *)
(* one rendering followed by the rest of another, or one run's policy.     *)
NoFile == [kind |-> "none", run |-> NoRun, grants |-> {}]
Empty == [kind |-> "empty", run |-> NoRun, grants |-> {}]
Mixed == [kind |-> "mixed", run |-> NoRun, grants |-> {}]
Policy(i, gs) == [kind |-> "whole", run |-> i, grants |-> gs]

VARIABLES
    (* The disk. *)
    dir,      \* dir[p]: the directory of pid p exists
    file,     \* file[p][f].name and .tmp: f and f.tmp of that directory
    (* Processes. *)
    run,      \* run[i]: what an nd7 run does
    writer,   \* writer[w]: where in write_policy_at a process is
    call,     \* call[g]: the call a terminal is in
    cmd,      \* the nd7-exec under way
    (* History. *)
    promise,  \* promise[i][x]: what the calls that returned said last of x
    clash,    \* directories two processes have worked on at once
    broken,   \* directories a process died writing or removing
    calls, deaths

disk == <<dir, file>>
vars == <<disk, run, writer, call, cmd, promise, clash, broken, calls, deaths>>

Idle == [stage |-> "idle", pid |-> NoPid, file |-> "record", fd |-> "none", policy |-> NoFile]
NotStarted == [stage |-> "new", pid |-> NoPid, agent |-> NoPid, todo |-> {}, target |-> NoPid,
               left |-> {}]
NoCall == [verb |-> "none", path |-> {}]
NoCommand == [stage |-> "off", run |-> NoRun, at |-> NoPid]

Init ==
    /\ dir = [p \in Pids |-> FALSE]
    /\ file = [p \in Pids |-> [f \in Files |-> [name |-> NoFile, tmp |-> NoFile]]]
    /\ run = [i \in Runs |-> NotStarted]
    /\ writer = [w \in Writers |-> Idle]
    /\ call = [g \in Granters |-> NoCall]
    /\ cmd = NoCommand
    /\ promise = [i \in Runs |-> [x \in Paths |-> "denied"]]
    /\ clash = {} /\ broken = {} /\ calls = 0 /\ deaths = 0

-----------------------------------------------------------------------------
(* Processes and pids.                                                     *)

Ended == {"new", "over"}
Over(i) == [NotStarted EXCEPT !.stage = "over", !.agent = run[i].agent]
Alive(p) == \E i \in Runs : p \in {run[i].pid, run[i].agent}
FreePids == {p \in Pids : ~ Alive(p)}
Dirs == {p \in Pids : dir[p]}

(* The names in a directory.                                               *)
Names(p) == {n \in Files \X {"name", "tmp"} : file[p][n[1]][n[2]] # NoFile}

(* Processes at work on the directory of p: about to sweep it, removing    *)
(* it, writing into it.                                                    *)
AtWork(p) ==
    {i \in Runs : run[i].target = p \/ (p \in run[i].todo /\ ~ Alive(p))}
        \cup {w \in Writers : writer[w].pid = p}

(* Two at once, one of which may only have it on its list; an agent whose  *)
(* pid a leftover directory names; or a command that found the directory   *)
(* of a run whose pid has another one by now.                              *)
Clashes(p) == \/ \E u, w \in AtWork(p) : u # w
              \/ \E i, j \in Runs : i # j /\ p \in run[i].todo /\ run[j].target = p
              \/ \E i \in Runs : run[i].agent = p /\ dir[p]
              \/ cmd.at = p /\ \E i \in Runs \ {cmd.run} : writer[i].pid = p

-----------------------------------------------------------------------------
(* write_policy_at: record.json, then policy.sb, each by write_atomic.     *)

Begin(w, p, policy) ==
    writer' = [writer EXCEPT ![w] = [stage |-> "mkdir", pid |-> p, file |-> "record",
                                     fd |-> "none", policy |-> policy]]

(* A rendering written at the start of a file that another process wrote   *)
(* to replaces it, unless it is the shorter one.                           *)
Overwritten(old, new) ==
    IF \/ old.kind = "empty"
       \/ old.kind = "whole" /\ old.run = new.run /\ old.grants \subseteq new.grants
    THEN {new} ELSE {new, Mixed}

(* Where the other writers' descriptors of f point after `how` happened.   *)
Moved(w, p, f, fds) ==
    [u \in Writers |->
        IF u # w /\ writer[u].pid = p /\ writer[u].file = f /\ writer[u].fd \in DOMAIN fds
        THEN [writer[u] EXCEPT !.fd = fds[writer[u].fd]] ELSE writer[u]]

MakeDir(w) ==
    LET p == writer[w].pid IN
    /\ writer[w].stage = "mkdir"
    /\ dir' = [dir EXCEPT ![p] = TRUE]
    /\ writer' = [writer EXCEPT ![w].stage = "open"]
    /\ UNCHANGED file

(* open with create and truncate: the temporary has one fixed name.        *)
OpenTmp(w) ==
    LET p == writer[w].pid  f == writer[w].file IN
    /\ writer[w].stage = "open" /\ dir[p]
    /\ file' = [file EXCEPT ![p][f].tmp = Empty]
    /\ writer' = [writer EXCEPT ![w].stage = "write", ![w].fd = "tmp"]
    /\ UNCHANGED dir

WriteAll(w) ==
    LET p == writer[w].pid  f == writer[w].file  fd == writer[w].fd IN
    /\ writer[w].stage = "write"
    /\ IF fd = "gone" THEN UNCHANGED file
       ELSE \E c \in Overwritten(file[p][f][fd], writer[w].policy) :
                file' = [file EXCEPT ![p][f][fd] = c]
    /\ writer' = [writer EXCEPT ![w].stage = "rename"]
    /\ UNCHANGED dir

(* The rename takes whatever has the temporary's name now.                 *)
Rename(w) ==
    LET p == writer[w].pid  f == writer[w].file IN
    /\ writer[w].stage = "rename" /\ file[p][f].tmp # NoFile
    /\ file' = [file EXCEPT ![p][f] = [name |-> file[p][f].tmp, tmp |-> NoFile]]
    /\ writer' = [Moved(w, p, f, [tmp |-> "name", name |-> "gone"]) EXCEPT
                      ![w].stage = IF f = "record" THEN "mkdir" ELSE "done",
                      ![w].file = "policy", ![w].fd = "none"]
    /\ UNCHANGED dir

(* ENOENT: the directory, or the temporary, went away meanwhile.           *)
WriteFails(w) ==
    LET p == writer[w].pid  f == writer[w].file IN
    \/ writer[w].stage = "open" /\ ~ dir[p]
    \/ writer[w].stage = "rename" /\ file[p][f].tmp = NoFile

WriteStep(w) == MakeDir(w) \/ OpenTmp(w) \/ WriteAll(w) \/ Rename(w)

-----------------------------------------------------------------------------
(* fs::remove_dir_all, for the sweep and for Drop: open and list, unlink   *)
(* what was listed in any order, rmdir.                                    *)

Removing(i) == run[i].target # NoPid /\ run[i].stage \in {"sweep", "drop"}

(* Slip: only the names nd7 knows of are removed.                          *)
OpenDirKnown(i) ==
    LET p == run[i].target IN
    /\ Removing(i) /\ dir[p]
    /\ run' = [run EXCEPT ![i].stage = IF @ = "sweep" THEN "swept" ELSE "dropped",
                          ![i].left = Names(p) \ (Files \X {"tmp"})]
    /\ UNCHANGED <<disk, writer>>

OpenDir(i) ==
    LET p == run[i].target IN
    /\ Removing(i) /\ dir[p]
    /\ run' = [run EXCEPT ![i].stage = IF @ = "sweep" THEN "swept" ELSE "dropped",
                          ![i].left = Names(p)]
    /\ UNCHANGED <<disk, writer>>

(* The directory is already gone: the sweep's error ends the run, Drop     *)
(* ignores it.                                                             *)
NoDir(i) ==
    /\ Removing(i) /\ ~ dir[run[i].target]
    /\ run' = [run EXCEPT ![i] = Over(i)]
    /\ UNCHANGED <<disk, writer>>

Unlink(i, n) ==
    LET p == run[i].target IN
    /\ run[i].stage \in {"swept", "dropped"} /\ n \in run[i].left
    /\ run' = [run EXCEPT ![i].left = @ \ {n}]
    /\ file' = [file EXCEPT ![p][n[1]][n[2]] = NoFile]
    /\ writer' = Moved(i, p, n[1], [x \in {n[2]} |-> "gone"])
    /\ UNCHANGED dir

(* rmdir fails on a directory somebody has put a file in again.            *)
Rmdir(i) ==
    LET p == run[i].target  empty == Names(p) = {} IN
    /\ run[i].stage \in {"swept", "dropped"} /\ run[i].left = {}
    /\ dir' = [dir EXCEPT ![p] = ~ empty]
    /\ run' = [run EXCEPT ![i] = IF run[i].stage = "swept" /\ empty
                                  THEN [run[i] EXCEPT !.stage = "sweep", !.target = NoPid]
                                  ELSE Over(i)]
    /\ UNCHANGED <<file, writer>>

-----------------------------------------------------------------------------
(* nd7 run.                                                                *)

(* Session::create: what the sweep will look at.                           *)
Start(i, p) ==
    /\ run[i].stage = "new" /\ p \in FreePids
    /\ run' = [run EXCEPT ![i] = [NotStarted EXCEPT !.stage = "sweep", !.pid = p, !.todo = Dirs]]
    /\ UNCHANGED <<disk, writer>>

(* Slip: whatever kill answers, the process is taken to be gone.           *)
CheckNobody(i, p) ==
    /\ run[i].stage = "sweep" /\ run[i].target = NoPid /\ p \in run[i].todo
    /\ run' = [run EXCEPT ![i].todo = @ \ {p}, ![i].target = IF p = run[i].pid THEN NoPid ELSE p]
    /\ UNCHANGED <<disk, writer>>

(* kill(pid, 0): ESRCH is the only answer that means it is gone.           *)
Check(i, p) ==
    /\ run[i].stage = "sweep" /\ run[i].target = NoPid /\ p \in run[i].todo
    /\ run' = [run EXCEPT ![i].todo = @ \ {p}, ![i].target = IF Alive(p) THEN NoPid ELSE p]
    /\ UNCHANGED <<disk, writer>>

(* Slip: a directory that is already there is taken as it is.              *)
OwnIfNew(i) ==
    LET p == run[i].pid IN
    /\ run[i].stage = "sweep" /\ run[i].target = NoPid /\ run[i].todo = {}
    /\ dir' = [dir EXCEPT ![p] = TRUE]
    /\ run' = [run EXCEPT ![i].stage = "write"]
    /\ IF file[p]["policy"].name # NoFile
       THEN writer' = [writer EXCEPT ![i] = [Idle EXCEPT !.stage = "done", !.pid = p]]
       ELSE Begin(i, p, Policy(i, {}))
    /\ UNCHANGED file

(* Its own directory, which may be a leftover of the pid's last holder,    *)
(* and its first policy, without grants.                                   *)
Own(i) ==
    /\ run[i].stage = "sweep" /\ run[i].target = NoPid /\ run[i].todo = {}
    /\ dir' = [dir EXCEPT ![run[i].pid] = TRUE]
    /\ run' = [run EXCEPT ![i].stage = "write"]
    /\ Begin(i, run[i].pid, Policy(i, {}))
    /\ UNCHANGED file

Launch(i, a) ==
    /\ run[i].stage = "write" /\ writer[i].stage = "done"
    /\ a \in FreePids \cup {OtherPid}
    /\ run' = [run EXCEPT ![i].stage = "running", ![i].agent = a]
    /\ writer' = [writer EXCEPT ![i] = Idle]
    /\ UNCHANGED disk

(* An error after create (`trusted`, writing, serving, starting the        *)
(* program) drops the session.                                             *)
RunFails(i) ==
    /\ run[i].stage = "write"
    /\ WriteFails(i) \/ writer[i].stage \in {"mkdir", "done"}
    /\ run' = [run EXCEPT ![i].stage = "drop", ![i].target = run[i].pid]
    /\ writer' = [writer EXCEPT ![i] = Idle]
    /\ UNCHANGED disk

(* Slip: the session is forgotten, not dropped.                            *)
AgentEndsUndropped(i) ==
    /\ run[i].stage = "running"
    /\ run' = [run EXCEPT ![i] = [NotStarted EXCEPT !.stage = "over"]]
    /\ UNCHANGED <<disk, writer>>

AgentEnds(i) ==
    /\ run[i].stage = "running"
    /\ run' = [run EXCEPT ![i].stage = "drop", ![i].agent = NoPid, ![i].target = run[i].pid]
    /\ UNCHANGED <<disk, writer>>

(* The agent of a run that was killed lives on.                            *)
OrphanEnds(i) ==
    /\ run[i].stage = "over" /\ run[i].agent # NoPid
    /\ run' = [run EXCEPT ![i].agent = NoPid]
    /\ UNCHANGED <<disk, writer>>

RunStep(i) ==
    \/ \E p \in Pids : Start(i, p) \/ Check(i, p)
    \/ \E a \in Pids \cup {OtherPid} : Launch(i, a)
    \/ Own(i) \/ RunFails(i) \/ AgentEnds(i) \/ OrphanEnds(i)
    \/ OpenDir(i) \/ NoDir(i) \/ Rmdir(i) \/ (\E n \in run[i].left : Unlink(i, n))
    \/ WriteStep(i) /\ UNCHANGED run

(* SIGKILL.                                                                *)
RunDies(i) ==
    /\ run[i].stage \notin Ended /\ deaths < MaxDeaths
    /\ deaths' = deaths + 1
    /\ run' = [run EXCEPT ![i] = Over(i)]
    /\ writer' = [writer EXCEPT ![i] = Idle]
    /\ UNCHANGED <<disk, call, cmd, promise, calls>>

-----------------------------------------------------------------------------
(* nd7 allow and nd7 deny.                                                 *)

(* `--session p`, or the one directory there is; a leftover counts.        *)
Target(p) == IF p = NoPid THEN {q \in Pids : Dirs = {q}} ELSE {p}

Says(verb) == IF verb = "allow" THEN "allowed" ELSE "denied"

(* The record is read; when it says what was asked already, nothing is     *)
(* written.                                                                *)
Grant(g, verb, x, p) ==
    LET old == file[p]["record"].name
        new == IF verb = "allow" THEN old.grants \cup {x} ELSE old.grants \ {x}
    IN  /\ call[g] = NoCall /\ calls < MaxCalls /\ old.kind = "whole"
        /\ calls' = calls + 1
        /\ call' = [call EXCEPT ![g] = [verb |-> verb, path |-> {x}]]
        /\ promise' = [promise EXCEPT ![old.run][x] = "unknown"]
        /\ writer' = [writer EXCEPT ![g] =
               [stage |-> IF new = old.grants THEN "done" ELSE "mkdir",
                pid |-> p, file |-> "record", fd |-> "none", policy |-> Policy(old.run, new)]]
        /\ UNCHANGED <<disk, run, cmd, deaths>>

(* Slip: only the record is written.                                       *)
GrantReturnsEarly(g) ==
    /\ call[g] # NoCall /\ writer[g].file = "policy"
    /\ promise' = [promise EXCEPT ![writer[g].policy.run] =
                       [x \in Paths |-> IF x \in call[g].path THEN Says(call[g].verb) ELSE @[x]]]
    /\ call' = [call EXCEPT ![g] = NoCall]
    /\ writer' = [writer EXCEPT ![g] = Idle]
    /\ UNCHANGED <<disk, run, cmd, calls, deaths>>

(* "allowed from the next command", "denied from the next command".        *)
GrantReturns(g) ==
    /\ call[g] # NoCall /\ writer[g].stage = "done"
    /\ promise' = [promise EXCEPT ![writer[g].policy.run] =
                       [x \in Paths |-> IF x \in call[g].path THEN Says(call[g].verb) ELSE @[x]]]
    /\ call' = [call EXCEPT ![g] = NoCall]
    /\ writer' = [writer EXCEPT ![g] = Idle]
    /\ UNCHANGED <<disk, run, cmd, calls, deaths>>

(* An error is reported and nothing said; a terminal may also be killed,   *)
(* or its disk be full, between any two calls.                             *)
GrantFails(g) ==
    /\ call[g] # NoCall
    /\ \/ WriteFails(g) /\ UNCHANGED deaths
       \/ deaths < MaxDeaths /\ deaths' = deaths + 1
    /\ call' = [call EXCEPT ![g] = NoCall]
    /\ writer' = [writer EXCEPT ![g] = Idle]
    /\ UNCHANGED <<disk, run, cmd, promise, calls>>

-----------------------------------------------------------------------------
(* nd7-exec, started by the agent of a run.                                *)

Ancestors(i) ==
    <<run[i].agent>> \o (IF run[i].stage = "running" THEN <<run[i].pid>> ELSE <<>>)

(* The nearest ancestor whose pid names a directory.                       *)
FindSession(i) ==
    LET found == {k \in DOMAIN Ancestors(i) : Ancestors(i)[k] \in Dirs}
    IN  IF found = {} THEN NoPid
        ELSE Ancestors(i)[CHOOSE k \in found : \A j \in found : k <= j]

Find(i) ==
    /\ cmd = NoCommand /\ run[i].agent # NoPid
    /\ cmd' = [stage |-> "found", run |-> i, at |-> FindSession(i)]

Profile == IF cmd.at = NoPid THEN NoFile ELSE file[cmd.at]["policy"].name

(* The profile is read and applied; half of one may happen to parse.       *)
Apply ==
    /\ cmd.stage = "found" /\ Profile.kind \in {"whole", "mixed"}
    /\ cmd' = NoCommand

(* Exit status 126: no session, no profile, or one that does not apply.    *)
Refuse ==
    /\ cmd.stage = "found" /\ Profile.kind # "whole"
    /\ cmd' = NoCommand

-----------------------------------------------------------------------------
Step ==
    \/ /\ \E i \in Runs : RunStep(i)
       /\ UNCHANGED <<call, cmd, promise, calls, deaths>>
    \/ /\ \E g \in Granters : WriteStep(g)
       /\ UNCHANGED <<run, call, cmd, promise, calls, deaths>>
    \/ \E i \in Runs : RunDies(i)
    \/ \E g \in Granters : GrantReturns(g) \/ GrantFails(g)
    \/ \E g \in Granters, verb \in {"allow", "deny"}, x \in Paths, a \in Pids \cup {NoPid} :
           \E p \in Target(a) : Grant(g, verb, x, p)
    \/ /\ (\E i \in Runs : Find(i)) \/ Apply \/ Refuse
       /\ UNCHANGED <<disk, run, writer, call, promise, calls, deaths>>

(* A directory that is gone, and that nobody has anything to do with any   *)
(* more, has no past.                                                      *)
Forgotten(p) ==
    /\ ~ dir[p] /\ cmd.at # p
    /\ \A i \in Runs : p \notin {run[i].pid, run[i].target} \cup run[i].todo
    /\ \A w \in Writers : writer[w].pid # p

(* What a process that dies in this step was writing or removing.          *)
Interrupted ==
    IF deaths' = deaths THEN {}
    ELSE {writer[w].pid : w \in {v \in Writers : writer'[v] # writer[v]}}
             \cup {run[i].target : i \in {j \in Runs : run'[j] # run[j]}}

Next ==
    /\ Step
    /\ clash' = {p \in Pids : (p \in clash \/ Clashes(p)') /\ ~ Forgotten(p)'}
    /\ broken' = {p \in Pids : p \in broken \cup Interrupted /\ ~ Forgotten(p)'}

Spec == Init /\ [][Next]_vars

-----------------------------------------------------------------------------
(* Properties.                                                             *)

Running(i) == run[i].stage = "running"

(* What `nd7 allow` and `nd7 deny` printed is what the next command gets:  *)
(* the session's profile is its own run's, grants every path allowed last  *)
(* and none denied last, whatever order the calls were made in.            *)
PromisesKept(i) ==
    LET profile == file[run[i].pid]["policy"].name IN
    /\ profile.kind = "whole" /\ profile.run = i
    /\ \A x \in Paths : /\ promise[i][x] = "allowed" => x \in profile.grants
                        /\ promise[i][x] = "denied" => x \notin profile.grants
GrantsTakeEffect == \A i \in Runs : Running(i) => PromisesKept(i)

(* It is so where no two processes worked on the directory at once and     *)
(* none died in it, through every reuse of pids and every sweep.           *)
GrantsTakeEffectUndisturbed ==
    \A i \in Runs : Running(i) /\ run[i].pid \notin clash \cup broken => PromisesKept(i)

(* A command that runs does so under a whole profile of the run its agent  *)
(* belongs to: not half of one, not that of a dead run whose pid or whose  *)
(* directory lives on.                                                     *)
OwnProfileUndisturbed ==
    [][Apply /\ cmd.at \notin clash => Profile.kind = "whole" /\ Profile.run = cmd.run]_vars

(* The record, which allow and deny start from, and the profile, which     *)
(* commands run under, agree whenever nobody is writing.                   *)
RecordIsProfile ==
    \A p \in Pids : dir[p] /\ AtWork(p) = {} /\ p \notin clash \cup broken =>
        file[p]["record"] = file[p]["policy"]

(* A run's sweep fails, and with it its start, only over a directory that  *)
(* another process is working on too.  What a kill left, half-written      *)
(* files included, is no obstacle.                                         *)
SweepFailsOnlyInClash ==
    [][\A i \in Runs :
          run[i].stage \in {"sweep", "swept"} /\ run'[i].stage = "over" /\ deaths' = deaths
              => run[i].target \in clash]_vars

(* A directory without a run behind it is what a kill left, or what an     *)
(* `nd7 allow` made again while the run removed it.                        *)
LeftoversHaveCause ==
    \A p \in Pids : dir[p] /\ deaths = 0 /\ p \notin clash =>
        \E i \in Runs : run[i].pid = p
=============================================================================
