# nd7-core in TLA+

nd7 records what a coding agent does and confines what it may do. Every hook of
the agent starts an `nd7 record` process that seals one event into a hash-chained
log of its session; `nd7 verify` walks that log; `nd7 ship` copies it, encrypted,
to a vault and may prune it afterwards; `nd7 run` starts the agent in a sandbox,
serves its ssh and browser requests, and keeps the policy that `nd7 allow` and
`nd7 deny` change and `nd7-exec` applies to each command; `nd7 init` writes the
hooks into the agents' own configuration. The hard part is that nearly all of
these are short-lived processes that share nothing but files, one advisory lock
and an unreliable network, and that any of them may be killed between two system
calls.

Paths below are those of the repository (`src/session_log.rs`, ...).

## The system's parts

| part | state | operations | hard because | right when |
|---|---|---|---|---|
| session log, `src/session_log.rs` | `events.ndjson`, `head`, `head.tmp`, `lock` | `append`, `verify`, `lock_exclusive`, `read_after_seq` | 40 hooks at once; a death between any two calls; a write cut short | dense linked chain; an Ok is in the log; a death is healed, not reported as tampering |
| shipping a session, `src/ship.rs` | `shipped`, `chain.key`, per-run memory | `session` = `read_pending`, `push`, `finish` with prune | the lock is dropped while the vault is asked; lost answers; two runs; prune removes the lock file | the vault's copy is a prefix of the log; one key per chain; nothing acknowledged is lost |
| enrolment and recipients, `src/ship.rs`, `src/vault/crypto.rs` | `machine.id`, `recipients`, `machine.key` | `enroll`, `--rotate`, `load`, `pin`, `verify_against` | files written one by one; the vault chooses what to hand out | wrapped only to admins a pinned admin vouched for; half an enrolment is none |
| vault (server elsewhere; `src/vault/`, the vault of `tests/ship.rs`) | stored indexes, batches, wraps, machines | `POST frames`, `enroll`, `GET recipients` | duplicates, stale batches | stores each frame once, in order |
| `nd7 run` directory, `src/session.rs`, `grant` in `src/bin/nd7.rs`, `find_session` in `src/bin/nd7-exec.rs` | `record.json`, `policy.sb` per pid | create, sweep, rewrite, drop, find | unlocked read-modify-write; pid reuse; two sweeps | the profile applied is the one recorded, of one's own run |
| policy and sandbox, `src/policy.rs`, `src/sandbox.rs`, `src/hook_prefix.rs`, `src/bin/nd7-exec.rs` | profiles of processes | render, spawn, apply, refuse | precedence of rules; the one way out of the floor | no grant opens nd7's records or the agents' configuration |
| agents' configuration, `src/agent_config.rs`, `init` in `src/bin/nd7.rs` | other programs' files | `install_claude`, `install_codex`, approvals, rc line | no lock; others edit the files; approvals are keyed by place | each hook once; approvals are of the hooks they stand at |
| brokers, `src/ssh_proxy.rs`, `src/ssh_agent.rs`, `src/open_proxy.rs` | connections, two logs | forward, describe, open | slow peers; threads on one log | one line per message, that names it; nobody waits for the log for ever |

Interaction: `record`, `verify` and `ship` meet only in the session directory
and on its `lock`. `ship` and the vault exchange signed requests and hold no
lock meanwhile. `nd7 run`, `allow`, `deny` and `nd7-exec` meet in
`~/.nd7/sessions/<pid>`, without a lock. Nothing calls back.

Each hazard of this code that a test would hardly reach is in `PROJECT.json`,
at its line, with the property that watches it.

## The modules

```
Chain  <-- AbstractLog
  ^            ^ (refinement mapping)
  |            |
SessionLog ----+    <-- SessionLogProofs
  ^                         ^
Ship  <-----------------  ShipProofs        Chain <-- Replica <-- Ship (refinement mapping)
  ^   (refines SessionLog:  ^   INSTANCE SessionLog under the same names)
Prune <-----------------  PruneProofs

Recipients <-- RecipientsProofs             RunSession <-- RunSessionProofs

Policy <-- Sandbox <-- SandboxProofs        SshAgent <-- Brokers <-- BrokersProofs

AgentConfig <-- AgentConfigProofs
```

`MCSessionLog`, `MCShip`, `MCPrune`, `MCRecipients`, `MCRunSession`,
`MCAgentConfig`, `MCSandbox` and `MCBrokers` add the symmetry sets and the
larger constants the `.cfg` files use.

**Chain** holds the pure functions of the chain: what the writer (`next_link`),
the reader (`verify_segment`, `head_agrees`) and the vault (`verify_linkage`)
check. A frame keeps `seq`, `prev`, `hash` and `kind`. The hash of a frame is
the number of the event it seals, i.e. BLAKE3 is taken to be injective, and two
appends never carry equal events (each has its own timestamp).

**SessionLog** is `append` and `verify`, one action per system call:

| action | code |
|---|---|
| `StartAppend` | `create_dir_all`; the event is in hand |
| `AppendOpens`, `AppendLocks` | `lock_exclusive`: open or create `lock`, then `flock` its inode |
| `ReadHead` | `read_head` |
| `TakeLink` / `Refuse` | `last_frame`, then `next_link` agrees / returns a `ChainError` |
| `WriteFrame` | `write_all` to `events.ndjson` |
| `WriteTmp`, `RenameHead` | `head.tmp`, rename, Ok |
| `FailAppend` | killed, or an I/O error, at any of these; a write may be cut short |
| `StartVerify` .. `CompareHead` | `verify`: lock shared, walk, compare with `head` |
| `ShipWants`, `ShipOpens`, `ShipLocks`, `ShipDrops` | `nd7 ship` as a user of the lock |

The lock is modelled as the kernel has it: locks belong to inodes, names can be
unlinked and created again. In this module nothing unlinks it; in `Prune`
something does.

**AbstractLog** is what the callers of `append` rely on: a chain that grows one
linked frame at a time, an event at most once, Ok only for an event in it.

**Ship** adds one ship run per shipper, the vault and the network. `ship[s].stage`
says which piece of `session` comes next: `pending` (`read_pending`), `send` and
`wait` (`push`), `ack` (the 200 branch), `recover` (the 409 branch), `finish`.
The four that need the lock take it, do their work in one step and drop it.
Requests and answers may be lost; a request whose sender gave up may arrive
later (`LateArrival`) or never. `Status` and `VaultTakes` are the vault of
`tests/ship.rs` over `verify_linkage`. The check of an unseen chain's wraps is
not repeated: a batch carries wraps exactly when it starts at seq 0, and the
linkage already refuses any other batch on an empty chain. Every step of Ship is
a step of SessionLog or leaves its variables alone.

**Replica** is what the runs and the vault come to together: a copy that catches up
with some prefix of the log at a time, under one key that is fixed with its first
frame, and a local mark that names a frame of the copy. There are no runs, locks,
requests or answers in it, and the mark may move back, as `shipped` does when the
slower of two runs writes it last.

**Prune** adds `remove_dir_all` to `finish`: the directory is listed, its names
are unlinked one at a time in any order, `rmdir` fails if a hook put something
in again. `exposed` remembers the events in a hook's hands while that goes on, and
afterwards those beside a hook that was at work then.

**Recipients** is the machine's `vault` directory over its whole life. `enroll`
is one action per exchange and per file: `VaultEnrolls` (the vault registers the
key, and with `--rotate` retires the old one or names the machine anew: `wire.rs`
allows the first, the vault of `tests/ship.rs` does the second),
`CheckFingerprint`, then `machine.id`, `recipients`, `machine.key` in the order
of the code. `nd7 ship` reads the three files one after another (`LoadKey`,
`LoadId`, `LoadRecipients`), fetches the set, pins it or refuses it
(`VerifyAgainst`), and pushes the first batch of each chain with its wraps. A
signature is who made it. The admins change the set at any time; nobody trusts
the vault, which may hand out any set they ever signed, however old, or one of
its own making.

**RunSession** is the directory of one `nd7 run`, with pids that are used again.
A file is a `name` and a `tmp`, each absent, empty, whole (of a run, with
grants) or mixed; `write_atomic` is `MakeDir`, `OpenTmp`, `WriteAll`, `Rename`,
twice per `write_policy_at`, and descriptors follow renames and unlinks
(`Moved`). `remove_dir_all` lists, unlinks in any order and fails at `rmdir` if
somebody put something in again. `nd7 run` is `Start` (the sweep's listing),
`Check` (`kill(pid, 0)`), `Own`, the writes, `Launch`, `AgentEnds`, `Drop`;
`allow` and `deny` are `Grant`, the writes, `GrantReturns` or `GrantFails`;
`nd7-exec` is `Find` over its ancestors, then `Apply` or `Refuse`. `promise` is
what the calls that returned said; `clash` and `broken` are the directories where
two processes met, or one died. A directory's history is forgotten when it is
gone and no run has its pid, lists it or removes it, nobody writes into it and
`nd7-exec` has not found it: only then is the next directory of that name a new
one. That the last four are needed shows with three runs and not with two (a run
may still have the name on its list when the next one makes the directory); it
came out of the proof, and TLC confirms it on three runs.

**AgentConfig** is `nd7 init` over three files, read in one step and written in
later ones, while the user, Codex and another init edit them. Claude's settings go
through `write_atomic`: `OpenTmp` creates or empties `settings.json.tmp`, which has
one name for all inits, `FillPart` and `FillTmp` write, `RenameTmp` renames; a
descriptor follows the file it was opened on, into the settings themselves when
another init renames the temporary. Codex's file is a sequence of hook tables,
groups without a handler and approvals; an approval names a *place* and holds a
hash, none, or the beginning of one. `AppendCutOff` cuts the append anywhere, and
`Remains` is what nd7 then reads of the table the cut is in. `TrustEntries` is `codex_trust_entries`; `Installed` takes any nd7's hook
of the kind for the hook. A list that keeps some positions of another is written
with `Only` and `Nth`, by how many positions come before each, instead of with
the library's filter: what it contains can then be derived by counting.

**Policy** is `render_floor` and `render_policy` as sequences of rules, and how
Seatbelt decides by one: rules that name the operation before rules that name its
class, and of those the last match. **Sandbox** is who is held to which: the
agent to the floor, what is started to its starter's profile, `nd7-exec` to
nothing until it has applied the session's profile or refused. A run's sockets lie
in the directory named by its pid (`SessionDir`), and a pid is given to another run
once its holder is gone; what a run started may outlive it, and so does the agent
of one that is killed (`KillRun`).

**SshAgent** is `decode` and `describe`; a frame is a sequence of cells, one per
byte, `u32` or length. Beside them are the forms the protocol gives the messages,
which the reading is compared with. **Brokers** is the threads of `ssh_proxy` and
`open_proxy`, with the mutex of each log and a line in two pieces. The run's name
is on each piece, so that a run's pieces can be followed through a log that
another run writes too.

## The runs

| run | instance | shows |
|---|---|---|
| `session_log_safety` | 2 hooks, verifier, ship run; 4 appends, 2 deaths | all safety of the log, and that it implements AbstractLog |
| `ship` | 1 hook, 1 ship run after another; 3 appends, 1 death, 1 loss; fair | vault, `shipped`, key and log agree; Ship implements SessionLog; no hook waits for the vault; what was acknowledged reaches it |
| `ship_two_runs` | 1 hook, 2 ship runs; 3 appends, 2 losses | nothing is skipped or stored twice with two runs, which together implement Replica |
| `prune_two_hooks` | 2 hooks; 3 appends, 1 death | what a prune can and cannot lose |
| `recipients` | 2 enrolments, 2 ship runs, 2 admins and a stranger; 2 at once; 2 keys, 2 changes of the set, 1 failure | who may be wrapped to, what half an enrolment is, when the pinned set goes back |
| `run_session` | 2 runs on 2 pids, 1 terminal, 1 path; 2 calls, 1 kill | the profile a command gets is its run's, with what was granted |
| `agent_config` | 2 terminals, 2 checkouts; 2 inits, 2 edits or failures | hooks once, the user's kept, approvals at their hooks, nothing on a second run |
| `sandbox` | 2 runs on one home, one of them with an ssh agent, and a third with the pid of the first; 3 processes, 2 calls | what either profile keeps shut, whatever is granted or started |
| `brokers` | 2 runs, 2 connections, messages of 6 shapes, 1 failure; fair | lines of one run do not mix and name the messages; no thread waits for a log for ever |
| `prune_stale_head`, `run_session_lost_grant`, `agent_config_moved_hook` | minimal | **fail**, see below |

Bounds stand in guards only. `MaxEvents` bounds the append calls, `MaxFailures`
the deaths and I/O errors, `MaxLosses` the losses on the network and the deaths
of ship runs. Two hooks are enough for every race on one log, since a third adds
only one more waiter on the lock. Three appends with `BatchLimit = 2` give a
batch of two, a second batch, and an append that happens while a batch is in
flight. Two deaths reach both a repair and its limit. In `recipients` two changes
of the set are what it takes to miss one, and two at once (of `MaxAtOnce`), of
one kind or of both, what it takes to overlap; in `run_session` two runs on two pids give a pid to a second run
while the first one's directory is left behind, and the second run's sweep; two
calls are a grant and its withdrawal. What a third run adds, a list of names that
has grown old, is beyond this run and in the theorems. Two inits in
`agent_config` are a call and its repetition as well as two at once; two mishaps
(`MaxMishaps`) are an edit before and one between, or an edit and a failure, which
is a kill between any two calls of `write_atomic` or a cut. In `sandbox` three
processes are an agent, its command and what that starts, or what the first run
left behind beside the agent of the third; the home itself, a directory of the
agents and the other run's project can be granted. The theorems below need none of
these bounds, nor the numbers of processes and paths.

Deadlock is checked in the log and ship runs. In the others the system may stop:
the agent is over, the files are installed, a pruned session has nothing left to
do.

Fairness. A process that can make its next system call makes it (weak fairness
per process), and the kernel serves the waiters of a lock (strong fairness of
the one `flock` step, because others may take and drop the lock meanwhile).
Nothing is assumed of hooks starting, of deaths, or of anyone running `verify`.
The vault is assumed to do nothing: that a run follows a run, as `--every` or a
timer makes it, and that the vault answers (`VaultServes`) is the antecedent of
`AckedReachVault` alone, and with the losses bounded it means that the network
works in the end. In Brokers a thread writes the line it has to write
(`WF(NoteStep)`); no client and no agent has to do anything. A mutex needs no
strong fairness there, because with a bounded number of messages it is not taken
for ever.

### What fails

These runs check what a comment or message of the repository says, and TLC
shows a behaviour of the code that does otherwise. `PROJECT.json` quotes the line.

- **`head` stands in for the log** (`PrunesOnlyHeld` in `prune_stale_head`).
  `finish` decides "the vault has everything" by `shipped == head`. After an
  append died before `head`, the log has one frame more, and it may be pruned
  unsent.
- **A grant is lost** (`GrantsTakeEffect` in `run_session_lost_grant`). Two
  `nd7 allow` at once both report success; the later write back has only its own.
- **Approvals stay where the hooks were** (`InitApproves` in
  `agent_config_moved_hook`). A user's hook in front of nd7's moves it to another
  place; `nd7 init` finds an approval at that place, whatever its hash, and adds
  none.

The weaker statements that do hold are checked beside them:
`PrunesOnlyHeldUnlessDeath`, `LossNeedsOverlap`, `GrantsTakeEffectUndisturbed`,
`TrustedIsApprovedUnlessMoved`. Their exceptions are needed, and so are the other
properties':

- `ClosesWholeChainUnlessDeath`: without `failures = 0` the comparison with
  `head` deletes `chain.key` before a `session_end` whose append died is sent.
- `NoFalseStopUnlessDeath` fails without it when a run sends the frame beyond a
  stale `head`: every later run stops the session until another append repairs
  `head`. It also fails for two runs at once, where the slower one calls the
  faster one's progress a divergence, and for a session resumed after its
  directory was pruned, which starts at seq 0 again.
- `LossNeedsOverlap`: without `exposed`, a hook that opens a new `lock` while
  `remove_dir_all` is running appends with Ok to files that are then unlinked.
  Exposure lasts as long as a hook from the time of the prune is at work: it
  holds the lock of the old inode, and can write into the log of a directory
  made since.
- `KeyFitsIdUnlessCutOff`: the vault retires a machine's key as it answers
  `--rotate`; a call that ends before its last write, by its own check of the
  fingerprint too, leaves a key the vault no longer knows until another
  `--rotate` runs by itself.
- `SetGoesBackHasCause`: nothing compares versions, so the slower of two runs may
  pin an older set over a newer one, and so does a single run that the vault
  handed one.
- `RefusesOnlyWhenBehind`: a machine that slept through two changes may be
  offered a set whose signer its pinned set does not have. It is a claim about
  being able to go on: what the machine may be made to accept is the matter of
  `OnlyVouchedAdmins` and `SetGoesBackHasCause`.
- `OwnProfileUndisturbed` and `RecordIsProfile`: two writers share one temporary
  name, and a directory left by a kill may name the pid of an agent. Likewise
  `GrantsTakeEffectUndisturbed`, `LeftoversHaveCause` and `SweepFailsOnlyInClash`:
  where two processes do meet in a directory, or one dies in it, each of the five
  fails. They show that nothing else makes it.
- `OwnHooksKept`: without `shared`, two inits lose the user's hooks (below);
  without `raced`, an edit made between reading and renaming is lost.
- `TrustedIsApprovedUnlessMoved`: without `Readable`, a hash that was cut off
  counts as an approval (below).
- `SocketsOfOwnRun`: without `OwnOrHeir`, what a run left behind reaches the
  sockets of the run that gets its pid (below). It speaks of the floor where the
  broker is concerned.
  `README.md:211` and `docs/DECISIONS.md` (ADR-0007) call the floor "never wider"
  than the command profile; it has three rules the other lacks (the way out,
  the login keychain, the broker's socket), as `src/policy.rs` itself says of
  each.

Behaviours TLC shows that no run lists as a failure:

- Two appends in a row that die between frame and `head` leave `head` two behind,
  and the log refuses every later append; `OneDeathHeals` is the promise for one.
- Once prune has unlinked `lock`, a waiter on the old inode and a creator of the
  new file both write; the chain is no longer dense.
- A run killed inside `remove_dir_all` can leave a log without `chain.key` and
  `shipped`; the next run seals with a key the vault has no wrap for.
- Of two ship runs, the slower may write the `shipped` of its batch over the
  faster one's, also after the chain was closed. The next run recovers by the 409.
- An admin added between the fetch of the set and a chain's first batch makes
  the vault refuse it; the run reports a divergence, and the next run succeeds.
- The lines of two `nd7 run`s may mix in one log (`OneLineEachWithinRun`).
- A vault replays a set. It hands a ship run, which runs alone, a set that an admin
  signed and the admins have replaced since; the machine pins it over the newer one
  and wraps the next chain to an admin who was taken out. `verify_against`
  (`src/vault/crypto.rs:425`) asks for a valid signature by a pinned admin and
  compares no versions, and neither does `pin`. The comments expect otherwise:
  `crypto.rs:356` says the version is bumped "so a machine can tell a newer set
  from an older one", `crypto.rs:405` that "the version keeps a signature over an
  old set from being replayed as a new one", and `crypto.rs:384` that a machine can
  accept a set "without trusting the vault". `SetGoesBackHasCause` without
  `GivenStale` is violated by that.
- Two inits lose the user's hooks. Both read Claude's settings, one fills
  `settings.json.tmp`, the other opens it, which empties it, and the first renames
  it: `settings.json` is empty until the other has written, and for good if that
  one is killed. A reader meanwhile sees half a file, which `src/session.rs:130`
  says it never does.
- An approval that is cut off stays. When the append ends inside the line
  `trusted_hash = "sha256:...`, Codex cannot read the file, while
  `codex_trust_keys_present` looks at the beginning of the line only
  (`src/agent_config.rs:395`), so that `codex_hooks_trusted` takes the hook for
  approved and no later `nd7 init` writes its approval again.
- A process that a run left behind outlives the run's pid. Its profile names paths
  below `~/.nd7/sessions/<pid>`; the next run with that pid serves its sockets
  there, and the process reaches them: the ssh agent's, and the open broker's if
  it is held to the floor.

Operators whose comment begins with "Slip" are not part of the specification.
Each is a plausible wrong version of the definition below it, and each property
of a passing run is violated when one of them takes that definition's place.

## The proofs

For every set of processes, every set of kinds and every bound, from
`ProcessesAssumption` (the three kinds of process are different processes) and
`BoundsAssumption`:

| theorem | statement |
|---|---|
| `TypeCorrect` | `Spec => []TypeOK` |
| `ChainIsDense` | `Spec => []DenseChain` |
| `HeadIsBounded` | `Spec => []HeadTrailsLog` |
| `OneDeathIsHealed` | `Spec => []OneDeathHeals` |
| `AckedAreCovered` | `Spec => []AckedIsCovered` |
| `VerifyIsSound` | `Spec => []NoFalseAlarm` |
| `AppendKeepsPromise` | `Spec => ImplementsAbstractLog` |

The inductive invariant is built in layers, each proved from the ones below:

1. `TypeInv`: types, and that a hook at work has a real event (a frame's hash is
   never the genesis value).
2. `LockInv`: whoever is past `open_lock` has the one inode the name `lock` ever
   gets; whoever is past `flock` holds it; two holders are two verifiers. It
   rests on nothing ever unlinking the name, which is exactly what `Prune` breaks.
   Steps are classified by what they do to the lock (`StepUsesLock`).
3. `ChainInv`: `LinkInv`, what a hook knows at each step of `append` (the head it
   read is still `head`, the frame it links to is still the last one), and
   `DenseChain`. `DenseChain` alone is not inductive: a hook about to write must
   be known to link to the current end.
4. `HeadInv`: `head` names a frame of the log and is behind by at most the deaths
   plus the one frame written and not yet put into `head`.
5. `EventInv`: every call has an event of its own; the log holds each once.
6. `AlarmInv`: a verifier between its two reads has seen the log there is.

All layers were model-checked as invariants before they were proved.

`SandboxProofs`, for every layout of paths, every set of runs and processes and
every bound, from `PolicyAssumption` (the paths and the names the profiles use
are among `Names`) and `SandboxAssumption`:

| theorem | statement |
|---|---|
| `SandboxTyped` | `Spec => []TypeInv` |
| `RecordsAreSealed` | `Spec => []RecordsSealed` |

`RecordsSealed` speaks of what a profile decides and is not inductive: a profile
is copied by `Fork`, not derived again. `IInv` says instead that every settled
process is held to the floor of its run, or to the command profile of its run
under some grants (`HeldToProfile`); `StepOk` shows that each step keeps it (only
`nd7-exec` is ever free, and it is not settled). Both rendered profiles end in the
two denies for any policy (`RenderedEnds`), and a profile that does denies every
write to a sealed path (`SealedDenied`): the denies name each operation, so they
are consulted before any rule for the class, and they are the last to match.

The other three theorems come from the same invariant.

| theorem | statement |
|---|---|
| `SecretsStayUnread` | `Spec => []SecretsUnread` |
| `GrantsAreForCommands` | `Spec => []GrantsOnlyInCommands` |
| `SocketsAreOwn` | `Spec => []SocketsOfOwnRun` |

They follow by looking up the last rule that matches, from which rules each part
of a profile has and in which order the parts come.
`SocketsAreOwn` also uses `SocketAssumption`, which is where `nd7 run` puts the
sockets (`src/bin/nd7.rs:266-267`): `open.sock` and `ssh.sock` in the directory
named by the run's pid. That the sockets of two runs differ is not assumed but
derived where it is so: two paths with the same end have the same pid before it
(`SocketsOfPid`), and of two runs with one pid at most one is up, since a pid is
given again only when its holder is gone (`RunsInv`). What is left is the heir of
a run that is over, which the property names.

### Shipping

For every number of hooks, verifiers and ship runs at once, every batch limit and
any number of losses, from the assumptions of SessionLog and `ShipAssumption`:

| theorem | statement |
|---|---|
| `ShippingIsInvisible` | `ShipSpec => ImplementsSessionLog` |
| `VaultIsPrefix` | `ShipSpec => []VaultHoldsLog` |
| `ShippedIsVaulted` | `ShipSpec => []ShippedIsHeld` |
| `VaultIsReplica` | `ShipSpec => ImplementsReplica` |
| `OneKeyEver` | `ShipSpec => []OneKeyPerChain` |
| `KeyOutlivesChain` | `ShipSpec => ClosesWholeChainUnlessDeath` |
| `StopsOnlyForDivergence` | `ShipSpec => []OnlyDiverges` |
| `OneRunAdvances` | `OneRun => (ShipSpec => ShippedAdvances)` |
| `OneRunNeverStops` | `OneRun => (ShipSpec => []NoFalseStopUnlessDeath)` |

`ShippingIsInvisible` is a step simulation under the identity: every step of Ship
is a step of SessionLog or leaves its variables alone. Through it all of
SessionLog's invariants hold of Ship (`LogInv`), and `ShipInv` is built on them:

1. `ShipTypeInv`: types, also of what a run holds in memory.
2. `VaultInv`: the vault holds the beginning of the log, `shipped` names a frame
   of it, and a request still on its way carries frames of the log.
3. `RunInv`: what a run read under the lock is a stretch of the log that starts
   right after the `shipped` it read, although both may have moved on since; an
   answer of the vault names a head the vault has had.
4. `KeyInv`: at most one key is ever made, and it is the one in the memory of the
   runs, the requests, the batches and the wraps; once it is gone from the
   directory something has been shipped, so that no other is made.

`VaultIsReplica` reads the vault's frames as the copy, `shipped` as the mark and the
number of the wrapped key as the key. `WriteFrame` is the Write of Replica; a request
the vault takes, from a run or late, is a Replicate, because by 2 and 3 what it adds
continues the copy up to some frame of the log, and by 4 it is sealed to the same
key; `WriteShipped` and `Recover` are Marks; every other step changes nothing of it.

`VaultHoldsLog` is not inductive without 3: a batch is built from a copy of the
log that is used after the lock was dropped. `OnlyDiverges` says that while no
append died before `head`, "diverged" is the only reason to stop that any number of
runs can meet: none finds its frames gone or its sidecars wrong, a broken link in
what it read, or a batch that the vault calls malformed.

The last two theorems are false for two runs at once, which is why they have a
hypothesis. `OneRun` says that `Shippers` has at most one member, i.e. that one
ship run follows another; `OneRunInv` then ties `shipped` to the place the run is
at, and bounds what a late request may carry by `shipped`.

### Prune

For every number of hooks and appends, every batch limit and any number of losses
and deaths, from the assumptions of Ship and `PruneAssumption` (one ship run at a
time, which is what the module is about, and no verifier):

| theorem | statement |
|---|---|
| `PruneInvariant` | `PruneSpec => []PruneInv` |
| `LossHasCause` | `PruneSpec => []LossNeedsOverlap` |
| `PrunesHeld` | `PruneSpec => PrunesOnlyHeldUnlessDeath` |

Nothing of the two sections above can be used as it stands. `LockInv` is false: the
name `lock` may have a new inode while a hook works under the old one. `DenseChain`
is false afterwards, and stays false. And `VaultHoldsLog` is false, since the log
is gone and a new one begins at seq 0. What remains is this:

1. `HeldInv`: per inode, whoever is past `flock` has it, and has it alone; the run's
   inode is the one that has the name, until the run prunes. `CleanInv`: while no
   prune is under way and no hook at work was beside one (`Clean`), all hooks have
   that inode too, so that the lock is one lock and `LinkInv` holds, and its
   preservation is the lemma of `SessionLogProofs`. `Clean` comes back only when
   the last of the hooks that were beside a prune has ended, so `LinkInv` is
   re-established from nothing (`DirtEnds`): then no hook is at work at all.
2. `IdInv`: no frame in play, that is in the log, the vault, a run's memory or a late
   request, carries the event of a hook that has not written yet. A late request
   may still bring frames of a log that was removed.
3. `RunsInv`: `shipped`, the heads of the batches and the vault's answers are heads
   the vault has had. Of `VaultInv` this is what survives.
4. `KeptInv`: an acknowledged event that is neither exposed nor in the vault is in the
   log and has a *trail*, a set of hashes with the event's own, the one in `head` and the
   one of the log's last frame among them, none of them in the vault, and closed under
   `prev` as far as the event. The next append puts its frame on every trail, because
   it links to the last frame. The vault stores a batch only as a linked
   continuation of what it has, so it takes no frame of a trail before the event
   (`VaultMissesTrails`, by the first frame of the batch that is on it). So `head` is
   not in the vault while a trail is there, `shipped` is, and `finish` cannot find
   them equal (`TrailPending`).
5. `AccountInv`: while no append has died, each frame of the log is acknowledged,
   exposed, or its hook is between the write and the rename.

`LossNeedsOverlap` is 4. For `PrunesOnlyHeldUnlessDeath` a hook between the write
and the rename would hold the lock the run holds (1), so by 5 every frame that is
not exposed was acknowledged, and by 4 the vault has it.

### Recipients

From `RecipientsAssumption` alone, for every set of admins, strangers, keys and
processes, with the vault free to offer any set ever signed and any of its own:

| theorem | statement |
|---|---|
| `OnlyTheOrganisation` | `Spec => []OnlyVouchedAdmins` |
| `NoHalfEnrolment` | `Spec => []EnrolmentIsWhole` |
| `RefusedIsBehind` | `Spec => RefusesOnlyWhenBehind` |
| `BackHasCause` | `Spec => SetGoesBackHasCause` |
| `PairIsKnown` | `Spec => []KeyFitsIdUnlessCutOff` |

`VouchedInv` says of every set that is pinned, in a process's memory or handed out
by the vault what its signer implies; `AloneInv` says what a run knows of the
pinned set while no other has run beside it and the vault has handed it the
current one; `PairInv` relates `machine.id`,
`machine.key`, the call that is writing them and the vault's own register.

### The session directory

From `RunSessionAssumption`, for every number of runs, pids, terminals, paths,
calls and kills:

| theorem | statement |
|---|---|
| `PromisesHold` | `Spec => []GrantsTakeEffectUndisturbed` |
| `FilesAgree` | `Spec => []RecordIsProfile` |
| `NothingIsLeft` | `Spec => []LeftoversHaveCause` |
| `CommandsRunUnderTheirs` | `Spec => OwnProfileUndisturbed` |
| `SweepsGetThrough` | `Spec => SweepFailsOnlyInClash` |

The invariant is about one directory at a time. `Base` holds always (who may be at
which stage with which pid, and that the contents written for a run are found only
under its pid). Of a directory outside `clash`, `Settled` holds: whoever is at work
in it is there alone, so that what it has written so far is what is in the files
(`Written`, `Same`), the profile is the recorded one with what was promised
(`Kept`), and `nd7-exec`, between finding the directory and applying the profile,
has the profile of its own run (`Found`). A step in another directory leaves all of
this alone; a step in this one either keeps it or is where two processes meet, and
then the directory is in `clash`.

### Brokers

| theorem | statement |
|---|---|
| `LinesOfARunAreWhole` | `Spec => []OneLineEachWithinRun` |
| `ReadBack` | `InForm(w)` implies `Describe(w.frame) = w.means` |
| `LinesAreOfMessages` | `ProtocolForm => (Spec => []LinesNameMessages)` |

For every number of runs and connections. `HeldInv`: a thread between the pieces
of a line holds its run's mutex of that log. `LineInv`: the next piece of the run
that began a line is its end, or there is none yet and the thread that began it is
about to write that. `CarryInv` and `SentInv`: what a thread carries, and what is
in the log, was sent.

`ReadBack` is about the reading alone. `InForm` are the forms of the protocol:
requests to sign an ssh login or anything else, signatures, a session's bind, other
extensions, messages of a type alone, and those whose first string ends too early,
each with strings of any length and with anything after its fields. What a message
means is put together from the fields, its frame by encoding them, and the proof
follows `describe` over the frame: `BytesRead` and `CellRead` say that a field read
at the front of a frame is the one that was put there and leaves the rest, and the
rest follows by how the fields are joined (`ThenAssociative`). `ProtocolForm` says
that the messages of the instance have these forms; one that answers with a list of
keys is read by a recursion over its count, and of those it asks that they are read
as meant. The `brokers` run has such lists, whole and cut short.

### The agents' configuration

From `AgentConfigAssumption`, for every number of inits, checkouts, edits and
failures:

| theorem | statement |
|---|---|
| `TablesOnce` | `Spec => []NoDuplicateTables` |
| `HooksOnce` | `Spec => []OneHookEach` |
| `UserHooksStay` | `Spec => []OwnHooksKept` |
| `TrustedIsApproved` | `Spec => []TrustedIsApprovedUnlessMoved` |
| `SecondInitIsIdle` | `Spec => SecondInitWritesNothing` |

`IInv` (`AgentConfigInvariant`) has the two first as conjuncts; they are not
inductive by themselves. What an init adds depends on what it has read, and
`FreshInv` says that, as long as it is the only one (`AloneInv`) and nobody edits
meanwhile, this is still what the file holds when it writes. `HashInv`: only an
append that was cut off leaves an approval without its hash; such a one has no key
for `codex_trust_keys_present`, and a second approval is then appended under the
same place. `PlacedInv`: where there is an approval with a whole hash, the hook of that
place is approved; it survives Codex's rewriting, which puts the approvals in
another order. A hash that was cut off makes the file no TOML (`Readable`), and what
is left of a cut table moves no hook before it (`CutDoes`, `Regroup`).
`OwnInv` speaks of what an init has read too, and needs no `FreshInv`. It rests on
`TmpInv`: as long as no two inits had the temporary open at once, it is open at most
to one, it holds what that init has written, and what gets the name of the settings
is all of the new file. `SettledInv` follows a call through the files: what it has
passed is installed, and in Codex's file approved.

Below this lie lemmas about texts: `Only` keeps exactly the chosen positions in
their order, and `Place` tells the hooks of one event apart and does not change
when tables are appended. They count positions (the rank of a position among the
chosen ones takes each value up to their number once, `FS_Injection`), so no
induction over a sequence is needed.

### Only model-checked

- Liveness: `AckedReachVault`, `HooksNeverWaitForVault`, `LogNeverBlocks`. TLAPS
  does not do fairness here.
- What `SshAgent` reads of a list of keys: the list is read by recursion over its
  count, and what a recursion computes is shown by induction over data, which these
  provers cannot do.

Every other property of a passing run is the statement of a theorem; three of them
(`ShippedAdvances`, `NoFalseStopUnlessDeath`, `LinesNameMessages`) under the
hypothesis given with it.

## What is abstracted, and what is not modelled

- Processes die; the machine does not lose power. The code calls no `fsync`, so
  nothing is claimed about what survives that.
- Frames in the log are the writer's own bytes. Edits by somebody else, and the
  verdicts only they can cause (`HashMismatch`), are not modelled yet.
- `read_pending` and the body of `finish` up to the prune are one step each:
  they run under the exclusive lock, and what they read (`events.ndjson`, `head`,
  `shipped`, `chain.key`) is written only under that lock. A death inside them
  leaves what a death before or after them leaves, because each makes at most
  one rename or unlink.
- `MAX_BATCH` is a number of frames. Compression, encryption and wraps are the
  number of the key. The age of a session's last frame is left to chance.
- A vault that answers anything else than 200, 409 or 422 is `Unreachable`.
- Deaths of a verifier are not modelled; it writes nothing but the lock file.
- Prune runs with one ship run and no verifier.
- Recipients has one server, one write per file (its steps are in RunSession)
  and of a chain only its first batch; the rest is Ship.
- RunSession leaves out the shim and the sockets of the directory. A path is
  canonical; that `grant` refuses nd7's own records is in Sandbox.
- Sandbox reads and writes a session's record in one step each; the steps
  between are RunSession's. Paths do not move: links and renames of directories
  are not modelled. Of rules that differ only in a path or an operation, a few
  stand for all.
- In AgentConfig two events stand for all that are recorded, a hook's hash is its
  command, and every group has one handler. `--project` is the same install on
  another file. `aliases.sh` is truncated and written in place, with no
  temporary name; it is rewritten whole by the next `init`, and is not modelled.
- Sandbox and SessionLog are not composed. What the agent starts inherits the
  floor, and `RecordsSealed` holds of it too: an `nd7 record` that a hook starts
  under `nd7 run` may, by the rendered rules, not write below the state root.
  SessionLog is the log of hooks that may.
- In SshAgent a length is a cell of its own; that a length is four bytes, and the
  limit on a frame's size, are not modelled.
- Not modelled, because they are pure or only input and output: the parsing of
  hook input (`src/hook/input.rs`, `src/hook/invocation.rs`), the serialisation
  of `src/vault/wire.rs`, the cryptographic primitives, which URLs `check` lets
  through, quoting in `src/hook_prefix.rs`, the text of TOML and JSON in
  `src/agent_config.rs`, flags and messages of the command line.

## The plan

Done: all modules above, and a theorem for each property of their passing runs but
the ones listed as only model-checked.

What would come next, in this order:

1. `Verify`: `verify_segment` over edited, deleted, reordered and transplanted
   frames against a reference definition of "the log as written".
2. An abstract session (one policy per live run, changed atomically) that RunSession
   implements away from clashes.
3. Prune with several ship runs, and with a verifier.
4. Lemmas about `Linked` (concatenation, prefixes), of which `ShipProofs` has the
   ones it needs.
