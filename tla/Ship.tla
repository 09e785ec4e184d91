-------------------------------- MODULE Ship --------------------------------
(***************************************************************************)
(* `nd7 ship` on one session, and the vault it ships to                    *)
(* (src/src/ship.rs, docs/VAULT.md sections 6 and 7), beside the processes *)
(* of SessionLog that go on appending.                                     *)
(*                                                                         *)
(* A run holds the session lock for local work only: it opens and locks    *)
(* it, does one atomic piece of work, drops it, and talks to the vault     *)
(* with no lock held.  `ship[s].stage` says which piece is next; pc[s] is  *)
(* only the state of its lock, so every step here is a step of SessionLog  *)
(* or leaves SessionLog's variables alone.                                 *)
(*                                                                         *)
(* `--prune-after` is off in this module.  What a run does before it       *)
(* reaches a session (the recipient set) is not in it.                     *)
(***************************************************************************)
EXTENDS SessionLog

CONSTANTS
    BatchLimit,  \* frames in a batch of MAX_BATCH bytes
    MaxLosses    \* bound: requests or answers lost, and deaths of a ship run

ASSUME ShipAssumption == BatchLimit \in Nat \ {0} /\ MaxLosses \in Nat

NoKey == 0
NoAnswer == [status |-> 0, head |-> NoHead]
Off == [stage |-> "off", recover |-> FALSE, after |-> NoHead, run |-> <<>>,
        cut |-> FALSE, key |-> NoKey, sent |-> 0, answer |-> NoAnswer]

VARIABLES
    (* The session directory, beside SessionLog's files. *)
    shipped,  \* shipped
    key,      \* chain.key, a key's number
    (* The runs. *)
    ship,     \* what a run holds in memory
    outcome,  \* how a shipper's last run over the session ended
    (* The vault and the network. *)
    vault,    \* the index of the stored frames
    batches,  \* the batches as received
    wraps,    \* the key wrapped to the admins with the first batch
    late,     \* requests whose sender has given up on them
    (* History. *)
    keys,     \* chain keys generated
    losses    \* losses and deaths so far

vaultVars == <<vault, batches, wraps>>
shipVars == <<shipped, key, ship, outcome, vaultVars, late, keys, losses>>
vars == <<logVars, shipVars>>

Init ==
    /\ InitLog
    /\ shipped = NoHead /\ key = NoKey
    /\ ship = [s \in Shippers |-> Off]
    /\ outcome = [s \in Shippers |-> "none"]
    /\ vault = <<>> /\ batches = {} /\ wraps = NoKey
    /\ late = {} /\ keys = 0 /\ losses = 0

-----------------------------------------------------------------------------
(* The vault: POST .../frames.                                             *)

(* Slip: the vault does not check the linkage.                             *)
AcceptsUnlinked(q) == q.index # <<>>

Accepts(q) == Linked(HeadOf(vault), q.index)
Stored(q) ==
    /\ vault # <<>> /\ q.index[1].seq <= HeadOf(vault).seq
    /\ \E b \in batches : b.index = q.index

(* 200 stored or already there; 422 when the index breaks after its first  *)
(* entry; 409 with the stored head otherwise.                              *)
Status(q) ==
    CASE Accepts(q) \/ Stored(q) -> 200
      [] OTHER ->
            IF q.index[1].seq > HeadOf(vault).seq /\ FirstBreak(HeadOf(vault), q.index) > 1
            THEN 422 ELSE 409

VaultTakes(q) ==
    IF Accepts(q)
    THEN /\ vault' = vault \o q.index
         /\ batches' = batches \cup {q}
         /\ wraps' = IF q.index[1].seq = 0 THEN q.key ELSE wraps
    ELSE UNCHANGED vaultVars

-----------------------------------------------------------------------------
(* The lock, as a run uses it.                                             *)

StartRun(s) ==
    /\ ship[s].stage = "off" /\ dir
    /\ ship' = [ship EXCEPT ![s] = [Off EXCEPT !.stage = "pending", !.recover = TRUE]]
    /\ UNCHANGED <<logVars, shipped, key, outcome, vaultVars, late, keys, losses>>

LockWork == {"pending", "ack", "recover", "finish"}

WantsLock(s) == ship[s].stage \in LockWork /\ ShipWants(s) /\ UNCHANGED shipVars
OpensLock(s) == ShipOpens(s) /\ UNCHANGED shipVars
(* Slip: a run works on the directory without waiting for the lock.        *)
TakesNoLock(s) ==
    /\ pc[s] = "flock" /\ pc' = [pc EXCEPT ![s] = "busy"]
    /\ UNCHANGED <<diskVars, kernelVars, fd, recorderVars, verifierVars, shipVars>>

TakesLock(s) == ShipLocks(s) /\ UNCHANGED shipVars

(* A run ends, with the reason it stopped for or "Done" or "Unreachable".  *)
End(s, how) ==
    /\ ship' = [ship EXCEPT ![s] = Off]
    /\ outcome' = [outcome EXCEPT ![s] = how]

Goto(s, stage) == ship' = [ship EXCEPT ![s].stage = stage] /\ UNCHANGED outcome

-----------------------------------------------------------------------------
(* read_pending.                                                           *)

(* read_after_seq: what follows the last line that carries this seq.       *)
Carrying(n) == {i \in 1 .. Len(frames) : frames[i].seq = n}
AfterSeq(n) ==
    SubSeq(frames, 1 + (CHOOSE i \in Carrying(n) : \A j \in Carrying(n) : j <= i),
           Len(frames))
Region == IF shipped = NoHead THEN frames ELSE AfterSeq(shipped.seq)

NothingPending == head = NoHead \/ shipped = head
Refusal ==
    CASE shipped # NoHead /\ Carrying(shipped.seq) = {} -> "gone"
      [] OTHER ->
           IF Region = <<>> /\ ~torn THEN "sidecars"
           ELSE IF key = NoKey /\ shipped # NoHead THEN "closed"
           ELSE "none"

UpToDate(s) ==
    /\ NothingPending
    /\ Goto(s, "finish")
    /\ UNCHANGED <<key, keys>>

PendingFails(s) ==
    /\ ~ NothingPending /\ Refusal # "none"
    /\ End(s, Refusal)
    /\ UNCHANGED <<key, keys>>

(* Slip: every run makes a key.                                            *)
PendingNewKey(s) ==
    /\ ~ NothingPending /\ Refusal = "none"
    /\ keys' = keys + 1 /\ key' = keys'
    /\ ship' = [ship EXCEPT ![s].stage = "send", ![s].after = shipped,
                            ![s].run = Region, ![s].cut = torn, ![s].key = key',
                            ![s].sent = 0]
    /\ UNCHANGED outcome

PendingFound(s) ==
    /\ ~ NothingPending /\ Refusal = "none"
    /\ keys' = IF key = NoKey THEN keys + 1 ELSE keys
    /\ key' = IF key = NoKey THEN keys' ELSE key
    /\ ship' = [ship EXCEPT ![s].stage = "send", ![s].after = shipped,
                            ![s].run = Region, ![s].cut = torn, ![s].key = key',
                            ![s].sent = 0]
    /\ UNCHANGED outcome

(* Slip: the lock is held while the batches are sent.                      *)
ReadPendingKeepsLock(s) ==
    /\ pc[s] = "busy" /\ ship[s].stage = "pending"
    /\ UpToDate(s) \/ PendingFails(s) \/ PendingFound(s)
    /\ UNCHANGED <<logVars, shipped, vaultVars, late, losses>>

ReadPending(s) ==
    /\ pc[s] = "busy" /\ ship[s].stage = "pending"
    /\ UpToDate(s) \/ PendingFails(s) \/ PendingFound(s)
    /\ ShipDrops(s)
    /\ UNCHANGED <<shipped, vaultVars, late, losses>>

-----------------------------------------------------------------------------
(* push.                                                                   *)

Verdict(s) == VerifySegment(ship[s].after, ship[s].run, ship[s].cut)

(* The batch a run is at, of batches(): never more than BatchLimit frames. *)
BatchEnd(s) ==
    IF ship[s].sent + BatchLimit < Len(ship[s].run)
    THEN ship[s].sent + BatchLimit ELSE Len(ship[s].run)
Batch(s) ==
    [index |-> SubSeq(ship[s].run, ship[s].sent + 1, BatchEnd(s)), key |-> ship[s].key]

StopOnVerdict(s) ==
    /\ ship[s].stage = "send" /\ Verdict(s) # "ok"
    /\ End(s, Verdict(s))
    /\ UNCHANGED <<logVars, shipped, key, vaultVars, late, keys, losses>>

Send(s) ==
    /\ ship[s].stage = "send" /\ Verdict(s) = "ok"
    /\ Goto(s, "wait")
    /\ UNCHANGED <<logVars, shipped, key, vaultVars, late, keys, losses>>

VaultAnswers(s) ==
    /\ ship[s].stage = "wait" /\ ship[s].answer = NoAnswer
    /\ VaultTakes(Batch(s))
    /\ ship' = [ship EXCEPT ![s].answer =
                   [status |-> Status(Batch(s)), head |-> HeadOf(vault')]]
    /\ UNCHANGED <<logVars, shipped, key, outcome, late, keys, losses>>

(* A request nobody waits for still arrives, or never does.                *)
LateArrival(q) ==
    /\ q \in late
    /\ late' = late \ {q}
    /\ VaultTakes(q)
    /\ UNCHANGED <<logVars, shipped, key, ship, outcome, keys, losses>>

(* What becomes of the request of a run that stops waiting: unless it was  *)
(* answered it may still be on its way.                                    *)
Abandon(s) ==
    late' = IF ship[s].stage = "wait" /\ ship[s].answer = NoAnswer
            THEN late \cup {Batch(s)} ELSE late

(* Timeout or network error: the request or its answer is lost.            *)
Unreachable(s) ==
    /\ ship[s].stage = "wait" /\ losses < MaxLosses
    /\ losses' = losses + 1
    /\ Abandon(s)
    /\ End(s, "Unreachable")
    /\ UNCHANGED <<logVars, shipped, key, vaultVars, keys>>

(* Slip: a lost acknowledgement is only recognised when it was for all     *)
(* that is pending now.                                                    *)
OursIfAll(s) == HeadOf(ship[s].run) = ship[s].answer.head

(* A 409 whose head is a pending frame of ours past `shipped`: an          *)
(* acknowledgement was lost.                                               *)
Ours(s) ==
    /\ ship[s].answer.head.seq > ship[s].after.seq
    /\ \E i \in 1 .. Len(ship[s].run) : HeadAt(ship[s].run[i]) = ship[s].answer.head

TakeAnswer(s) ==
    /\ ship[s].stage = "wait" /\ ship[s].answer # NoAnswer
    /\ LET status == ship[s].answer.status IN
       \/ status = 200 /\ Goto(s, "ack")
       \/ status = 409 /\ ship[s].recover /\ Ours(s) /\ Goto(s, "recover")
       \/ /\ status = 409 => ~ (ship[s].recover /\ Ours(s))
          /\ status # 200
          /\ End(s, IF status = 422 THEN "rejected" ELSE "diverged")
    /\ UNCHANGED <<logVars, shipped, key, vaultVars, late, keys, losses>>

(* 200: `shipped` names the batch's last frame.                            *)
WriteShipped(s) ==
    /\ pc[s] = "busy" /\ ship[s].stage = "ack"
    /\ shipped' = HeadAt(ship[s].run[BatchEnd(s)])
    /\ ship' = [ship EXCEPT
           ![s].stage = IF BatchEnd(s) = Len(ship[s].run) THEN "finish" ELSE "send",
           ![s].sent = BatchEnd(s), ![s].answer = NoAnswer]
    /\ ShipDrops(s)
    /\ UNCHANGED <<key, outcome, vaultVars, late, keys, losses>>

(* Slips: recovery takes everything pending for held, or forgets what was  *)
(* acknowledged.                                                           *)
RecoverAs(s, to) ==
    /\ pc[s] = "busy" /\ ship[s].stage = "recover"
    /\ shipped' = to
    /\ ship' = [ship EXCEPT ![s] = [Off EXCEPT !.stage = "pending"]]
    /\ ShipDrops(s)
    /\ UNCHANGED <<key, outcome, vaultVars, late, keys, losses>>
RecoverToEnd(s) == RecoverAs(s, HeadOf(ship[s].run))
RecoverFromStart(s) == RecoverAs(s, NoHead)

(* 409: `shipped` catches up to the vault, and the directory is read       *)
(* again; once per run.                                                    *)
Recover(s) ==
    /\ pc[s] = "busy" /\ ship[s].stage = "recover"
    /\ shipped' = ship[s].answer.head
    /\ ship' = [ship EXCEPT ![s] = [Off EXCEPT !.stage = "pending"]]
    /\ ShipDrops(s)
    /\ UNCHANGED <<key, outcome, vaultVars, late, keys, losses>>

-----------------------------------------------------------------------------
(* finish, without --prune-after.                                          *)

(* Slip: anything shipped counts as everything shipped.                    *)
CompleteOnceShipped == shipped # NoHead

Complete == shipped = head
EndsSession == frames # <<>> /\ frames[Len(frames)].kind = "session_end"

Finish(s) ==
    /\ pc[s] = "busy" /\ ship[s].stage = "finish"
    /\ \/ torn /\ End(s, "torn") /\ UNCHANGED key
       \/ /\ ~ torn /\ End(s, "Done")
          /\ key' = IF Complete /\ EndsSession THEN NoKey ELSE key
    /\ ShipDrops(s)
    /\ UNCHANGED <<shipped, vaultVars, late, keys, losses>>

(* The run is killed, or a local write fails: nothing on disk is half done *)
(* (every write is a rename) and the lock goes with the process.           *)
KillRun(s) ==
    /\ ship[s].stage # "off" /\ losses < MaxLosses
    /\ losses' = losses + 1
    /\ Abandon(s)
    /\ ship' = [ship EXCEPT ![s] = Off]
    /\ \/ ShipDrops(s)
       \/ pc[s] = "idle" /\ UNCHANGED logVars
    /\ UNCHANGED <<shipped, key, outcome, vaultVars, keys>>

-----------------------------------------------------------------------------
RunStep(s) ==
    \/ WantsLock(s) \/ OpensLock(s) \/ TakesLock(s) \/ ReadPending(s)
    \/ StopOnVerdict(s) \/ Send(s) \/ TakeAnswer(s) \/ WriteShipped(s)
    \/ Recover(s) \/ Finish(s)

ShipNext ==
    \/ LogStep /\ UNCHANGED shipVars
    \/ \E s \in Shippers :
           \/ StartRun(s) \/ RunStep(s) \/ KillRun(s)
           \/ VaultAnswers(s) \/ Unreachable(s)
    \/ \E q \in late : LateArrival(q)

ShipSpec == Init /\ [][ShipNext]_vars

(* The machine's own processes make progress and the kernel serves lock    *)
(* waiters; the network and the vault owe nothing.                         *)
LocalFairness ==
    /\ \A r \in Recorders : /\ WF_vars(RecorderStep(r) /\ UNCHANGED shipVars)
                            /\ SF_vars(AppendLocks(r) /\ UNCHANGED shipVars)
    /\ \A v \in Verifiers : /\ WF_vars(VerifierStep(v) /\ UNCHANGED shipVars)
                            /\ SF_vars(VerifyLocks(v) /\ UNCHANGED shipVars)
    /\ \A s \in Shippers : WF_vars(RunStep(s)) /\ SF_vars(TakesLock(s))
ShipFairSpec == ShipSpec /\ LocalFairness

(* With `--every` a run follows a run, and a vault that is up answers.     *)
VaultServes == \A s \in Shippers : WF_vars(StartRun(s)) /\ WF_vars(VaultAnswers(s))

-----------------------------------------------------------------------------
(* Properties.                                                             *)

Closed == wraps # NoKey /\ key = NoKey

(* The vault's copy is the log's own beginning, frame for frame, whatever  *)
(* was lost, retried, delivered late or pushed by two runs at once.        *)
VaultHoldsLog ==
    /\ Len(vault) <= Len(frames)
    /\ \A i \in 1 .. Len(vault) : vault[i] = frames[i]

(* `shipped` never claims a frame the vault does not hold: the next run    *)
(* cannot skip one.                                                        *)
ShippedIsHeld ==
    shipped = NoHead \/ \E i \in 1 .. Len(vault) : shipped = HeadAt(vault[i])

(* Every batch the vault stores opens with the one key wrapped to the      *)
(* admins when the chain was first seen: lost answers, deaths and restarts *)
(* never leave a batch nobody can decrypt.                                 *)
OneKeyPerChain == \A b \in batches : b.key = wraps

KeyDeletion == key # NoKey /\ key' = NoKey

(* chain.key is deleted only when the vault has every frame the session    *)
(* has (`finish`: "A chain the vault holds all of, ending in a             *)
(* `session_end`, is closed"), as long as no append died before `head`.    *)
ClosesWholeChainUnlessDeath ==
    [][KeyDeletion /\ failures = 0 => vault = frames /\ EndsSession]_vars

(* A run stops a session (exit code 1, "both want a human") only for a     *)
(* divergence or a log that does not verify.  One ship run after another   *)
(* causes neither, whatever the network does, as long as no append died    *)
(* before `head`; a chain continued after its session_end is the           *)
(* documented exception.                                                   *)
Stops == {"gone", "sidecars", "diverged", "rejected", "SeqGap", "PrevMismatch", "Unsealed"}
NoFalseStop == \A s \in Shippers : outcome[s] \notin Stops
NoFalseStopUnlessDeath == failures = 0 => NoFalseStop

(* `shipped` only moves forward.                                           *)
ShippedAdvances == [][shipped'.seq >= shipped.seq]_vars

(* An append the caller saw succeed reaches the vault in the end, if runs  *)
(* follow runs and the vault answers, unless the chain was closed by a     *)
(* session_end before it or an append died before `head`.                  *)
AckedReachVault ==
    VaultServes =>
        \A e \in 1 .. MaxEvents :
            e \in acked ~> \/ \E i \in 1 .. Len(vault) : vault[i].hash = e
                           \/ Closed \/ failures # 0

(* No vault, however slow or silent, costs a hook: an append (or a verify) *)
(* returns although a run waits for an answer that never comes.            *)
HooksNeverWaitForVault == CallsReturn

(* What a run and the vault promise, without requests, answers and locks:  *)
(* a copy that only grows, frame for frame what the log was, under the key *)
(* the admins were given with its first frame, and a `shipped` that names  *)
(* a frame of it.                                                          *)
Promised == INSTANCE Replica
              WITH log <- frames, copy <- vault, mark <- shipped, wrap <- wraps
ImplementsReplica == Promised!Spec

(* Shipping is invisible to the log.                                       *)
Log == INSTANCE SessionLog
ImplementsSessionLog == Log!Spec
=============================================================================
