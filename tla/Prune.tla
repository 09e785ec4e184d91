------------------------------- MODULE Prune -------------------------------
(***************************************************************************)
(* `nd7 ship --prune-after`: the run of module Ship that also removes a    *)
(* session's directory once the vault has it.                              *)
(*                                                                         *)
(* The lock the run holds meanwhile is a file of that directory.  Unlinked *)
(* names can be created again at once, by a hook that starts then; a hook  *)
(* that was already waiting still waits on the inode.  fs::remove_dir_all  *)
(* unlinks the entries in directory order, which is arbitrary, and removes *)
(* the directory last.                                                     *)
(***************************************************************************)
EXTENDS Ship

(* One ship run at a time, and nobody verifying.                           *)
ASSUME PruneAssumption == (\E s \in Shippers : Shippers = {s}) /\ Verifiers = {}

VARIABLES
    left,    \* names remove_dir_all listed and has not unlinked
    exposed  \* history: events in a hook's hands during a prune or its aftermath

pruneVars == <<left, exposed>>
allVars == <<vars, pruneVars>>

PruneInit == Init /\ left = {} /\ exposed = {}

(* The names in the session directory.                                     *)
Names ==
    {n \in {"lock", "events", "head.tmp", "head", "shipped", "key"} :
        \/ n = "lock" /\ lockFile # NoFile
        \/ n = "events" /\ (frames # <<>> \/ torn)
        \/ n = "head.tmp" /\ tmp # NoHead
        \/ n = "head" /\ head # NoHead
        \/ n = "shipped" /\ shipped # NoHead
        \/ n = "key" /\ key # NoKey}

(* Slip: the age of the last frame alone decides.                          *)
BeginPruneByAge(s) ==
    /\ pc[s] = "busy" /\ ship[s].stage = "finish"
    /\ ~ torn /\ frames # <<>>
    /\ key' = IF EndsSession THEN NoKey ELSE key
    /\ ship' = [ship EXCEPT ![s].stage = "prune"]
    /\ left' = Names \ (IF EndsSession THEN {"key"} ELSE {})
    /\ UNCHANGED <<logVars, shipped, outcome, vaultVars, late, keys, losses>>

(* The last frame is older than the threshold: whether it is, is up to the *)
(* clock and the option, `--prune-after 0s` included.                      *)
BeginPrune(s) ==
    /\ pc[s] = "busy" /\ ship[s].stage = "finish"
    /\ ~ torn /\ Complete /\ frames # <<>>
    /\ key' = IF EndsSession THEN NoKey ELSE key
    /\ ship' = [ship EXCEPT ![s].stage = "prune"]
    /\ left' = Names \ (IF EndsSession THEN {"key"} ELSE {})
    /\ UNCHANGED <<logVars, shipped, outcome, vaultVars, late, keys, losses>>

(* unlinkat, by name: also of a file made since the directory was listed.  *)
Unlink(s, n) ==
    /\ pc[s] = "busy" /\ ship[s].stage = "prune" /\ n \in Names
    /\ left' = left \ {n}
    /\ lockFile' = IF n = "lock" THEN NoFile ELSE lockFile
    /\ frames' = IF n = "events" THEN <<>> ELSE frames
    /\ torn' = (torn /\ n # "events")
    /\ tmp' = IF n = "head.tmp" THEN NoHead ELSE tmp
    /\ head' = IF n = "head" THEN NoHead ELSE head
    /\ shipped' = IF n = "shipped" THEN NoHead ELSE shipped
    /\ key' = IF n = "key" THEN NoKey ELSE key
    /\ UNCHANGED <<dir, kernelVars, pc, fd, recorderVars, verifierVars,
                   ship, outcome, vaultVars, late, keys, losses>>

(* rmdir, which fails on a directory a hook has put files in again.        *)
RemoveDir(s) ==
    /\ pc[s] = "busy" /\ ship[s].stage = "prune" /\ left \cap Names = {}
    /\ dir' = (Names # {})
    /\ End(s, IF Names = {} THEN "Done" ELSE "io")
    /\ left' = {}
    /\ Release(s)
    /\ pc' = [pc EXCEPT ![s] = "idle"] /\ fd' = [fd EXCEPT ![s] = NoFile]
    /\ UNCHANGED <<lockFile, frames, torn, tmp, head, inodes, recorderVars, verifierVars,
                   shipped, key, vaultVars, late, keys, losses>>

(* A hook whose directory, or whose head.tmp, went away meanwhile gets     *)
(* ENOENT: its event is lost and the hook exits 0 all the same.            *)
AppendLosesFiles(r) ==
    /\ \/ pc[r] \in {"open", "write", "tmp"} /\ ~ dir
       \/ pc[r] = "rename" /\ tmp = NoHead
    /\ EndAppend(r)
    /\ UNCHANGED <<diskVars, inodes, events, acked, failures, verifierVars, shipVars>>

Pruning == \E s \in Shippers : ship[s].stage = "prune"

PruneStep ==
    \/ ShipNext /\ left' = IF Pruning' THEN left ELSE {}
    \/ \E s \in Shippers : BeginPrune(s) \/ RemoveDir(s)
    \/ \E s \in Shippers, n \in Names : Unlink(s, n)
    \/ (\E r \in Recorders : AppendLosesFiles(r)) /\ UNCHANGED left

InHand == {event[r].id : r \in Recorders} \ {NoEvent.id}

(* A hook that was at work during a prune may hold the lock of the old     *)
(* inode, so whoever works beside it is exposed too, until it ends.        *)
Aftermath == Pruning' \/ InHand' \cap exposed # {}

PruneNext ==
    /\ PruneStep
    /\ exposed' = IF Aftermath THEN exposed \cup InHand' ELSE exposed

PruneSpec == PruneInit /\ [][PruneNext]_allVars

-----------------------------------------------------------------------------
(* Properties.                                                             *)

InLog(e) == \E i \in 1 .. Len(frames) : frames[i].hash = e
InVault(e) == \E i \in 1 .. Len(vault) : vault[i].hash = e

(* finish's comment: "only a session the vault has every frame of".        *)
Starts == ~ Pruning /\ Pruning'
PrunesOnlyHeld ==
    [][Starts => \A i \in 1 .. Len(frames) : InVault(frames[i].hash)]_allVars

(* It is so while no append has died, but for frames whose hook was at     *)
(* work during an earlier prune of the directory, or beside such a hook.   *)
PrunesOnlyHeldUnlessDeath ==
    [][Starts /\ failures = 0 =>
        \A i \in 1 .. Len(frames) :
            InVault(frames[i].hash) \/ frames[i].hash \in exposed]_allVars

(* An event whose append returned Ok is in the log or in the vault, but    *)
(* for appends under way during a prune, or beside one of those.           *)
LossNeedsOverlap == \A e \in acked \ exposed : InLog(e) \/ InVault(e)
=============================================================================
