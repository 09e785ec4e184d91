----------------------------- MODULE SessionLog -----------------------------
(***************************************************************************)
(* One session's append-only log (src/src/session_log.rs).                 *)
(*                                                                         *)
(* Every hook of the agent runs an `nd7 record` process of its own, so any *)
(* number of them append to the same directory at once; `nd7 verify` reads *)
(* it meanwhile.  They meet only in the files: `lock`, `events.ndjson`,    *)
(* `head.tmp` and `head`.  Each step below is one system call (or one read *)
(* under the lock) of SessionLog::append or SessionLog::verify, so another *)
(* process may run, or this one may die, between any two.                  *)
(***************************************************************************)
EXTENDS Chain, FiniteSets

CONSTANTS
    Recorders,    \* `nd7 record` processes
    Verifiers,    \* `nd7 verify` processes
    Shippers,     \* `nd7 ship` processes; here only as users of the lock
    Kinds,        \* event kinds the hooks may report
    MaxEvents,    \* bound: append calls in a behaviour
    MaxFailures   \* bound: processes killed, or I/O errors, during append

ASSUME ProcessesAssumption ==
    /\ Recorders \cap Verifiers = {}
    /\ (Recorders \cup Verifiers) \cap Shippers = {}
    /\ "none" \notin Kinds
ASSUME BoundsAssumption == MaxEvents \in Nat /\ MaxFailures \in Nat

Processes == Recorders \cup Verifiers \cup Shippers

NoFile == 0
NoEvent == [id |-> 0, kind |-> "none"]

VARIABLES
    (* The session directory. *)
    dir,       \* the directory exists
    lockFile,  \* the inode the name `lock` has, NoFile when there is none
    frames,    \* the complete lines of events.ndjson
    torn,      \* events.ndjson ends in a line with no newline
    tmp,       \* head.tmp
    head,      \* head
    (* The kernel. *)
    inodes,    \* lock files created so far
    held,      \* advisory locks: which process holds which inode, and how
    (* The processes. *)
    pc,        \* the system call each is about to make
    fd,        \* the inode each has open as its lock
    event,     \* recorder: the event in hand
    link,      \* recorder: the head it read, then the frame it links to
    walk,      \* verifier: the frame its walk ended at
    report,    \* verifier: its last verdict
    (* History. *)
    events,    \* append calls so far
    acked,     \* events whose append returned Ok
    failures   \* deaths and I/O errors so far

diskVars == <<dir, lockFile, frames, torn, tmp, head>>
kernelVars == <<inodes, held>>
recorderVars == <<event, link, events, acked, failures>>
verifierVars == <<walk, report>>
logVars == <<diskVars, kernelVars, pc, fd, recorderVars, verifierVars>>

-----------------------------------------------------------------------------
InitLog ==
    /\ dir = FALSE /\ lockFile = NoFile
    /\ frames = <<>> /\ torn = FALSE
    /\ tmp = NoHead /\ head = NoHead
    /\ inodes = 0 /\ held = {}
    /\ pc = [p \in Processes |-> "idle"]
    /\ fd = [p \in Processes |-> NoFile]
    /\ event = [r \in Recorders |-> NoEvent]
    /\ link = [r \in Recorders |-> NoHead]
    /\ walk = [v \in Verifiers |-> NoHead]
    /\ report = [v \in Verifiers |-> "none"]
    /\ events = 0 /\ acked = {} /\ failures = 0

(* The locks p holds are the kernel's to release, when p drops its handle  *)
(* or dies.                                                                *)
Release(p) == held' = {h \in held : h.by # p}

(* open_lock: create(true) makes the file when the name is free.           *)
OpenLock(p, next) ==
    /\ pc[p] = "open" /\ dir
    /\ pc' = [pc EXCEPT ![p] = next]
    /\ lockFile' = IF lockFile = NoFile THEN inodes + 1 ELSE lockFile
    /\ inodes' = IF lockFile = NoFile THEN inodes + 1 ELSE inodes
    /\ fd' = [fd EXCEPT ![p] = lockFile']
    /\ UNCHANGED <<dir, frames, torn, tmp, head, held, recorderVars, verifierVars>>

(* flock blocks on the inode, whatever name it has by now.                 *)
CanLock(p, mode) ==
    \A h \in held : h.on = fd[p] => mode = "shared" /\ h.mode = "shared"
Flock(p, mode) ==
    /\ CanLock(p, mode)
    /\ held' = held \cup {[by |-> p, on |-> fd[p], mode |-> mode]}

-----------------------------------------------------------------------------
(* SessionLog::append, called from `nd7 record`.                           *)

(* create_dir_all; the event carries a fresh id and timestamp, so no two   *)
(* calls ever seal the same frame.                                         *)
StartAppend(r) ==
    /\ pc[r] = "idle" /\ events < MaxEvents
    /\ \E k \in Kinds : event' = [event EXCEPT ![r] = [id |-> events + 1, kind |-> k]]
    /\ events' = events + 1
    /\ dir' = TRUE
    /\ pc' = [pc EXCEPT ![r] = "open"]
    /\ UNCHANGED <<lockFile, frames, torn, tmp, head, kernelVars, fd,
                   link, acked, failures, verifierVars>>

AppendOpens(r) == OpenLock(r, "flock")

(* Slip: append takes the lock the way readers do.                         *)
AppendLocksShared(r) ==
    /\ pc[r] = "flock" /\ Flock(r, "shared")
    /\ pc' = [pc EXCEPT ![r] = "head"]
    /\ UNCHANGED <<diskVars, inodes, fd, recorderVars, verifierVars>>

AppendLocks(r) ==
    /\ pc[r] = "flock" /\ Flock(r, "exclusive")
    /\ pc' = [pc EXCEPT ![r] = "head"]
    /\ UNCHANGED <<diskVars, inodes, fd, recorderVars, verifierVars>>

ReadHead(r) ==
    /\ pc[r] = "head"
    /\ link' = [link EXCEPT ![r] = head]
    /\ pc' = [pc EXCEPT ![r] = "tail"]
    /\ UNCHANGED <<diskVars, kernelVars, fd, event, events, acked, failures, verifierVars>>

(* An append that ends: the process drops its lock and exits.              *)
EndAppend(r) ==
    /\ Release(r)
    /\ pc' = [pc EXCEPT ![r] = "idle"]
    /\ fd' = [fd EXCEPT ![r] = NoFile]
    /\ event' = [event EXCEPT ![r] = NoEvent]
    /\ link' = [link EXCEPT ![r] = NoHead]

(* Slip: the frame links to what `head` says, not to the log's last frame. *)
TakeLinkFromHead(r) ==
    /\ pc[r] = "tail" /\ ~torn /\ NextLink(link[r], frames) = "ok"
    /\ pc' = [pc EXCEPT ![r] = "write"]
    /\ UNCHANGED <<diskVars, kernelVars, fd, recorderVars, verifierVars>>

(* Slip: head first, the frame after it.                                   *)
TakeLinkHeadFirst(r) ==
    /\ pc[r] = "tail" /\ ~torn /\ NextLink(link[r], frames) = "ok"
    /\ link' = [link EXCEPT ![r] = HeadOf(frames)]
    /\ head' = HeadAt(Seal(event[r], HeadOf(frames)))
    /\ pc' = [pc EXCEPT ![r] = "write"]
    /\ UNCHANGED <<dir, lockFile, frames, torn, tmp, kernelVars, fd, event, events,
                   acked, failures, verifierVars>>

(* last_frame and next_link agree on where the next frame goes.            *)
TakeLink(r) ==
    /\ pc[r] = "tail" /\ ~torn /\ NextLink(link[r], frames) = "ok"
    /\ link' = [link EXCEPT ![r] = HeadOf(frames)]
    /\ pc' = [pc EXCEPT ![r] = "write"]
    /\ UNCHANGED <<diskVars, kernelVars, fd, event, events, acked, failures, verifierVars>>

(* They do not: append returns the ChainError having written nothing.      *)
Refuse(r) ==
    /\ pc[r] = "tail" /\ (torn \/ NextLink(link[r], frames) # "ok")
    /\ EndAppend(r)
    /\ UNCHANGED <<diskVars, inodes, events, acked, failures, verifierVars>>

WriteFrame(r) ==
    /\ pc[r] = "write" /\ dir
    /\ frames' = Append(frames, Seal(event[r], link[r]))
    /\ pc' = [pc EXCEPT ![r] = "tmp"]
    /\ UNCHANGED <<dir, lockFile, torn, tmp, head, kernelVars, fd, recorderVars, verifierVars>>

WriteTmp(r) ==
    /\ pc[r] = "tmp" /\ dir
    /\ tmp' = HeadAt(Seal(event[r], link[r]))
    /\ pc' = [pc EXCEPT ![r] = "rename"]
    /\ UNCHANGED <<dir, lockFile, frames, torn, head, kernelVars, fd, recorderVars, verifierVars>>

(* Slip: append returns Ok with head.tmp written and not renamed.          *)
RenameForgotten(r) ==
    /\ pc[r] = "rename" /\ tmp # NoHead
    /\ acked' = acked \cup {event[r].id}
    /\ EndAppend(r)
    /\ UNCHANGED <<diskVars, inodes, events, failures, verifierVars>>

RenameHead(r) ==
    /\ pc[r] = "rename" /\ tmp # NoHead
    /\ head' = tmp /\ tmp' = NoHead
    /\ acked' = acked \cup {event[r].id}
    /\ EndAppend(r)
    /\ UNCHANGED <<dir, lockFile, frames, torn, inodes, events, failures, verifierVars>>

(* The process is killed, or a system call of append returns an error: in  *)
(* both cases the files stay as they are and the lock goes with the        *)
(* process.  write_all may have written part of its line by then.          *)
FailAppend(r) ==
    /\ pc[r] # "idle" /\ failures < MaxFailures
    /\ failures' = failures + 1
    /\ \/ torn' = torn
       \/ pc[r] = "write" /\ dir /\ torn' = TRUE
    /\ EndAppend(r)
    /\ UNCHANGED <<dir, lockFile, frames, tmp, head, inodes, events, acked, verifierVars>>

RecorderStep(r) ==
    \/ AppendOpens(r) \/ AppendLocks(r) \/ ReadHead(r) \/ TakeLink(r)
    \/ Refuse(r) \/ WriteFrame(r) \/ WriteTmp(r) \/ RenameHead(r)

-----------------------------------------------------------------------------
(* SessionLog::verify.                                                     *)

StartVerify(v) ==
    /\ pc[v] = "idle" /\ dir
    /\ pc' = [pc EXCEPT ![v] = "open"]
    /\ UNCHANGED <<diskVars, kernelVars, fd, recorderVars, verifierVars>>

VerifyOpens(v) == OpenLock(v, "flock")

(* Slip: verify reads without the lock.                                    *)
VerifyUnlocked(v) ==
    /\ pc[v] = "flock"
    /\ pc' = [pc EXCEPT ![v] = "events"]
    /\ UNCHANGED <<diskVars, kernelVars, fd, recorderVars, verifierVars>>

VerifyLocks(v) ==
    /\ pc[v] = "flock" /\ Flock(v, "shared")
    /\ pc' = [pc EXCEPT ![v] = "events"]
    /\ UNCHANGED <<diskVars, inodes, fd, recorderVars, verifierVars>>

EndVerify(v, verdict) ==
    /\ Release(v)
    /\ pc' = [pc EXCEPT ![v] = "idle"]
    /\ fd' = [fd EXCEPT ![v] = NoFile]
    /\ walk' = [walk EXCEPT ![v] = NoHead]
    /\ report' = [report EXCEPT ![v] = verdict]

(* An empty log is not walked, its head is looked at straight away.        *)
WalkVerdict ==
    IF frames = <<>> /\ ~torn THEN "ok" ELSE VerifySegment(NoHead, frames, torn)

WalkFrames(v) ==
    /\ pc[v] = "events"
    /\ \/ /\ WalkVerdict = "ok"
          /\ walk' = [walk EXCEPT ![v] = HeadOf(frames)]
          /\ pc' = [pc EXCEPT ![v] = "head"]
          /\ UNCHANGED <<fd, held, report>>
       \/ /\ WalkVerdict # "ok"
          /\ EndVerify(v, WalkVerdict)
    /\ UNCHANGED <<diskVars, inodes, recorderVars>>

(* What verify says of a walk that ended at `last`.                        *)
HeadVerdict(last) ==
    CASE head = last -> "ok"
      [] head # last /\ head = NoHead -> "HeadMissing"
      [] OTHER -> HeadAgrees(head, last)

CompareHead(v) ==
    /\ pc[v] = "head"
    /\ EndVerify(v, HeadVerdict(walk[v]))
    /\ UNCHANGED <<diskVars, inodes, recorderVars>>

VerifierStep(v) == VerifyOpens(v) \/ VerifyLocks(v) \/ WalkFrames(v) \/ CompareHead(v)

-----------------------------------------------------------------------------
(* `nd7 ship` takes the exclusive lock too, for local work that touches    *)
(* neither `events.ndjson` nor `head`; what it does is in module Ship.     *)

ShipWants(s) ==
    /\ pc[s] = "idle" /\ dir
    /\ pc' = [pc EXCEPT ![s] = "open"]
    /\ UNCHANGED <<diskVars, kernelVars, fd, recorderVars, verifierVars>>

ShipOpens(s) == OpenLock(s, "flock")

ShipLocks(s) ==
    /\ pc[s] = "flock" /\ Flock(s, "exclusive")
    /\ pc' = [pc EXCEPT ![s] = "busy"]
    /\ UNCHANGED <<diskVars, inodes, fd, recorderVars, verifierVars>>

(* The handle is closed: the lock is dropped, or was never taken.          *)
ShipDrops(s) ==
    /\ pc[s] # "idle"
    /\ Release(s)
    /\ pc' = [pc EXCEPT ![s] = "idle"]
    /\ fd' = [fd EXCEPT ![s] = NoFile]
    /\ UNCHANGED <<diskVars, inodes, recorderVars, verifierVars>>

ShipperStep(s) == ShipOpens(s) \/ ShipLocks(s) \/ ShipDrops(s)

-----------------------------------------------------------------------------
LogStep ==
    \/ \E r \in Recorders : StartAppend(r) \/ RecorderStep(r) \/ FailAppend(r)
    \/ \E v \in Verifiers : StartVerify(v) \/ VerifierStep(v)

Next ==
    \/ LogStep
    \/ \E s \in Shippers : ShipWants(s) \/ ShipperStep(s)

Spec == InitLog /\ [][Next]_logVars

-----------------------------------------------------------------------------
(* Properties.                                                             *)

Critical == {"head", "tail", "write", "tmp", "rename"}
Appending == \E r \in Recorders : pc[r] \in Critical

Verdicts ==
    {"ok", "TornTail", "Unsealed", "SeqGap", "PrevMismatch",
     "HeadMissing", "HeadStale", "Truncated", "HeadMismatch"}

(* Every variable stays in its range: in particular a hash is an event's   *)
(* number and never the genesis value.                                     *)
TypeOK ==
    /\ dir \in BOOLEAN /\ lockFile \in Nat
    /\ frames \in Seq(FrameOver(Kinds)) /\ torn \in BOOLEAN
    /\ tmp \in Heads /\ head \in Heads
    /\ inodes \in Nat
    /\ held \subseteq [by : Processes, on : Nat,
                       mode : {"exclusive", "shared"}]
    /\ pc \in [Processes ->
               {"idle", "open", "flock", "events", "busy"} \cup Critical]
    /\ fd \in [Processes -> Nat]
    /\ event \in [Recorders -> [id : Nat, kind : Kinds \cup {"none"}]]
    /\ link \in [Recorders -> Heads]
    /\ walk \in [Verifiers -> Heads]
    /\ report \in [Verifiers -> Verdicts \cup {"none"}]
    /\ events \in Nat /\ acked \subseteq Nat /\ failures \in Nat

(* Sequence numbers are dense and every frame links to the one before it,  *)
(* however many hooks fire at once and wherever they die: the advisory     *)
(* lock of `append` (and what next_link refuses) is what README calls      *)
(* "cannot produce duplicate sequence numbers".                            *)
DenseChain == Linked(NoHead, frames)

(* Outside an append `head` names a frame the log has, and trails the      *)
(* log's end by no more frames than processes died: `head` is a cache the  *)
(* log can always be checked against, never ahead of it.                   *)
HeadTrailsLog ==
    ~ Appending =>
        /\ head = NoHead \/ \E i \in 1 .. Len(frames) : head = HeadAt(frames[i])
        /\ Len(frames) - (head.seq + 1) <= failures

(* An append that returned Ok is in the log exactly once, and `head` is at *)
(* or past it: cutting the log back behind an acknowledged event is always *)
(* something `verify` sees as truncation.                                  *)
AckedIsCovered ==
    \A e \in acked : \E i \in 1 .. Len(frames) :
        /\ frames[i].hash = e
        /\ \A j \in 1 .. Len(frames) : frames[j].hash = e => j = i
        /\ ~ Appending => frames[i].seq <= head.seq

(* The module doc's promise for the next append: an append that died       *)
(* between its frame and `head` is repaired by a later one, so unless a    *)
(* write was cut short the log still takes appends.                        *)
CanAppend == ~ torn /\ ~ Appending => NextLink(head, frames) = "ok"

(* The promise for one death.                                              *)
OneDeathHeals == failures <= 1 => CanAppend

(* `verify` never calls what concurrent appends did damage: while nothing  *)
(* has died it reports a clean log, and after deaths it reports only what  *)
(* a death leaves behind, never a rewritten or shortened log.              *)
NoFalseAlarm ==
    \A v \in Verifiers :
        /\ report[v] \in {"none", "ok", "TornTail", "HeadMissing", "HeadStale"}
        /\ failures = 0 => report[v] \in {"none", "ok"}

(* Every append and every verify that starts also returns (or dies): no    *)
(* death, refusal or torn log leaves the lock taken.                       *)
CallsReturn ==
    \A p \in Recorders \cup Verifiers : pc[p] # "idle" ~> pc[p] = "idle"

(* What callers of `append` rely on, without locks, files or processes.    *)
Promise == INSTANCE AbstractLog WITH chain <- frames, done <- acked
ImplementsAbstractLog == Promise!Spec
=============================================================================
