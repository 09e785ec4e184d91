----------------------------- MODULE PruneProofs -----------------------------
(***************************************************************************)
(* What Prune keeps, for any number of hooks, any kinds, batch limit and   *)
(* bounds: an event whose append returned Ok is lost by `--prune-after`    *)
(* only if its hook was at work during a prune, or beside such a hook; and *)
(* a prune that starts finds in the vault all that the log holds of the    *)
(* others, as long as no append died.                                      *)
(*                                                                         *)
(* A prune breaks what SessionLogProofs and ShipProofs stand on: there is  *)
(* more than one inode called `lock`, and the log may be the rest of one.  *)
(* So nothing here follows from a dense chain.  Between prunes, once the   *)
(* last hook that was beside one has ended, the lock is one lock again     *)
(* (Clean).  And each acknowledged event that the vault lacks carries a    *)
(* trail: the hashes of frames that rest on it, to which `head` and the    *)
(* log's last frame belong.  The vault takes no frame of a trail before    *)
(* the event itself, so `shipped` is not `head` while there is one.        *)
(***************************************************************************)
EXTENDS Prune, ShipProofs, FiniteSetTheorems

-----------------------------------------------------------------------------
(* The invariant.                                                          *)

(* No prune is under way, and no hook at work was beside one.              *)
Clean == ~ Pruning /\ InHand \cap exposed = {}

(* The frames a later step may still put into the vault, and those it has. *)
Among(x, f) == \E i \in 1 .. Len(x) : x[i] = f
InPlay(f) ==
    \/ Among(frames, f) \/ Among(vault, f)
    \/ \E s \in Shippers : Among(ship[s].run, f)
    \/ \E q \in late : Among(q.index, f)

(* Hooks have events of their own, numbered as they came; no frame in play *)
(* carries the event of a hook that has not written yet.                   *)
IdInv ==
    /\ \A f : InPlay(f) => f.hash \in 1 .. events
    /\ \A r \in Recorders :
           IF pc[r] = "idle" THEN event[r] = NoEvent ELSE event[r].id \in 1 .. events
    /\ \A r, q \in Recorders :
           pc[r] # "idle" /\ event[r].id = event[q].id => r = q
    /\ \A r \in Recorders : pc[r] \notin {"idle"} \cup Written =>
           \A f : InPlay(f) => f.hash # event[r].id

(* Who is past flock has the lock of the inode it opened, and has it       *)
(* alone.  While no prune is under way the run's inode is the one the name *)
(* has.                                                                    *)
HeldInv ==
    /\ \A p \in Processes :
           Holds(p) => [by |-> p, on |-> fd[p], mode |-> "exclusive"] \in held
    /\ \A p, q \in Processes : Holds(p) /\ Holds(q) /\ fd[p] = fd[q] => p = q
    /\ \A s \in Shippers :
           pc[s] \notin Waits /\ ~ Pruning => lockFile # NoFile /\ fd[s] = lockFile

(* Hooks beside a prune are all exposed; with none of them the lock is one *)
(* lock, the files are there and a hook knows what it links to.            *)
ExposedInv == exposed \subseteq 1 .. events /\ (~ Clean => InHand \subseteq exposed)
CleanInv ==
    Clean => /\ \A r \in Recorders :
                    /\ pc[r] \notin Waits => lockFile # NoFile /\ fd[r] = lockFile
                    /\ pc[r] # "idle" => dir
             /\ LinkInv

(* What a run knows of the vault.                                          *)
PushInv(s) ==
    /\ ship[s].stage \in Pushing =>
           \/ ship[s].sent < Len(ship[s].run)
           \/ ship[s].stage = "send" /\ ship[s].cut
    /\ ship[s].answer = NoAnswer \/
           (ship[s].stage \in {"wait", "ack", "recover"} /\ ship[s].answer.status # 0)
    /\ Vaulted(ship[s].answer.head)
    /\ ship[s].stage = "ack" \/ (ship[s].stage = "wait" /\ ship[s].answer.status = 200) =>
           Vaulted(HeadAt(ship[s].run[BatchEnd(s)]))
    /\ ship[s].stage = "prune" => pc[s] = "busy"
RunsInv ==
    /\ ShipTypeInv /\ Vaulted(shipped)
    /\ \A b \in batches : Vaulted(HeadOf(b.index))
    /\ \A s \in Shippers : PushInv(s)

(* A trail of event e: no frame of it is in the vault, and every frame of  *)
(* it but e's own links to one of it.                                      *)
Trail(e, T) ==
    /\ e \in T /\ Genesis \notin T
    /\ head.hash \in T /\ HeadOf(frames).hash \in T
    /\ \A i \in 1 .. Len(vault) : vault[i].hash \notin T
    /\ \A f : InPlay(f) /\ f.hash \in T /\ f.hash # e => f.prev \in T
Trailed(e) == \E T : Trail(e, T)

(* What is acknowledged and not exposed is in the vault, or leads there.   *)
KeptInv == \A e \in acked \ exposed : InVault(e) \/ (Clean /\ InLog(e) /\ Trailed(e))

(* While no append has died every frame of the log is acknowledged, of an  *)
(* exposed hook, or about to be acknowledged.                              *)
AccountInv ==
    failures = 0 =>
        \A i \in 1 .. Len(frames) :
            \/ frames[i].hash \in acked \cup exposed
            \/ \E r \in Recorders : pc[r] \in Written /\ event[r].id = frames[i].hash

PruneInv ==
    /\ TypeInv /\ IdInv /\ HeldInv /\ ExposedInv /\ CleanInv /\ RunsInv /\ KeptInv
    /\ AccountInv

-----------------------------------------------------------------------------
(* Types.                                                                  *)

LEMMA OneShipper ==
    /\ \A s, t \in Shippers : s = t
    /\ Processes = Recorders \cup Shippers
    /\ \A p \in Processes : Mode(p) = "exclusive"
  BY PruneAssumption DEF Processes, Mode

(* What a run or a prune may do, beside what SessionLog and Ship know.     *)
LEMMA PruneSteps ==
    ASSUME PruneStep
    PROVE  \/ ShipNext
           \/ \E s \in Shippers : BeginPrune(s) \/ RemoveDir(s)
           \/ \E s \in Shippers, n \in Names : Unlink(s, n)
           \/ \E r \in Recorders : AppendLosesFiles(r)
  BY DEF PruneStep

LEMMA LogTyped ==
    ASSUME TypeInv, PruneStep
    PROVE  TypeInv'
<1>1. CASE ShipNext
  BY <1>1, ShipStepOfLog, TypeStep
<1>2. ASSUME NEW s \in Shippers, BeginPrune(s) PROVE TypeInv'
  BY <1>2, TypeStep DEF BeginPrune
<1>3. ASSUME NEW s \in Shippers, NEW n \in Names, Unlink(s, n) PROVE TypeInv'
  <2>1. /\ lockFile' \in Nat /\ frames' \in Seq(FrameOver(Kinds)) /\ torn' \in BOOLEAN
        /\ tmp' \in Heads /\ head' \in Heads
    BY <1>3 DEF Unlink, TypeInv, TypeOK, NoFile, Heads
  <2>2. UNCHANGED <<dir, kernelVars, pc, fd, recorderVars, verifierVars>>
    BY <1>3 DEF Unlink
  <2> QED
    BY <2>1, <2>2 DEF TypeInv, TypeOK, EventInHand, kernelVars, recorderVars, verifierVars
<1>4. ASSUME NEW s \in Shippers, RemoveDir(s) PROVE TypeInv'
  <2>1. s \in Processes
    BY DEF Processes
  <2>2. held' \subseteq [by : Processes, on : Nat, mode : {"exclusive", "shared"}]
    BY <1>4, <2>1, ReleaseType DEF RemoveDir, TypeInv
  <2>3. /\ pc' = [pc EXCEPT ![s] = "idle"] /\ fd' = [fd EXCEPT ![s] = NoFile]
        /\ dir' \in BOOLEAN
        /\ UNCHANGED <<lockFile, frames, torn, tmp, head, inodes, recorderVars, verifierVars>>
    BY <1>4 DEF RemoveDir
  <2>4. pc' \in [Processes -> {"idle", "open", "flock", "events", "busy"} \cup Critical]
    BY <2>3 DEF TypeInv, TypeOK
  <2>5. fd' \in [Processes -> Nat]
    BY <2>3 DEF TypeInv, TypeOK, NoFile
  <2>6. EventInHand'
    BY <2>3, ProcessesAssumption DEF TypeInv, TypeOK, EventInHand, recorderVars, Processes
  <2> QED
    BY <2>2, <2>3, <2>4, <2>5, <2>6 DEF TypeInv, TypeOK, recorderVars, verifierVars
<1>5. ASSUME NEW r \in Recorders, AppendLosesFiles(r) PROVE TypeInv'
  <2>1. EndAppend(r) /\ UNCHANGED <<diskVars, inodes, events, acked, failures, verifierVars>>
    BY <1>5 DEF AppendLosesFiles
  <2>2. /\ UNCHANGED <<dir, lockFile, frames, inodes, events, verifierVars>>
        /\ UNCHANGED <<tmp, head, torn, acked, failures>>
    BY <2>1 DEF diskVars
  <2>3. tmp' \in Heads /\ head' \in Heads /\ torn' \in BOOLEAN /\ acked' \subseteq Nat /\ failures' \in Nat
    BY <2>2 DEF TypeInv, TypeOK
  <2> QED
    BY <2>1, <2>2, <2>3, EndAppendType
<1> QED
  BY <1>1, <1>2, <1>3, <1>4, <1>5, PruneSteps

-----------------------------------------------------------------------------
(* The lock.                                                               *)

(* Only its own death takes a run out of a prune, but for RemoveDir.       *)
LEMMA PruneGoesOn ==
    ASSUME TypeInv, RunsInv, ShipNext, NEW s \in Shippers, ship[s].stage = "prune"
    PROVE  ship'[s].stage = "prune" \/ pc'[s] = "idle"
<1>1. pc[s] = "busy" /\ \A t \in Shippers : t = s
  BY OneShipper DEF RunsInv, PushInv
<1>2. CASE UNCHANGED ship
  BY <1>2
<1>3. CASE KillRun(s)
  BY <1>1, <1>3 DEF KillRun, ShipDrops, TypeInv, TypeOK, Processes
<1>4. CASE StartRun(s) \/ RunStep(s) \/ VaultAnswers(s) \/ Unreachable(s)
  BY <1>1, <1>2, <1>4 DEF StartRun, RunStep, VaultAnswers, Unreachable, WantsLock, OpensLock,
     TakesLock, ReadPending, StopOnVerdict, Send, TakeAnswer, WriteShipped, Recover, Finish,
     shipVars
<1> QED
  BY <1>1, <1>2, <1>3, <1>4 DEF ShipNext, LateArrival, shipVars

LEMMA HeldStep ==
    ASSUME TypeInv, HeldInv, RunsInv, PruneStep
    PROVE  HeldInv'
<1> USE DEF HeldInv, Waits, Holds
<1>ty. /\ pc \in [Processes -> {"idle", "open", "flock", "events", "busy"} \cup Critical]
       /\ fd \in [Processes -> Nat] /\ inodes \in Nat
  BY DEF TypeInv, TypeOK
<1> DEFINE Has == \A p \in Processes :
                      Holds(p) => [by |-> p, on |-> fd[p], mode |-> "exclusive"] \in held
           Apart == \A p, q \in Processes : Holds(p) /\ Holds(q) /\ fd[p] = fd[q] => p = q
           Current == \A s \in Shippers : pc[s] \notin Waits => lockFile # NoFile /\ fd[s] = lockFile
<1>1. ASSUME NEW p \in Processes, Begins(p) PROVE Has' /\ Apart' /\ (Current => Current')
  BY <1>ty, <1>1 DEF Begins, Processes
<1>2. ASSUME NEW p \in Processes, OpenLock(p, "flock")
      PROVE  Has' /\ Apart' /\ (Current => Current')
  BY <1>ty, <1>2 DEF OpenLock, NoFile, Processes
<1>3. ASSUME NEW p \in Processes, Granted(p) PROVE Has' /\ Apart' /\ (Current => Current')
  <2>1. Flock(p, "exclusive") /\ UNCHANGED <<lockFile, fd>> /\ pc[p] = "flock"
    BY <1>3, OneShipper DEF Granted
  <2>2. \E at \in {"head", "events", "busy"} : pc' = [pc EXCEPT ![p] = at]
    BY <1>3 DEF Granted
  <2>3. \A q \in Processes : Holds(q) => fd[q] # fd[p]
    BY <2>1 DEF Flock, CanLock
  <2>4. Has'
    BY <1>ty, <2>1, <2>2 DEF Flock
  <2>5. Apart'
    BY <1>ty, <2>1, <2>2, <2>3
  <2>6. Current => Current'
    BY <1>ty, <2>1, <2>2 DEF Processes
  <2> QED
    BY <2>4, <2>5, <2>6
<1>4. ASSUME NEW p \in Processes, Works(p) PROVE Has' /\ Apart' /\ (Current => Current')
  BY <1>ty, <1>4 DEF Works, Processes
<1>5. ASSUME NEW p \in Processes, Release(p), pc' = [pc EXCEPT ![p] = "idle"],
             fd' = [fd EXCEPT ![p] = NoFile]
      PROVE  Has' /\ Apart' /\ (Current /\ UNCHANGED lockFile => Current')
  BY <1>ty, <1>5 DEF Release, Processes
<1>6. ASSUME UNCHANGED <<held, pc, fd>>
      PROVE  Has' /\ Apart' /\ (Current /\ UNCHANGED lockFile => Current')
  BY <1>6
<1>7. CASE ShipNext
  <2>1. Has' /\ Apart' /\ (Current => Current')
    BY <1>1, <1>2, <1>3, <1>4, <1>5, <1>6, <1>7, ShipStepOfLog, StepUsesLock DEF UsesLock, Drops
  <2>2. CASE Pruning
    BY <1>7, <2>1, <2>2, OneShipper, PruneGoesOn DEF Pruning
  <2>3. CASE ~ Pruning
    BY <2>1, <2>3
  <2> QED
    BY <2>2, <2>3
<1>8. ASSUME NEW s \in Shippers, BeginPrune(s) PROVE HeldInv'
  <2>1. UNCHANGED <<lockFile, held, pc, fd>>
    BY <1>8 DEF BeginPrune, logVars, diskVars, kernelVars
  <2>2. Pruning'
    BY <1>8 DEF BeginPrune, Pruning, RunsInv, ShipTypeInv, Memory
  <2> QED
    BY <1>6, <2>1, <2>2
<1>9. ASSUME NEW s \in Shippers, NEW n \in Names, Unlink(s, n) PROVE HeldInv'
  <2>1. UNCHANGED <<held, pc, fd, ship>> /\ Pruning
    BY <1>9 DEF Unlink, kernelVars, Pruning
  <2> QED
    BY <1>6, <2>1 DEF Pruning
<1>10. ASSUME NEW s \in Shippers, RemoveDir(s) PROVE HeldInv'
  <2>1. /\ Release(s) /\ pc' = [pc EXCEPT ![s] = "idle"] /\ fd' = [fd EXCEPT ![s] = NoFile]
        /\ s \in Processes
    BY <1>10 DEF RemoveDir, Processes
  <2>2. \A t \in Shippers : pc'[t] = "idle"
    BY <1>ty, <2>1, OneShipper
  <2> QED
    BY <1>5, <2>1, <2>2
<1>11. ASSUME NEW r \in Recorders, AppendLosesFiles(r) PROVE HeldInv'
  <2>1. /\ Release(r) /\ pc' = [pc EXCEPT ![r] = "idle"] /\ fd' = [fd EXCEPT ![r] = NoFile]
        /\ r \in Processes /\ UNCHANGED <<lockFile, ship>>
    BY <1>11 DEF AppendLosesFiles, EndAppend, diskVars, shipVars, Processes
  <2> QED
    BY <1>5, <2>1 DEF Pruning
<1> QED
  BY <1>7, <1>8, <1>9, <1>10, <1>11, PruneSteps

-----------------------------------------------------------------------------
(* What a run reads, and what it sends.                                    *)

(* A set of positions that is not empty has a last one.  (Were there one   *)
(* after each, the successor would map the positions from any of them on   *)
(* into themselves, and so, there being finitely many, onto them all.)     *)
LEMMA LastOf ==
    ASSUME NEW n \in Nat, NEW S, S \subseteq 1 .. n, S # {}
    PROVE  \E i \in S : \A j \in S : j <= i
<1> SUFFICES ASSUME \A i \in S : \E j \in S : ~ (j <= i) PROVE FALSE
  OBVIOUS
<1> PICK k \in S : TRUE
  OBVIOUS
<1> DEFINE A == {i \in 1 .. n : k <= i /\ \E j \in S : i <= j}
           f == [i \in A |-> i + 1]
<1>1. k \in A /\ A \subseteq 1 .. n
  OBVIOUS
<1>2. ASSUME NEW i \in A PROVE i + 1 \in A
  <2>1. PICK j \in S : i <= j
    OBVIOUS
  <2>2. PICK m \in S : ~ (m <= j)
    OBVIOUS
  <2>3. i \in 1 .. n /\ j \in 1 .. n /\ m \in 1 .. n /\ k \in 1 .. n /\ k <= i
    OBVIOUS
  <2>4. i + 1 \in 1 .. n /\ k <= i + 1 /\ i + 1 <= m
    BY <2>1, <2>2, <2>3
  <2> QED
    BY <2>4
<1>3. IsFiniteSet(A)
  <2>1. IsFiniteSet(1 .. n)
    BY FS_Interval
  <2> QED
    BY <1>1, <2>1, FS_Subset
<1>4. f \in Injection(A, A)
  <2>1. f \in [A -> A] /\ \A i \in A : f[i] = i + 1 /\ i \in Int
    BY <1>1, <1>2
  <2> HIDE DEF f, A
  <2> QED
    BY <2>1 DEF Injection, IsInjective
<1>5. \A i \in A : f[i] = i + 1 /\ i \in Int /\ i >= k
  BY <1>1
<1> HIDE DEF f, A
<1>6. f \in Surjection(A, A)
  BY <1>3, <1>4, FS_Injection
<1>7. PICK i \in A : f[i] = k
  BY <1>1, <1>6 DEF Surjection
<1>8. i + 1 = k /\ i \in Int /\ i >= k
  BY <1>5, <1>7
<1> QED
  BY <1>8

(* read_pending returns frames of the log, and something to look at.       *)
LEMMA RegionOfLog ==
    ASSUME TypeInv, Refusal = "none"
    PROVE  /\ Region \in Seq(Frame) /\ (Region # <<>> \/ torn)
           /\ \A i \in 1 .. Len(Region) : Among(frames, Region[i])
<1>1. frames \in Seq(Frame) /\ Len(frames) \in Nat
  BY DEF TypeInv, TypeOK, Frame
<1>2. Region # <<>> \/ torn
  BY DEF Refusal
<1>3. CASE shipped = NoHead
  BY <1>1, <1>2, <1>3 DEF Region, Among
<1>4. CASE shipped # NoHead
  <2> DEFINE C == Carrying(shipped.seq)
             m == CHOOSE i \in C : \A j \in C : j <= i
  <2>1. C # {} /\ C \subseteq 1 .. Len(frames)
    BY <1>4 DEF Refusal, Carrying
  <2>2. m \in C
    BY <1>1, <2>1, LastOf
  <2>3. Region = SubSeq(frames, 1 + m, Len(frames))
    BY <1>4 DEF Region, AfterSeq
  <2>4. m \in 1 .. Len(frames)
    BY <2>1, <2>2
  <2> HIDE DEF m, C
  <2>5. /\ m \in Nat /\ m <= Len(frames) /\ 1 + m = m + 1
        /\ \A i \in 1 .. Len(frames) - m : m + i \in 1 .. Len(frames)
    BY <1>1, <2>4
  <2>6. /\ Region \in Seq(Frame) /\ Len(Region) = Len(frames) - m
        /\ \A i \in 1 .. Len(frames) - m : Region[i] = frames[m + i]
    BY <1>1, <2>3, <2>5, Stretch
  <2>7. \A i \in 1 .. Len(Region) : Among(frames, Region[i])
    BY <2>5, <2>6 DEF Among
  <2> QED
    BY <1>2, <2>6, <2>7
<1> QED
  BY <1>3, <1>4

LEMMA BatchOfRun ==
    ASSUME NEW s \in Shippers, ship[s] \in Memory, ship[s].sent < Len(ship[s].run)
    PROVE  /\ BatchEnd(s) \in ship[s].sent + 1 .. Len(ship[s].run)
           /\ Batch(s) \in Requests /\ Batch(s).index # <<>>
           /\ HeadOf(Batch(s).index) = HeadAt(ship[s].run[BatchEnd(s)])
           /\ \A f : Among(Batch(s).index, f) => Among(ship[s].run, f)
<1> DEFINE run == ship[s].run
           sent == ship[s].sent
           x == Batch(s).index
           n == BatchEnd(s)
<1>ty. /\ run \in Seq(Frame) /\ Len(run) \in Nat /\ sent \in Nat /\ ship[s].key \in Nat
       /\ BatchLimit \in Nat \ {0}
  BY ShipAssumption DEF Memory
<1>1. n \in sent + 1 .. Len(run)
  BY <1>ty DEF BatchEnd
<1>2. x = SubSeq(run, sent + 1, n)
  BY DEF Batch
<1>3. n \in Nat /\ sent <= n /\ n <= Len(run)
  BY <1>ty, <1>1
<1> HIDE DEF n, run, sent, x
<1>4. /\ x \in Seq(Frame) /\ Len(x) = n - sent
      /\ \A i \in 1 .. n - sent : x[i] = run[sent + i]
  BY <1>ty, <1>2, <1>3, Stretch
<1>5. x # <<>> /\ Len(x) \in 1 .. n - sent /\ sent + Len(x) = n
  BY <1>ty, <1>1, <1>3, <1>4
<1>6. HeadOf(x) = HeadAt(run[n])
  BY <1>4, <1>5 DEF HeadOf
<1>7. \A i \in 1 .. Len(x) : sent + i \in 1 .. Len(run)
  BY <1>ty, <1>1, <1>3, <1>4
<1>8. \A f : Among(x, f) => Among(run, f)
  BY <1>4, <1>7 DEF Among
<1>9. Batch(s) \in Requests
  BY <1>ty, <1>2, <1>4 DEF Batch, Requests, x, n, run, sent
<1> QED
  BY <1>1, <1>5, <1>6, <1>8, <1>9 DEF x, n, run, sent

(* What the vault answers 200 to, it holds; what it holds, it keeps; and   *)
(* it takes nothing but what it is sent, from the first frame on.          *)
LEMMA VaultGrows ==
    ASSUME RunsInv, NEW q \in Requests, VaultTakes(q)
    PROVE  /\ vault' \in Seq(Frame) /\ batches' \subseteq Requests /\ wraps' \in Nat
           /\ \A i \in 1 .. Len(vault) : i \in 1 .. Len(vault') /\ vault'[i] = vault[i]
           /\ \A h : Vaulted(h) => Vaulted(h)'
           /\ Vaulted(HeadOf(vault))'
           /\ \A b \in batches' : Vaulted(HeadOf(b.index))'
           /\ q.index # <<>> /\ Status(q) = 200 => Vaulted(HeadOf(q.index))'
           /\ Status(q) \in {200, 409, 422}
           /\ \A f : Among(vault, f)' => Among(vault, f) \/ Among(q.index, f)
           /\ ~ UNCHANGED vault =>
                  /\ \A i \in 1 .. Len(q.index) : Among(vault, q.index[i])'
                  /\ \A i \in 1 .. Len(q.index) : PrevFits(HeadOf(vault), q.index, i)
<1> DEFINE x == q.index
<1>ty. /\ x \in Seq(Frame) /\ Len(x) \in Nat /\ vault \in Seq(Frame) /\ Len(vault) \in Nat
       /\ batches \subseteq Requests /\ wraps \in Nat /\ q.key \in Nat
       /\ \A b \in batches : Vaulted(HeadOf(b.index))
  BY DEF Requests, RunsInv, ShipTypeInv
<1>status. Status(q) \in {200, 409, 422}
  BY DEF Status
<1>1. CASE ~ Accepts(q)
  <2>1. UNCHANGED <<vault, batches, wraps>>
    BY <1>1 DEF VaultTakes, vaultVars
  <2>2. Vaulted(HeadOf(vault))
    BY <1>ty DEF Vaulted, HeadOf
  <2>3. Status(q) = 200 => Vaulted(HeadOf(x))
    BY <1>1, <1>ty DEF Status, Stored
  <2>4. \A h : Vaulted(h) => Vaulted(h)'
    BY <2>1 DEF Vaulted
  <2>5. \A f : Among(vault, f)' => Among(vault, f)
    BY <2>1 DEF Among
  <2> QED
    BY <1>ty, <1>status, <2>1, <2>2, <2>3, <2>4, <2>5
<1>2. CASE Accepts(q)
  <2>1. /\ vault' = vault \o x /\ batches' = batches \cup {q}
        /\ wraps' = IF x[1].seq = 0 THEN q.key ELSE wraps
    BY <1>2 DEF VaultTakes
  <2>2. \A i \in 1 .. Len(x) : PrevFits(HeadOf(vault), x, i)
    BY <1>2 DEF Accepts, Linked
  <2>3. /\ vault' \in Seq(Frame) /\ Len(vault') = Len(vault) + Len(x)
        /\ \A i \in 1 .. Len(vault) : vault'[i] = vault[i]
        /\ \A i \in 1 .. Len(x) : vault'[Len(vault) + i] = x[i]
    BY <1>ty, <2>1, ConcatProperties
  <2>4. /\ \A i \in 1 .. Len(vault) : i \in 1 .. Len(vault')
        /\ \A i \in 1 .. Len(x) : Len(vault) + i \in 1 .. Len(vault')
        /\ \A i \in 1 .. Len(vault') :
               i \in 1 .. Len(vault) \/ \E j \in 1 .. Len(x) : i = Len(vault) + j
    <3>1. ASSUME NEW i \in 1 .. Len(vault'), i \notin 1 .. Len(vault)
          PROVE  i - Len(vault) \in 1 .. Len(x) /\ i = Len(vault) + (i - Len(vault))
      BY <1>ty, <2>3, <3>1
    <3>2. /\ \A i \in 1 .. Len(vault) : i \in 1 .. Len(vault')
          /\ \A i \in 1 .. Len(x) : Len(vault) + i \in 1 .. Len(vault')
      BY <1>ty, <2>3
    <3> QED
      BY <3>1, <3>2
  <2>5. \A h : Vaulted(h) => Vaulted(h)'
    BY <2>3, <2>4 DEF Vaulted
  <2>6. Vaulted(HeadOf(vault))'
    BY <2>3 DEF Vaulted, HeadOf
  <2>7. Vaulted(HeadOf(x))'
    <3>1. CASE x = <<>>
      BY <3>1 DEF Vaulted, HeadOf
    <3>2. CASE x # <<>>
      <4>1. Len(x) \in 1 .. Len(x)
        BY <1>ty, <3>2
      <4> QED
        BY <2>3, <2>4, <3>2, <4>1 DEF Vaulted, HeadOf
    <3> QED
      BY <3>1, <3>2
  <2>8. \A b \in batches' : Vaulted(HeadOf(b.index))'
    BY <1>ty, <2>1, <2>5, <2>7
  <2>9. ASSUME NEW f, Among(vault, f)' PROVE Among(vault, f) \/ Among(x, f)
    <3>1. PICK i \in 1 .. Len(vault') : vault'[i] = f
      BY <2>9 DEF Among
    <3>2. CASE i \in 1 .. Len(vault)
      BY <2>3, <3>1, <3>2 DEF Among
    <3>3. ASSUME NEW j \in 1 .. Len(x), i = Len(vault) + j PROVE Among(x, f)
      BY <2>3, <3>1, <3>3 DEF Among
    <3> QED
      BY <2>4, <3>2, <3>3
  <2>10. \A i \in 1 .. Len(x) : Among(vault, x[i])'
    BY <2>3, <2>4 DEF Among
  <2> QED
    BY <1>ty, <1>status, <2>1, <2>2, <2>3, <2>4, <2>5, <2>6, <2>7, <2>8, <2>9, <2>10
<1> QED
  BY <1>1, <1>2

-----------------------------------------------------------------------------
(* The runs.                                                               *)

(* A step puts nothing into play, and the vault keeps what it has.         *)
Keeps ==
    /\ \A f : InPlay(f)' => InPlay(f)
    /\ \A h : Vaulted(h) => Vaulted(h)'
    /\ \A e : InVault(e) => InVault(e)'

(* A step of a run that leaves the vault alone.                            *)
LEMMA RunGoesOn ==
    ASSUME RunsInv, NEW s \in Shippers, UNCHANGED <<frames, vaultVars>>,
           NEW m \in Memory, ship' = [ship EXCEPT ![s] = m], PushInv(s)',
           \A i \in 1 .. Len(m.run) : InPlay(m.run[i]),
           \A q \in late' : q \in late \/ (q = Batch(s) /\ ship[s].stage = "wait"),
           shipped' \in Heads, Vaulted(shipped'), key' \in Nat, keys' \in Nat
    PROVE  RunsInv' /\ Keeps
<1>1. /\ ship[s] \in Memory /\ \A t \in Shippers : t = s
      /\ ship' \in [Shippers -> Memory] /\ ship'[s] = m
  BY OneShipper DEF RunsInv, ShipTypeInv
<1>2. /\ \A h : Vaulted(h) <=> Vaulted(h)'
      /\ \A e : InVault(e) <=> InVault(e)'
  BY DEF Vaulted, InVault, vaultVars
<1>3. ASSUME NEW q \in late', q \notin late
      PROVE  q \in Requests /\ \A f : Among(q.index, f) => Among(ship[s].run, f)
  <2>1. q = Batch(s) /\ ship[s].stage = "wait"
    BY <1>3
  <2>2. ship[s].sent < Len(ship[s].run)
    BY <2>1 DEF RunsInv, PushInv, Pushing
  <2> QED
    BY <1>1, <2>1, <2>2, BatchOfRun
<1>4. ShipTypeInv'
  BY <1>1, <1>3 DEF RunsInv, ShipTypeInv, vaultVars
<1>5. RunsInv'
  <2>1. \A b \in batches' : Vaulted(HeadOf(b.index))'
    BY <1>2 DEF RunsInv, vaultVars
  <2>2. Vaulted(shipped)'
    BY DEF Vaulted, vaultVars
  <2> QED
    BY <1>1, <1>4, <2>1, <2>2 DEF RunsInv
<1>6. ASSUME NEW f, InPlay(f)' PROVE InPlay(f)
  <2>1. CASE Among(frames, f)' \/ Among(vault, f)'
    BY <2>1 DEF Among, InPlay, vaultVars
  <2>2. CASE \E t \in Shippers : Among(ship[t].run, f)'
    BY <1>1, <2>2 DEF Among
  <2>3. ASSUME NEW q \in late', Among(q.index, f) PROVE InPlay(f)
    BY <1>3, <2>3 DEF InPlay
  <2> QED
    BY <1>6, <2>1, <2>2, <2>3 DEF InPlay, Among
<1> QED
  BY <1>2, <1>5, <1>6 DEF Keeps

(* A run that ends, or begins again, with its memory cleared.              *)
LEMMA RunCleared ==
    ASSUME RunsInv, NEW s \in Shippers, UNCHANGED <<frames, vaultVars, keys>>,
           NEW m \in Memory, m.stage \notin Pushing \cup {"prune"}, m.answer = NoAnswer,
           m.run = <<>>, ship' = [ship EXCEPT ![s] = m],
           \A q \in late' : q \in late \/ (q = Batch(s) /\ ship[s].stage = "wait"),
           shipped' \in Heads, Vaulted(shipped'), key' \in Nat
    PROVE  RunsInv' /\ Keeps
<1>1. ship'[s] = m /\ keys' \in Nat
  BY DEF RunsInv, ShipTypeInv
<1>2. PushInv(s)'
  BY <1>1 DEF PushInv, Pushing, NoAnswer, Vaulted
<1>3. \A i \in 1 .. Len(m.run) : InPlay(m.run[i])
  OBVIOUS
<1> QED
  BY <1>1, <1>2, <1>3, RunGoesOn

(* A run that goes on to another stage with what it has.                   *)
LEMMA RunMovesOn ==
    ASSUME RunsInv, NEW s \in Shippers,
           UNCHANGED <<frames, shipped, keys, vaultVars, late>>, key' \in Nat,
           NEW stage \in Stages, ship' = [ship EXCEPT ![s].stage = stage],
           PushInv(s)'
    PROVE  RunsInv' /\ Keeps
<1>1. ship[s] \in Memory /\ shipped' \in Heads /\ Vaulted(shipped') /\ keys' \in Nat
  BY DEF RunsInv, ShipTypeInv
<1> DEFINE m == [ship[s] EXCEPT !.stage = stage]
<1>2. m \in Memory /\ m.run = ship[s].run
  BY <1>1 DEF Memory
<1>3. ship' = [ship EXCEPT ![s] = m]
  OBVIOUS
<1>4. \A i \in 1 .. Len(ship[s].run) : InPlay(ship[s].run[i])
  BY DEF InPlay, Among
<1> HIDE DEF m
<1> QED
  BY <1>1, <1>2, <1>3, <1>4, RunGoesOn

(* A request that reaches the vault.                                       *)
LEMMA RequestArrives ==
    ASSUME RunsInv, UNCHANGED <<frames, shipped, key, keys>>, late' \subseteq late,
           NEW q \in Requests, VaultTakes(q), \A f : Among(q.index, f) => InPlay(f),
           ship' \in [Shippers -> Memory], \A t \in Shippers : PushInv(t)',
           \A t \in Shippers : ship'[t].run = ship[t].run
    PROVE  RunsInv' /\ Keeps
<1>1. /\ vault' \in Seq(Frame) /\ batches' \subseteq Requests /\ wraps' \in Nat
      /\ \A i \in 1 .. Len(vault) : i \in 1 .. Len(vault') /\ vault'[i] = vault[i]
      /\ \A h : Vaulted(h) => Vaulted(h)'
      /\ \A b \in batches' : Vaulted(HeadOf(b.index))'
      /\ \A f : Among(vault, f)' => Among(vault, f) \/ Among(q.index, f)
  BY VaultGrows
<1>2. \A e : InVault(e) => InVault(e)'
  BY <1>1 DEF InVault
<1>3. ShipTypeInv'
  BY <1>1 DEF RunsInv, ShipTypeInv
<1>4. RunsInv'
  <2>1. Vaulted(shipped)'
    BY <1>1 DEF RunsInv
  <2> QED
    BY <1>1, <1>3, <2>1 DEF RunsInv
<1>5. ASSUME NEW f, InPlay(f)' PROVE InPlay(f)
  <2>1. CASE Among(vault, f)'
    BY <1>1, <2>1 DEF InPlay
  <2>2. CASE ~ Among(vault, f)'
    BY <1>5, <2>2 DEF InPlay, Among
  <2> QED
    BY <2>1, <2>2
<1> QED
  BY <1>1, <1>2, <1>4, <1>5 DEF Keeps

(* read_pending.                                                           *)
LEMMA PendingKeeps ==
    ASSUME TypeInv, RunsInv, NEW s \in Shippers, ReadPending(s)
    PROVE  RunsInv' /\ Keeps
<1>1. UNCHANGED <<frames, head, torn, shipped, vaultVars, late>> /\ ship[s].stage = "pending"
  BY DEF ReadPending, ShipDrops, diskVars
<1>2. /\ ship[s] \in Memory /\ ship \in [Shippers -> Memory] /\ ship[s].answer = NoAnswer
      /\ shipped \in Heads /\ Vaulted(shipped) /\ key \in Nat /\ keys \in Nat
  BY <1>1 DEF RunsInv, ShipTypeInv, PushInv
<1>3. CASE UpToDate(s)
  <2>1. ship' = [ship EXCEPT ![s].stage = "finish"] /\ UNCHANGED <<key, keys>>
    BY <1>3 DEF UpToDate, Goto
  <2>2. ship'[s].stage = "finish" /\ ship'[s].answer = NoAnswer
    BY <1>2, <2>1 DEF Memory
  <2>3. PushInv(s)'
    BY <2>2 DEF PushInv, Pushing, NoAnswer, Vaulted
  <2>4. key' \in Nat /\ "finish" \in Stages
    BY <1>2, <2>1 DEF Stages
  <2> QED
    BY <1>1, <2>1, <2>3, <2>4, RunMovesOn
<1>4. CASE PendingFails(s)
  <2>1. ship' = [ship EXCEPT ![s] = Off] /\ UNCHANGED <<key, keys>>
    BY <1>4 DEF PendingFails, End
  <2>2. Off.stage \notin Pushing \cup {"prune"} /\ Off.answer = NoAnswer /\ Off.run = <<>>
    BY DEF Off, Pushing
  <2> QED
    BY <1>1, <1>2, <2>1, <2>2, OffType, RunCleared
<1>5. CASE PendingFound(s)
  <2>1. /\ Refusal = "none"
        /\ keys' = IF key = NoKey THEN keys + 1 ELSE keys
        /\ key' = IF key = NoKey THEN keys' ELSE key
    BY <1>5 DEF PendingFound
  <2>2. keys' \in Nat /\ key' \in Nat /\ torn \in BOOLEAN
    BY <1>2, <2>1 DEF TypeInv, TypeOK
  <2>3. /\ Region \in Seq(Frame) /\ (Region # <<>> \/ torn)
        /\ \A i \in 1 .. Len(Region) : Among(frames, Region[i])
    BY <2>1, RegionOfLog
  <2> DEFINE n == [ship[s] EXCEPT !.stage = "send", !.after = shipped, !.run = Region,
                                  !.cut = torn, !.key = key', !.sent = 0]
  <2>4. ship' = [ship EXCEPT ![s] = n]
    BY <1>2, <1>5 DEF PendingFound
  <2>5. n \in Memory
    BY <1>2, <2>2, <2>3, RefilledType
  <2>6. /\ n.stage = "send" /\ n.run = Region /\ n.cut = torn /\ n.sent = 0
        /\ n.answer = NoAnswer
    BY <1>2 DEF Memory
  <2> HIDE DEF n
  <2>7. ship'[s] = n /\ (0 < Len(Region) \/ torn)
    BY <1>2, <2>3, <2>4
  <2>8. PushInv(s)'
    BY <2>6, <2>7 DEF PushInv, Pushing, NoAnswer, Vaulted
  <2>9. \A i \in 1 .. Len(n.run) : InPlay(n.run[i])
    BY <2>3, <2>6 DEF InPlay
  <2> QED
    BY <1>1, <1>2, <2>2, <2>4, <2>5, <2>8, <2>9, RunGoesOn
<1> QED
  BY <1>3, <1>4, <1>5 DEF ReadPending

(* A frame to send and no torn line: what a verdict of "ok" leaves.        *)
LEMMA SendKeeps ==
    ASSUME RunsInv, NEW s \in Shippers, Send(s)
    PROVE  RunsInv' /\ Keeps
<1>1. /\ UNCHANGED <<frames, shipped, key, keys, vaultVars, late>>
      /\ ship[s].stage = "send" /\ ship' = [ship EXCEPT ![s].stage = "wait"]
      /\ Verdict(s) = "ok"
  BY DEF Send, Goto, logVars, diskVars
<1>2. ship \in [Shippers -> Memory] /\ PushInv(s) /\ key' \in Nat
  BY <1>1 DEF RunsInv, ShipTypeInv
<1>3. ~ ship[s].cut
  BY <1>1 DEF Verdict, VerifySegment
<1>4. /\ ship'[s].stage = "wait" /\ ship'[s].run = ship[s].run /\ ship'[s].sent = ship[s].sent
      /\ ship'[s].answer = ship[s].answer
  BY <1>1, <1>2 DEF Memory
<1>5. ship[s].answer = NoAnswer /\ ship[s].sent < Len(ship[s].run)
  BY <1>1, <1>2, <1>3 DEF PushInv, Pushing
<1>6. PushInv(s)'
  BY <1>4, <1>5 DEF PushInv, Pushing, NoAnswer, Vaulted
<1> QED
  BY <1>1, <1>2, <1>6, RunMovesOn DEF Stages

(* A run takes the vault's answer.                                         *)
LEMMA AnswerKeeps ==
    ASSUME RunsInv, NEW s \in Shippers, TakeAnswer(s)
    PROVE  RunsInv' /\ Keeps
<1>1. /\ UNCHANGED <<frames, shipped, key, keys, vaultVars, late>>
      /\ ship[s].stage = "wait" /\ ship[s].answer # NoAnswer
  BY DEF TakeAnswer, logVars, diskVars
<1>2. /\ ship \in [Shippers -> Memory] /\ ship[s] \in Memory /\ PushInv(s)
      /\ shipped \in Heads /\ Vaulted(shipped) /\ key' \in Nat
  BY <1>1 DEF RunsInv, ShipTypeInv
<1>3. ASSUME NEW stage \in {"ack", "recover"}, ship' = [ship EXCEPT ![s].stage = stage],
             stage = "ack" => ship[s].answer.status = 200
      PROVE  RunsInv' /\ Keeps
  <2>1. /\ ship'[s].stage = stage /\ ship'[s].run = ship[s].run /\ ship'[s].sent = ship[s].sent
        /\ ship'[s].cut = ship[s].cut /\ ship'[s].answer = ship[s].answer
    BY <1>2, <1>3 DEF Memory
  <2>2. BatchEnd(s)' = BatchEnd(s)
    BY <2>1 DEF BatchEnd
  <2>3. \A h : Vaulted(h) => Vaulted(h)'
    BY <1>1 DEF Vaulted, vaultVars
  <2>4. PushInv(s)'
    BY <1>1, <1>2, <1>3, <2>1, <2>2, <2>3 DEF PushInv, Pushing
  <2> QED
    BY <1>1, <1>2, <1>3, <2>4, RunMovesOn DEF Stages
<1>4. ASSUME NEW how, End(s, how) PROVE RunsInv' /\ Keeps
  <2>1. Off.stage \notin Pushing \cup {"prune"} /\ Off.answer = NoAnswer /\ Off.run = <<>>
    BY DEF Off, Pushing
  <2> QED
    BY <1>1, <1>2, <1>4, <2>1, OffType, RunCleared DEF End
<1> QED
  BY <1>3, <1>4 DEF TakeAnswer, Goto

(* `shipped` is written after a 200.                                       *)
LEMMA AckKeeps ==
    ASSUME RunsInv, NEW s \in Shippers, WriteShipped(s)
    PROVE  RunsInv' /\ Keeps
<1>1. /\ UNCHANGED <<frames, key, keys, vaultVars, late>>
      /\ ship[s].stage = "ack" /\ shipped' = HeadAt(ship[s].run[BatchEnd(s)])
  BY DEF WriteShipped, ShipDrops, diskVars
<1>2. /\ ship \in [Shippers -> Memory] /\ ship[s] \in Memory /\ PushInv(s)
      /\ key' \in Nat /\ keys' \in Nat
  BY <1>1 DEF RunsInv, ShipTypeInv
<1>3. ship[s].sent < Len(ship[s].run) /\ Vaulted(shipped')
  BY <1>1, <1>2 DEF PushInv, Pushing
<1>4. BatchEnd(s) \in ship[s].sent + 1 .. Len(ship[s].run) /\ ship[s].sent \in Nat
  BY <1>2, <1>3, BatchOfRun DEF Memory
<1>5. shipped' \in Heads
  <2>1. ship[s].run \in Seq(Frame) /\ BatchEnd(s) \in 1 .. Len(ship[s].run)
    BY <1>2, <1>4 DEF Memory
  <2>2. ship[s].run[BatchEnd(s)] \in Frame
    BY <2>1
  <2> QED
    BY <1>1, <2>2 DEF Frame, FrameOver, HeadAt, Heads
<1> DEFINE stage == IF BatchEnd(s) = Len(ship[s].run) THEN "finish" ELSE "send"
           n == [ship[s] EXCEPT !.stage = stage, !.sent = BatchEnd(s), !.answer = NoAnswer]
<1>6. ship' = [ship EXCEPT ![s] = n]
  BY <1>2 DEF WriteShipped
<1>7. /\ n \in Memory /\ n.stage = stage /\ n.sent = BatchEnd(s) /\ n.answer = NoAnswer
      /\ n.run = ship[s].run
  <2>1. stage \in Stages /\ BatchEnd(s) \in Nat
    BY <1>4 DEF Stages
  <2> HIDE DEF stage
  <2>2. n \in Memory
    BY <1>2, <2>1, AckedType
  <2> QED
    BY <1>2, <2>2 DEF Memory
<1> HIDE DEF n
<1>8. ship'[s] = n
  BY <1>2, <1>6
<1>9. PushInv(s)'
  <2>1. stage = "send" => ship'[s].sent < Len(ship'[s].run)
    BY <1>2, <1>4, <1>7, <1>8 DEF Memory
  <2>2. ship'[s].stage \in {"send", "finish"} /\ ship'[s].answer = NoAnswer
    BY <1>7, <1>8
  <2> QED
    BY <1>7, <1>8, <2>1, <2>2 DEF PushInv, Pushing, NoAnswer, Vaulted
<1>10. \A i \in 1 .. Len(n.run) : InPlay(n.run[i])
  BY <1>7 DEF InPlay, Among
<1> QED
  BY <1>1, <1>2, <1>3, <1>5, <1>6, <1>7, <1>9, <1>10, RunGoesOn

(* The other steps of a run: they clear its memory.                        *)
LEMMA ClearingKeeps ==
    ASSUME RunsInv, NEW s \in Shippers,
           \/ StartRun(s) \/ StopOnVerdict(s) \/ Unreachable(s) \/ KillRun(s)
           \/ Recover(s) \/ Finish(s)
    PROVE  RunsInv' /\ Keeps
<1>1. Off.stage \notin Pushing \cup {"prune"} /\ Off.answer = NoAnswer /\ Off.run = <<>>
  BY DEF Off, Pushing
<1>2. LET m == [Off EXCEPT !.stage = "pending", !.recover = TRUE]
      IN  m.stage \notin Pushing \cup {"prune"} /\ m.answer = NoAnswer /\ m.run = <<>>
  BY DEF Off, Pushing
<1>3. LET m == [Off EXCEPT !.stage = "pending"]
      IN  m.stage \notin Pushing \cup {"prune"} /\ m.answer = NoAnswer /\ m.run = <<>>
  BY DEF Off, Pushing
<1>4. /\ shipped \in Heads /\ Vaulted(shipped) /\ PushInv(s) /\ ship[s] \in Memory /\ key \in Nat
  BY DEF RunsInv, ShipTypeInv
<1>drop. ShipDrops(s) => UNCHANGED frames
  BY DEF ShipDrops, diskVars
<1>quiet. UNCHANGED logVars => UNCHANGED frames
  BY DEF logVars, diskVars
<1>5. CASE StartRun(s)
  <2>1. /\ ship' = [ship EXCEPT ![s] = [Off EXCEPT !.stage = "pending", !.recover = TRUE]]
        /\ UNCHANGED <<frames, shipped, key, keys, vaultVars, late>>
    BY <1>5, <1>quiet DEF StartRun
  <2> QED
    BY <1>2, <1>4, <2>1, OffType, RunCleared
<1>6. CASE StopOnVerdict(s)
  BY <1>1, <1>4, <1>6, <1>quiet, OffType, RunCleared DEF StopOnVerdict, End
<1>7. CASE Unreachable(s)
  BY <1>1, <1>4, <1>7, <1>quiet, AbandonedIsOurs, OffType, RunCleared DEF Unreachable, End
<1>8. CASE KillRun(s)
  BY <1>1, <1>4, <1>8, <1>quiet, <1>drop, AbandonedIsOurs, OffType, RunCleared DEF KillRun
<1>9. CASE Recover(s)
  <2>1. /\ ship' = [ship EXCEPT ![s] = [Off EXCEPT !.stage = "pending"]]
        /\ shipped' = ship[s].answer.head
        /\ UNCHANGED <<frames, key, keys, vaultVars, late>>
    BY <1>9, <1>drop DEF Recover
  <2>2. shipped' \in Heads /\ Vaulted(shipped')
    BY <1>4, <2>1 DEF PushInv, Memory, Answers
  <2> DEFINE m == [Off EXCEPT !.stage = "pending"]
  <2>3. m \in Memory /\ m.stage \notin Pushing \cup {"prune"} /\ m.answer = NoAnswer /\ m.run = <<>>
    BY <1>3, OffType
  <2>4. ship' = [ship EXCEPT ![s] = m]
    BY <2>1
  <2> HIDE DEF m
  <2> QED
    BY <1>4, <2>1, <2>2, <2>3, <2>4, RunCleared
<1>10. CASE Finish(s)
  <2>1. /\ ship' = [ship EXCEPT ![s] = Off] /\ UNCHANGED <<frames, shipped, keys, vaultVars, late>>
    BY <1>10, <1>drop DEF Finish, End
  <2>2. key' \in Nat
    BY <1>4, <1>10 DEF Finish, NoKey
  <2> QED
    BY <1>1, <1>4, <2>1, <2>2, OffType, RunCleared
<1> QED
  BY <1>5, <1>6, <1>7, <1>8, <1>9, <1>10

(* A set of positions that is not empty has a first one.                   *)
LEMMA FirstOf ==
    ASSUME NEW n \in Nat, NEW S, S \subseteq 1 .. n, S # {}
    PROVE  \E i \in S : \A j \in S : i <= j
<1> DEFINE R == {n + 1 - i : i \in S}
<1>1. R \subseteq 1 .. n /\ R # {}
  <2>1. ASSUME NEW i \in S PROVE n + 1 - i \in 1 .. n /\ n + 1 - i \in R
    <3>1. i \in 1 .. n
      OBVIOUS
    <3> QED
      BY <3>1
  <2>2. PICK i \in S : TRUE
    OBVIOUS
  <2> QED
    BY <2>1, <2>2
<1>2. PICK k \in R : \A j \in R : j <= k
  BY <1>1, LastOf
<1>3. PICK i \in S : k = n + 1 - i
  OBVIOUS
<1>4. ASSUME NEW j \in S PROVE i <= j
  <2>1. n + 1 - j <= n + 1 - i
    BY <1>2, <1>3
  <2>2. i \in Int /\ j \in Int
    OBVIOUS
  <2> QED
    BY <2>1, <2>2
<1> QED
  BY <1>4

(* The vault takes no frame of a trail before the event the trail is of.   *)
Misses ==
    \A e, T : Trail(e, T) /\ ~ InVault(e)' => \A i \in 1 .. Len(vault') : vault'[i].hash \notin T

LEMMA VaultMissesTrails ==
    ASSUME RunsInv, NEW q \in Requests, VaultTakes(q), \A f : Among(q.index, f) => InPlay(f)
    PROVE  Misses
<1> SUFFICES ASSUME NEW e, NEW T, Trail(e, T), ~ InVault(e)',
                    NEW k \in 1 .. Len(vault'), vault'[k].hash \in T
             PROVE  FALSE
  BY DEF Misses
<1> DEFINE x == q.index
           S == {i \in 1 .. Len(x) : x[i].hash \in T}
<1>g. PICK g : g = vault'[k]
  OBVIOUS
<1>1. ~ Among(vault, g)
  BY <1>g DEF Among, Trail
<1>2. Among(vault, g)'
  BY <1>g DEF Among
<1>3. Among(x, g) /\ ~ UNCHANGED vault
  <2>1. \A f : Among(vault, f)' => Among(vault, f) \/ Among(x, f)
    BY VaultGrows
  <2>2. Among(x, g)
    BY <1>1, <1>2, <2>1
  <2> QED
    BY <1>1, <1>2, <2>2 DEF Among
<1>4. /\ \A i \in 1 .. Len(x) : Among(vault, x[i])'
      /\ \A i \in 1 .. Len(x) : PrevFits(HeadOf(vault), x, i)
  BY <1>3, VaultGrows
<1>5. S # {} /\ S \subseteq 1 .. Len(x) /\ Len(x) \in Nat
  BY <1>g, <1>3 DEF Among, Requests
<1>6. PICK i \in S : \A j \in S : i <= j
  BY <1>5, FirstOf
<1>7. x[i].prev \in T
  <2>1. x[i].hash # e
    BY <1>4 DEF Among, InVault
  <2>2. InPlay(x[i])
    BY DEF Among
  <2> QED
    BY <2>1, <2>2 DEF Trail
<1>8. HeadOf(vault).hash \notin T
  <2>1. vault # <<>> => Len(vault) \in 1 .. Len(vault)
    BY DEF RunsInv, ShipTypeInv
  <2> QED
    BY <2>1 DEF Trail, HeadOf, HeadAt, NoHead
<1>9. PrevFits(HeadOf(vault), x, i) /\ i \in 1 .. Len(x)
  BY <1>4
<1>10. i # 1 /\ x[i - 1].hash \in T
  BY <1>7, <1>8, <1>9 DEF PrevFits
<1>11. i - 1 \in S /\ i \in Int
  BY <1>5, <1>9, <1>10
<1>12. i <= i - 1
  BY <1>6, <1>11
<1> QED
  BY <1>11, <1>12

LEMMA AnsweredKeeps ==
    ASSUME RunsInv, NEW s \in Shippers, VaultAnswers(s)
    PROVE  RunsInv' /\ Keeps /\ Misses
<1>q. PICK q : q = Batch(s)
  OBVIOUS
<1> DEFINE answer == [status |-> Status(q), head |-> HeadOf(vault')]
           n == [ship[s] EXCEPT !.answer = answer]
<1>1. /\ UNCHANGED <<frames, shipped, key, keys, late>>
      /\ ship[s].stage = "wait" /\ VaultTakes(q) /\ ship' = [ship EXCEPT ![s] = n]
  BY <1>q DEF VaultAnswers, logVars, diskVars
<1>2. /\ ship \in [Shippers -> Memory] /\ ship[s] \in Memory /\ PushInv(s)
      /\ \A t \in Shippers : t = s
  BY OneShipper DEF RunsInv, ShipTypeInv
<1>3. ship[s].sent < Len(ship[s].run)
  BY <1>1, <1>2 DEF PushInv, Pushing
<1>4. /\ q \in Requests /\ q.index # <<>>
      /\ HeadOf(q.index) = HeadAt(ship[s].run[BatchEnd(s)])
      /\ \A f : Among(q.index, f) => InPlay(f)
  BY <1>q, <1>2, <1>3, BatchOfRun DEF InPlay
<1>5. /\ vault' \in Seq(Frame) /\ Vaulted(HeadOf(vault))' /\ Status(q) \in {200, 409, 422}
      /\ Status(q) = 200 => Vaulted(HeadOf(q.index))'
  BY <1>1, <1>4, VaultGrows
<1>6. answer \in Answers /\ answer # NoAnswer /\ answer.status # 0
  <2>1. HeadOf(vault') \in Heads
    BY <1>5, HeadOfType DEF Frame
  <2> QED
    BY <1>5, <2>1 DEF Answers, NoAnswer
<1>7. answer.status = Status(q) /\ answer.head = HeadOf(vault')
  OBVIOUS
<1> HIDE DEF answer
<1>8. /\ n \in Memory /\ n.answer = answer /\ n.stage = "wait"
      /\ n.run = ship[s].run /\ n.sent = ship[s].sent
  BY <1>1, <1>2, <1>6, AnswerType DEF Memory
<1> HIDE DEF n
<1>9. ship' \in [Shippers -> Memory] /\ ship'[s] = n
  BY <1>1, <1>2, <1>8
<1>10. PushInv(s)'
  <2>1. BatchEnd(s)' = BatchEnd(s)
    BY <1>8, <1>9 DEF BatchEnd
  <2>2. answer.status = 200 => Vaulted(HeadAt(ship[s].run[BatchEnd(s)]))'
    <3>1. HeadAt(ship'[s].run[BatchEnd(s)']) = HeadOf(q.index)
      BY <1>4, <1>8, <1>9, <2>1
    <3> QED
      BY <1>5, <1>7, <3>1
  <2>3. Vaulted(ship[s].answer.head)'
    <3>1. ship'[s].answer.head = HeadOf(vault')
      BY <1>7, <1>8, <1>9
    <3> QED
      BY <1>5, <3>1
  <2> QED
    BY <1>3, <1>6, <1>8, <1>9, <2>2, <2>3 DEF PushInv, Pushing
<1>11. RunsInv' /\ Keeps
  <2>1. \A t \in Shippers : PushInv(t)' /\ ship'[t].run = ship[t].run
    BY <1>2, <1>8, <1>9, <1>10
  <2> QED
    BY <1>1, <1>4, <1>9, <2>1, RequestArrives
<1> QED
  BY <1>1, <1>4, <1>11, VaultMissesTrails

LEMMA LateKeeps ==
    ASSUME RunsInv, NEW q \in late, LateArrival(q)
    PROVE  RunsInv' /\ Keeps /\ Misses
<1>1. /\ UNCHANGED <<frames, shipped, key, keys, ship, pc>> /\ VaultTakes(q)
      /\ late' \subseteq late
  BY DEF LateArrival, logVars, diskVars
<1>2. q \in Requests /\ (\A f : Among(q.index, f) => InPlay(f)) /\ ship' \in [Shippers -> Memory]
  BY <1>1 DEF RunsInv, ShipTypeInv, InPlay
<1>3. ASSUME NEW t \in Shippers PROVE PushInv(t)' /\ ship'[t].run = ship[t].run
  <2>1. \A h : Vaulted(h) => Vaulted(h)'
    BY <1>1, <1>2, VaultGrows
  <2>2. BatchEnd(t)' = BatchEnd(t)
    BY <1>1 DEF BatchEnd
  <2> QED
    BY <1>1, <2>1, <2>2 DEF PushInv, RunsInv
<1> QED
  BY <1>1, <1>2, <1>3, RequestArrives, VaultMissesTrails

-----------------------------------------------------------------------------
(* The steps, as the rest sees them.                                       *)

(* A run's part of the lock leaves the log and the hooks alone.            *)
LEMMA LockIsQuiet ==
    ASSUME TypeInv, NEW s \in Shippers, ShipWants(s) \/ ShipperStep(s)
    PROVE  Quiet /\ UNCHANGED dir
<1> USE DEF Quiet, diskVars, kernelVars, recorderVars
<1>ty. /\ pc \in [Processes -> {"idle", "open", "flock", "events", "busy"} \cup Critical]
       /\ s \in Processes /\ s \notin Recorders
  BY ProcessesAssumption DEF TypeInv, TypeOK, Processes
<1>1. CASE ShipWants(s) \/ ShipLocks(s) \/ ShipDrops(s)
  BY <1>ty, <1>1 DEF ShipWants, ShipLocks, ShipDrops, Processes
<1>2. CASE ShipOpens(s)
  BY <1>ty, <1>2 DEF ShipOpens, OpenLock, Processes
<1> QED
  BY <1>1, <1>2 DEF ShipperStep

(* A step of Ship is one of the log's processes, or puts nothing new into  *)
(* play and leaves log and hooks alone.                                    *)
Ships == Keeps /\ Misses /\ Quiet /\ UNCHANGED dir

LEMMA VaultUntouched ==
    ASSUME UNCHANGED vault
    PROVE  Misses
  BY DEF Misses, Trail

LEMMA RunsShip ==
    ASSUME TypeInv, RunsInv, ShipNext
    PROVE  \/ LogStep /\ UNCHANGED shipVars
           \/ RunsInv' /\ Ships
           \/ \E s \in Shippers :
                  /\ OpensLock(s) \/ TakesLock(s) \/ WantsLock(s)
                  /\ UNCHANGED shipVars /\ Quiet /\ UNCHANGED dir
<1>q. UNCHANGED logVars => Quiet /\ UNCHANGED dir
  BY DEF logVars, Quiet, diskVars, recorderVars
<1>d. ASSUME NEW s \in Shippers, ShipDrops(s) PROVE Quiet /\ UNCHANGED dir
  BY <1>d, LockIsQuiet DEF ShipperStep
<1>1. ASSUME NEW s \in Shippers, ReadPending(s) PROVE RunsInv' /\ Ships
  <2>1. UNCHANGED vault /\ ShipDrops(s)
    BY <1>1 DEF ReadPending, vaultVars
  <2> QED
    BY <1>1, <1>d, <2>1, PendingKeeps, VaultUntouched DEF Ships
<1>2. ASSUME NEW s \in Shippers, Send(s) PROVE RunsInv' /\ Ships
  <2>1. UNCHANGED vault /\ UNCHANGED logVars
    BY <1>2 DEF Send, vaultVars
  <2> QED
    BY <1>2, <1>q, <2>1, SendKeeps, VaultUntouched DEF Ships
<1>3. ASSUME NEW s \in Shippers, TakeAnswer(s) PROVE RunsInv' /\ Ships
  <2>1. UNCHANGED vault /\ UNCHANGED logVars
    BY <1>3 DEF TakeAnswer, vaultVars
  <2> QED
    BY <1>3, <1>q, <2>1, AnswerKeeps, VaultUntouched DEF Ships
<1>4. ASSUME NEW s \in Shippers, WriteShipped(s) PROVE RunsInv' /\ Ships
  <2>1. UNCHANGED vault /\ ShipDrops(s)
    BY <1>4 DEF WriteShipped, vaultVars
  <2> QED
    BY <1>4, <1>d, <2>1, AckKeeps, VaultUntouched DEF Ships
<1>5. ASSUME NEW s \in Shippers,
             \/ StartRun(s) \/ StopOnVerdict(s) \/ Unreachable(s) \/ KillRun(s)
             \/ Recover(s) \/ Finish(s)
      PROVE  RunsInv' /\ Ships
  <2>1. UNCHANGED vault
    BY <1>5 DEF StartRun, StopOnVerdict, Unreachable, KillRun, Recover, Finish, vaultVars
  <2>2. ShipDrops(s) \/ UNCHANGED logVars
    BY <1>5 DEF StartRun, StopOnVerdict, Unreachable, KillRun, Recover, Finish
  <2> QED
    BY <1>5, <1>q, <1>d, <2>1, <2>2, ClearingKeeps, VaultUntouched DEF Ships
<1>6. ASSUME NEW s \in Shippers, VaultAnswers(s) PROVE RunsInv' /\ Ships
  <2>1. UNCHANGED logVars
    BY <1>6 DEF VaultAnswers
  <2> QED
    BY <1>6, <1>q, <2>1, AnsweredKeeps DEF Ships
<1>7. ASSUME NEW q \in late, LateArrival(q) PROVE RunsInv' /\ Ships
  <2>1. UNCHANGED logVars
    BY <1>7 DEF LateArrival
  <2> QED
    BY <1>7, <1>q, <2>1, LateKeeps DEF Ships
<1>8. ASSUME NEW s \in Shippers, OpensLock(s) \/ TakesLock(s) \/ WantsLock(s)
      PROVE  UNCHANGED shipVars /\ Quiet /\ UNCHANGED dir
  BY <1>8, LockIsQuiet DEF OpensLock, TakesLock, WantsLock, ShipperStep
<1> QED
  BY <1>1, <1>2, <1>3, <1>4, <1>5, <1>6, <1>7, <1>8 DEF ShipNext, RunStep

(* The hooks leave the runs and their locks alone.                         *)
LEMMA HooksLeaveRuns ==
    ASSUME TypeInv, LogStep
    PROVE  \A s \in Shippers : pc'[s] = pc[s]
<1> USE DEF kernelVars
<1>ty. /\ pc \in [Processes -> {"idle", "open", "flock", "events", "busy"} \cup Critical]
       /\ \A s \in Shippers : s \in Processes /\ s \notin Recorders \cup Verifiers
  BY ProcessesAssumption DEF TypeInv, TypeOK, Processes
<1>1. ASSUME NEW r \in Recorders, StartAppend(r) \/ RecorderStep(r) \/ FailAppend(r)
      PROVE  \E at : pc' = [pc EXCEPT ![r] = at]
  BY <1>1 DEF StartAppend, RecorderStep, FailAppend, AppendOpens, OpenLock, AppendLocks,
     ReadHead, TakeLink, Refuse, WriteFrame, WriteTmp, RenameHead, EndAppend
<1>2. \A v \in Verifiers : FALSE
  BY PruneAssumption
<1>3. PICK r \in Recorders : \E at : pc' = [pc EXCEPT ![r] = at]
  BY <1>1, <1>2 DEF LogStep
<1> QED
  BY <1>ty, <1>3

LEMMA RunsStay ==
    ASSUME RunsInv, UNCHANGED shipVars,
           \A s \in Shippers : ship[s].stage = "prune" => pc'[s] = "busy"
    PROVE  RunsInv'
<1> USE DEF shipVars, vaultVars
<1>1. ShipTypeInv' /\ \A h : Vaulted(h)' <=> Vaulted(h)
  BY DEF RunsInv, ShipTypeInv, Vaulted
<1>2. ASSUME NEW s \in Shippers PROVE PushInv(s)'
  <2>1. BatchEnd(s)' = BatchEnd(s)
    BY DEF BatchEnd
  <2> QED
    BY <1>1, <2>1 DEF RunsInv, PushInv
<1> QED
  BY <1>1, <1>2 DEF RunsInv

(* What is in play when only the log moved.                                *)
LEMMA LogPlays ==
    ASSUME UNCHANGED shipVars, NEW f, InPlay(f)'
    PROVE  InPlay(f) \/ Among(frames, f)'
  BY DEF InPlay, Among, shipVars, vaultVars

LEMMA LogKeeps ==
    ASSUME UNCHANGED <<shipVars, frames>>
    PROVE  Keeps /\ Misses
<1>1. \A f : InPlay(f)' => InPlay(f)
  BY LogPlays DEF InPlay, Among
<1>2. UNCHANGED vault
  BY DEF shipVars, vaultVars
<1> QED
  BY <1>1, <1>2, VaultUntouched DEF Keeps, Vaulted, InVault

(* The steps of a prune.                                                   *)
LEMMA BeginKeeps ==
    ASSUME TypeInv, RunsInv, NEW s \in Shippers, BeginPrune(s)
    PROVE  RunsInv' /\ Keeps /\ Misses
<1>1. /\ UNCHANGED <<frames, pc, shipped, keys, vaultVars, late>>
      /\ ship[s].stage = "finish" /\ ship' = [ship EXCEPT ![s].stage = "prune"]
      /\ pc[s] = "busy" /\ (key' = NoKey \/ key' = key)
  BY DEF BeginPrune, logVars, diskVars
<1>2. ship \in [Shippers -> Memory] /\ ship[s].answer = NoAnswer /\ key' \in Nat
  BY <1>1 DEF RunsInv, ShipTypeInv, PushInv, NoKey
<1>3. ship'[s].stage = "prune" /\ ship'[s].answer = NoAnswer
  BY <1>1, <1>2 DEF Memory
<1>4. PushInv(s)'
  BY <1>1, <1>3 DEF PushInv, Pushing, NoAnswer, Vaulted
<1>5. "prune" \in Stages /\ UNCHANGED vault
  BY <1>1 DEF Stages, vaultVars
<1> QED
  BY <1>1, <1>2, <1>4, <1>5, RunMovesOn, VaultUntouched

LEMMA UnlinkKeeps ==
    ASSUME TypeInv, RunsInv, NEW s \in Shippers, NEW n \in Names, Unlink(s, n)
    PROVE  RunsInv' /\ Keeps /\ Misses
<1>1. /\ UNCHANGED <<pc, ship, vaultVars, late, keys>>
      /\ shipped' \in {NoHead, shipped} /\ key' \in {NoKey, key}
      /\ frames' = <<>> \/ frames' = frames
  BY DEF Unlink
<1>2. UNCHANGED vault /\ \A h : Vaulted(h)' <=> Vaulted(h)
  BY <1>1 DEF vaultVars, Vaulted
<1>3. ShipTypeInv' /\ Vaulted(shipped)'
  BY <1>1 DEF RunsInv, ShipTypeInv, vaultVars, Heads, NoKey, Vaulted
<1>4. ASSUME NEW t \in Shippers PROVE PushInv(t)'
  <2>1. BatchEnd(t)' = BatchEnd(t)
    BY <1>1 DEF BatchEnd
  <2> QED
    BY <1>1, <1>2, <2>1 DEF RunsInv, PushInv
<1>5. RunsInv'
  BY <1>1, <1>2, <1>3, <1>4 DEF RunsInv, vaultVars
<1>6. \A f : Among(frames, f)' => Among(frames, f)
  BY <1>1 DEF Among
<1>7. ASSUME NEW f, InPlay(f)' PROVE InPlay(f)
  BY <1>1, <1>6, <1>7 DEF InPlay, Among, vaultVars
<1> QED
  BY <1>2, <1>5, <1>7, VaultUntouched DEF Keeps, InVault

LEMMA RemoveKeeps ==
    ASSUME RunsInv, NEW s \in Shippers, RemoveDir(s)
    PROVE  RunsInv' /\ Keeps /\ Misses
<1>1. /\ ship' = [ship EXCEPT ![s] = Off]
      /\ UNCHANGED <<frames, vaultVars, keys, late, shipped, key>>
  BY DEF RemoveDir, End
<1>2. Off.stage \notin Pushing \cup {"prune"} /\ Off.answer = NoAnswer /\ Off.run = <<>>
  BY DEF Off, Pushing
<1>3. shipped' \in Heads /\ Vaulted(shipped') /\ key' \in Nat /\ UNCHANGED vault
  BY <1>1 DEF RunsInv, ShipTypeInv, vaultVars
<1> QED
  BY <1>1, <1>2, <1>3, OffType, RunCleared, VaultUntouched

(* All steps.                                                              *)
LEMMA Steps ==
    ASSUME TypeInv, RunsInv, PruneStep
    PROVE  /\ RunsInv'
           /\ \/ LogStep /\ UNCHANGED shipVars
              \/ Ships /\ [Next]_logVars
              \/ (\E r \in Recorders : AppendLosesFiles(r)) /\ Keeps /\ Misses
              \/ (\E s \in Shippers : BeginPrune(s)) /\ Keeps /\ Misses
              \/ (\E s \in Shippers : RemoveDir(s) \/ \E n \in Names : Unlink(s, n))
                 /\ Keeps /\ Misses
<1>ty. /\ pc \in [Processes -> {"idle", "open", "flock", "events", "busy"} \cup Critical]
       /\ \A s \in Shippers : s \in Processes /\ s \notin Recorders
  BY ProcessesAssumption DEF TypeInv, TypeOK, Processes
<1>1. ASSUME LogStep, UNCHANGED shipVars PROVE RunsInv'
  <2>1. UNCHANGED ship
    BY <1>1 DEF shipVars
  <2> QED
    BY <1>1, <2>1, HooksLeaveRuns, RunsStay DEF RunsInv, PushInv
<1>2. ASSUME NEW s \in Shippers, OpensLock(s) \/ TakesLock(s) \/ WantsLock(s),
             UNCHANGED shipVars, Quiet, UNCHANGED dir
      PROVE  RunsInv' /\ Ships
  <2>1. \A t \in Shippers : t = s
    BY OneShipper
  <2>2. ship[s].stage = "prune" => pc[s] = "busy"
    BY DEF RunsInv, PushInv
  <2>3. ship[s].stage # "prune"
    BY <1>2, <2>2 DEF OpensLock, ShipOpens, OpenLock, TakesLock, ShipLocks, WantsLock, LockWork
  <2>4. RunsInv'
    BY <1>2, <2>1, <2>3, RunsStay
  <2>5. UNCHANGED frames
    BY <1>2 DEF Quiet
  <2> QED
    BY <1>2, <2>4, <2>5, LogKeeps DEF Ships
<1>3. CASE ShipNext
  BY <1>1, <1>2, <1>3, RunsShip, ShipStepOfLog
<1>4. ASSUME NEW r \in Recorders, AppendLosesFiles(r) PROVE RunsInv' /\ Keeps /\ Misses
  <2>1. /\ pc' = [pc EXCEPT ![r] = "idle"] /\ UNCHANGED <<shipVars, frames>>
    BY <1>4 DEF AppendLosesFiles, EndAppend, diskVars
  <2>2. \A s \in Shippers : pc'[s] = pc[s]
    BY <1>ty, <2>1
  <2>3. RunsInv'
    BY <2>1, <2>2, RunsStay DEF RunsInv, PushInv
  <2> QED
    BY <2>1, <2>3, LogKeeps
<1> QED
  BY <1>3, <1>4, BeginKeeps, UnlinkKeeps, RemoveKeeps, PruneSteps

-----------------------------------------------------------------------------
(* Events.                                                                 *)

(* What a write brings into play is the frame it writes.                   *)
LEMMA WritePlays ==
    ASSUME TypeInv, NEW r \in Recorders, WriteFrame(r), UNCHANGED shipVars
    PROVE  \A f : InPlay(f)' => InPlay(f) \/ f = Seal(event[r], link[r])
<1>1. frames \in Seq(Frame) /\ frames' = Append(frames, Seal(event[r], link[r]))
  BY DEF TypeInv, TypeOK, Frame, WriteFrame
<1> DEFINE g == Seal(event[r], link[r])
<1>2. /\ Len(frames') = Len(frames) + 1 /\ Len(frames) \in Nat
      /\ \A i \in 1 .. Len(frames) : frames'[i] = frames[i]
      /\ frames'[Len(frames) + 1] = g
  BY <1>1
<1> HIDE DEF g
<1>3. ASSUME NEW f, Among(frames, f)' PROVE Among(frames, f) \/ f = g
  <2>1. PICK i \in 1 .. Len(frames') : frames'[i] = f
    BY <1>3 DEF Among
  <2>2. i \in 1 .. Len(frames) \/ i = Len(frames) + 1
    BY <1>2
  <2> QED
    BY <1>2, <2>1, <2>2 DEF Among
<1> QED
  BY <1>3, LogPlays DEF InPlay, g

LEMMA IdStep ==
    ASSUME TypeInv, IdInv, RunsInv, PruneStep
    PROVE  IdInv'
<1> USE DEF IdInv, Written
<1>ty. /\ pc \in [Processes -> {"idle", "open", "flock", "events", "busy"} \cup Critical]
       /\ event \in [Recorders -> [id : Nat, kind : Kinds \cup {"none"}]]
       /\ \A r \in Recorders : r \in Processes
       /\ events \in Nat
  BY DEF TypeInv, TypeOK, Processes
<1>keep. ASSUME Keeps, UNCHANGED <<event, events>>,
                \A r \in Recorders : pc'[r] = "idle" <=> pc[r] = "idle",
                \A r \in Recorders : pc[r] \in Written => pc'[r] \in Written
         PROVE  IdInv'
  BY <1>ty, <1>keep DEF Keeps
<1>quiet. ASSUME Keeps, Quiet PROVE IdInv'
  BY <1>keep, <1>quiet DEF Quiet
<1>end. ASSUME NEW r \in Recorders, EndAppend(r), Keeps, UNCHANGED events PROVE IdInv'
  <2>1. /\ pc' = [pc EXCEPT ![r] = "idle"] /\ event' = [event EXCEPT ![r] = NoEvent]
        /\ NoEvent.id = 0
    BY <1>end DEF EndAppend, NoEvent
  <2> QED
    BY <1>ty, <1>end, <2>1 DEF Keeps
<1>1. ASSUME NEW r \in Recorders, StartAppend(r), Keeps PROVE IdInv'
  <2>1. PICK k \in Kinds : event' = [event EXCEPT ![r] = [id |-> events + 1, kind |-> k]]
    BY <1>1 DEF StartAppend
  <2>2. /\ event'[r].id = events + 1 /\ \A q \in Recorders \ {r} : event'[q] = event[q]
        /\ events' = events + 1 /\ pc' = [pc EXCEPT ![r] = "open"] /\ pc[r] = "idle"
    BY <1>ty, <1>1, <2>1 DEF StartAppend
  <2>3. \A f : InPlay(f)' => f.hash \in 1 .. events
    BY <1>1 DEF Keeps
  <2>4. \A n \in 1 .. events : n \in 1 .. events + 1 /\ n # events + 1
    BY <1>ty
  <2>5. events + 1 \in 1 .. events + 1 /\ NoEvent.id = 0
    BY <1>ty DEF NoEvent
  <2>6. \A q \in Recorders : event[q].id # events + 1
    BY <1>ty, <2>4, <2>5
  <2>7. \A q, p \in Recorders : pc'[q] # "idle" /\ event'[q].id = event'[p].id => q = p
    BY <1>ty, <2>2, <2>6
  <2>8. \A q \in Recorders : pc'[q] \notin {"idle"} \cup Written =>
            \A f : InPlay(f)' => f.hash # event'[q].id
    BY <1>ty, <1>1, <2>2, <2>3, <2>4 DEF Keeps
  <2>9. \A q \in Recorders :
            IF pc'[q] = "idle" THEN event'[q] = NoEvent ELSE event'[q].id \in 1 .. events'
    BY <1>ty, <2>2, <2>4, <2>5
  <2> QED
    BY <2>2, <2>3, <2>4, <2>7, <2>8, <2>9
<1>2. ASSUME NEW r \in Recorders, ReadHead(r) \/ TakeLink(r) \/ WriteTmp(r), Keeps PROVE IdInv'
  <2>1. UNCHANGED <<event, events>>
    BY <1>2 DEF ReadHead, TakeLink, WriteTmp, recorderVars
  <2>2. \/ pc[r] = "head" /\ pc' = [pc EXCEPT ![r] = "tail"]
        \/ pc[r] = "tail" /\ pc' = [pc EXCEPT ![r] = "write"]
        \/ pc[r] = "tmp" /\ pc' = [pc EXCEPT ![r] = "rename"]
    BY <1>2 DEF ReadHead, TakeLink, WriteTmp
  <2>3. \A q \in Recorders : (pc'[q] = "idle" <=> pc[q] = "idle") /\ (pc[q] \in Written => pc'[q] \in Written)
    BY <1>ty, <2>2
  <2> QED
    BY <1>2, <1>keep, <2>1, <2>3
<1>3. ASSUME NEW r \in Recorders, Refuse(r) \/ RenameHead(r) \/ FailAppend(r), Keeps PROVE IdInv'
  BY <1>3, <1>end DEF Refuse, RenameHead, FailAppend
<1>4. ASSUME NEW r \in Recorders, WriteFrame(r), UNCHANGED shipVars PROVE IdInv'
  <2>1. /\ pc[r] = "write" /\ pc' = [pc EXCEPT ![r] = "tmp"] /\ UNCHANGED <<event, events>>
    BY <1>4 DEF WriteFrame, recorderVars
  <2>2. \A f : InPlay(f)' => InPlay(f) \/ f.hash = event[r].id
    BY <1>4, WritePlays DEF Seal
  <2>3. event[r].id \in 1 .. events
    BY <2>1
  <2>4. \A f : InPlay(f)' => f.hash \in 1 .. events
    BY <2>2, <2>3
  <2>5. \A q \in Recorders : pc'[q] = "idle" <=> pc[q] = "idle"
    BY <1>ty, <2>1
  <2>6. \A q \in Recorders : pc'[q] \notin {"idle"} \cup Written =>
            \A f : InPlay(f)' => f.hash # event'[q].id
    BY <1>ty, <2>1, <2>2
  <2> QED
    BY <2>1, <2>4, <2>5, <2>6
<1>5. ASSUME LogStep, UNCHANGED shipVars PROVE IdInv'
  <2>1. UNCHANGED frames => Keeps
    BY <1>5, LogKeeps
  <2>2. Quiet => UNCHANGED frames
    BY DEF Quiet
  <2>3. ASSUME NEW r \in Recorders,
               \/ StartAppend(r) \/ ReadHead(r) \/ TakeLink(r) \/ Refuse(r)
               \/ WriteTmp(r) \/ RenameHead(r) \/ FailAppend(r)
        PROVE  UNCHANGED frames
    BY <2>3 DEF StartAppend, ReadHead, TakeLink, Refuse, WriteTmp, RenameHead, FailAppend, diskVars
  <2>4. [Next]_logVars
    BY <1>5 DEF Next
  <2> QED
    BY <1>1, <1>2, <1>3, <1>4, <1>5, <1>quiet, <2>1, <2>2, <2>3, <2>4, QuietSteps DEF TypeInv
<1>6. CASE Ships
  BY <1>6, <1>quiet DEF Ships
<1>7. ASSUME NEW r \in Recorders, AppendLosesFiles(r), Keeps PROVE IdInv'
  BY <1>7, <1>end DEF AppendLosesFiles
<1>8. ASSUME NEW s \in Shippers, BeginPrune(s), Keeps PROVE IdInv'
  BY <1>8, <1>keep DEF BeginPrune, logVars, recorderVars
<1>9. ASSUME NEW s \in Shippers, RemoveDir(s) \/ \E n \in Names : Unlink(s, n), Keeps
      PROVE  IdInv'
  <2>1. UNCHANGED <<event, events>> /\ (pc' = pc \/ pc' = [pc EXCEPT ![s] = "idle"])
    BY <1>9 DEF RemoveDir, Unlink, recorderVars
  <2>2. \A r \in Recorders : pc'[r] = pc[r]
    BY <1>ty, <2>1, ProcessesAssumption
  <2> QED
    BY <1>9, <1>keep, <2>1, <2>2
<1> QED
  BY <1>5, <1>6, <1>7, <1>8, <1>9, Steps

-----------------------------------------------------------------------------
(* Exposure.                                                               *)

(* A step starts an append, and then leaves the runs alone, or brings no   *)
(* event into a hook's hands.                                              *)
LEMMA HandStep ==
    ASSUME TypeInv, IdInv, RunsInv, PruneStep
    PROVE  \/ UNCHANGED events /\ InHand' \subseteq InHand
           \/ /\ events' = events + 1 /\ UNCHANGED shipVars
              /\ InHand' = InHand \cup {events + 1}
<1> USE DEF InHand
<1>ty. /\ event \in [Recorders -> [id : Nat, kind : Kinds \cup {"none"}]]
       /\ events \in Nat /\ NoEvent.id = 0
       /\ \A r \in Recorders : pc[r] = "idle" => event[r] = NoEvent
  BY DEF TypeInv, TypeOK, NoEvent, IdInv
<1>same. ASSUME UNCHANGED <<event, events>> PROVE UNCHANGED events /\ InHand' \subseteq InHand
  BY <1>same
<1>end. ASSUME NEW r \in Recorders, EndAppend(r), UNCHANGED events
        PROVE  UNCHANGED events /\ InHand' \subseteq InHand
  BY <1>ty, <1>end DEF EndAppend
<1>1. ASSUME NEW r \in Recorders, StartAppend(r)
      PROVE  events' = events + 1 /\ InHand' = InHand \cup {events + 1}
  <2>1. PICK k \in Kinds : event' = [event EXCEPT ![r] = [id |-> events + 1, kind |-> k]]
    BY <1>1 DEF StartAppend
  <2>2. /\ event'[r].id = events + 1 /\ \A q \in Recorders \ {r} : event'[q] = event[q]
        /\ event[r].id = 0 /\ events + 1 # 0 /\ events' = events + 1
    BY <1>ty, <1>1, <2>1 DEF StartAppend
  <2> QED
    BY <1>ty, <2>2
<1>2. ASSUME NEW r \in Recorders,
             \/ ReadHead(r) \/ TakeLink(r) \/ WriteFrame(r) \/ WriteTmp(r)
      PROVE  UNCHANGED <<event, events>>
  BY <1>2 DEF ReadHead, TakeLink, WriteFrame, WriteTmp, recorderVars
<1>3. ASSUME NEW r \in Recorders,
             Refuse(r) \/ RenameHead(r) \/ FailAppend(r) \/ AppendLosesFiles(r)
      PROVE  EndAppend(r) /\ UNCHANGED events
  BY <1>3 DEF Refuse, RenameHead, FailAppend, AppendLosesFiles
<1>4. CASE Quiet
  BY <1>4, <1>same DEF Quiet
<1>5. CASE LogStep /\ UNCHANGED shipVars
  <2>1. [Next]_logVars
    BY <1>5 DEF Next
  <2> QED
    BY <1>same, <1>end, <1>1, <1>2, <1>3, <1>4, <1>5, <2>1, QuietSteps DEF TypeInv
<1>6. ASSUME NEW s \in Shippers, BeginPrune(s) \/ RemoveDir(s) \/ \E n \in Names : Unlink(s, n)
      PROVE  UNCHANGED <<event, events>>
  BY <1>6 DEF BeginPrune, RemoveDir, Unlink, logVars, recorderVars
<1> QED
  BY <1>same, <1>end, <1>3, <1>4, <1>5, <1>6, Steps DEF Ships

(* Only BeginPrune begins a prune.                                         *)
LEMMA ShipBeginsNone ==
    ASSUME RunsInv, ShipNext, ~ Pruning
    PROVE  ~ Pruning'
<1> USE DEF Pruning, shipVars
<1>1. ship \in [Shippers -> Memory]
  BY DEF RunsInv, ShipTypeInv
<1>2. Off.stage # "prune" /\ [Off EXCEPT !.stage = "pending"].stage # "prune"
  BY DEF Off
<1>3. ASSUME NEW s \in Shippers, NEW m, m.stage # "prune", ship' = [ship EXCEPT ![s] = m]
      PROVE  ~ Pruning'
  BY <1>1, <1>3
<1>4. ASSUME NEW s \in Shippers, NEW stage, stage # "prune", ship' = [ship EXCEPT ![s].stage = stage]
      PROVE  ~ Pruning'
  BY <1>1, <1>4 DEF Memory
<1>5. ASSUME NEW s \in Shippers, ReadPending(s) PROVE ~ Pruning'
  <2>1. CASE PendingFound(s)
    BY <1>1, <2>1 DEF PendingFound, Memory
  <2> QED
    BY <1>2, <1>3, <1>4, <1>5, <2>1 DEF ReadPending, UpToDate, PendingFails, Goto, End
<1>6. ASSUME NEW s \in Shippers, StopOnVerdict(s) \/ Unreachable(s) \/ KillRun(s) \/ Finish(s)
      PROVE  ~ Pruning'
  BY <1>2, <1>3, <1>6 DEF StopOnVerdict, Unreachable, KillRun, Finish, End
<1>7. ASSUME NEW s \in Shippers, Send(s) \/ TakeAnswer(s) PROVE ~ Pruning'
  <2>1. \/ ship' = [ship EXCEPT ![s] = Off]
        \/ \E stage \in {"wait", "ack", "recover"} : ship' = [ship EXCEPT ![s].stage = stage]
    BY <1>7 DEF Send, TakeAnswer, Goto, End
  <2> QED
    BY <1>2, <1>3, <1>4, <2>1
<1>8. ASSUME NEW s \in Shippers, WriteShipped(s) PROVE ~ Pruning'
  BY <1>1, <1>8 DEF WriteShipped, Memory
<1>9. ASSUME NEW s \in Shippers, VaultAnswers(s) PROVE ~ Pruning'
  BY <1>1, <1>9 DEF VaultAnswers, Memory
<1>10. ASSUME NEW s \in Shippers, StartRun(s) \/ Recover(s) PROVE ~ Pruning'
  BY <1>1, <1>10 DEF StartRun, Recover, Off
<1>11. ASSUME UNCHANGED ship PROVE ~ Pruning'
  BY <1>11
<1> QED
  BY <1>5, <1>6, <1>7, <1>8, <1>9, <1>10, <1>11
     DEF ShipNext, RunStep, WantsLock, OpensLock, TakesLock, LateArrival

(* Who is exposed stays so, and beside a prune everybody is.               *)
LEMMA ExposedStep ==
    ASSUME TypeInv, IdInv, IdInv', RunsInv, ExposedInv, PruneNext
    PROVE  ExposedInv' /\ exposed \subseteq exposed' /\ exposed' \subseteq exposed \cup InHand'
<1>1. /\ exposed \subseteq exposed' /\ exposed' \subseteq exposed \cup InHand'
      /\ Aftermath => InHand' \subseteq exposed'
      /\ ~ Aftermath => exposed' = exposed
  BY DEF PruneNext
<1>2. ~ Clean' => InHand' \subseteq exposed'
  BY <1>1 DEF Clean, Aftermath
<1>3. InHand' \subseteq 1 .. events'
  BY DEF InHand, IdInv, NoEvent
<1>4. 1 .. events \subseteq 1 .. events'
  BY HandStep DEF PruneNext, TypeInv, TypeOK
<1> QED
  BY <1>1, <1>2, <1>3, <1>4 DEF ExposedInv

(* Between prunes it stays so until one begins, and nobody is exposed.     *)
LEMMA StaysClean ==
    ASSUME TypeInv, IdInv, RunsInv, ExposedInv, PruneNext, Clean, ~ Pruning'
    PROVE  Clean' /\ UNCHANGED exposed
<1>1. InHand' \cap exposed = {}
  <2>1. events \in Nat
    BY DEF TypeInv, TypeOK
  <2>2. events + 1 \notin exposed
    BY <2>1 DEF ExposedInv
  <2> QED
    BY <2>2, HandStep DEF PruneNext, Clean
<1> QED
  BY <1>1 DEF PruneNext, Aftermath, Clean

(* Between prunes the lock is one lock, no hook misses a file, and all a   *)
(* run can do beside what it does in Ship is begin a prune.                *)
LEMMA CleanLock ==
    ASSUME HeldInv, CleanInv, Clean
    PROVE  LockInv
<1>1. \A p \in Processes : pc[p] \notin Waits => lockFile # NoFile /\ fd[p] = lockFile
  BY OneShipper DEF HeldInv, CleanInv, Clean
<1>2. \A p \in Processes : Holds(p) => pc[p] \notin Waits
  BY DEF Holds, Waits
<1>3. \A p \in Processes : Holds(p) => [by |-> p, on |-> lockFile, mode |-> Mode(p)] \in held
  BY <1>1, <1>2, OneShipper DEF HeldInv
<1>4. \A p, q \in Processes : Holds(p) /\ Holds(q) => p = q
  BY <1>1, <1>2 DEF HeldInv
<1> QED
  BY <1>1, <1>3, <1>4 DEF LockInv

(* The head of a log with a frame in it is on disk.                        *)
LEMMA HeadOfFrames ==
    ASSUME TypeInv, frames # <<>>
    PROVE  /\ HeadOf(frames) # NoHead
           /\ HeadOf(frames) = HeadAt(frames[Len(frames)])
           /\ Len(frames) \in 1 .. Len(frames)
<1>1. frames \in Seq(Frame)
  BY DEF TypeInv, TypeOK, Frame
<1>2. Len(frames) \in 1 .. Len(frames) /\ frames[Len(frames)] \in Frame
  BY <1>1
<1> QED
  BY <1>2 DEF HeadOf, HeadAt, NoHead, Frame, FrameOver

LEMMA CleanMissesNone ==
    ASSUME TypeInv, CleanInv, Clean, NEW r \in Recorders, AppendLosesFiles(r)
    PROVE  FALSE
<1>1. \/ pc[r] \in {"open", "write", "tmp"} /\ ~ dir
      \/ pc[r] = "rename" /\ tmp = NoHead
  BY DEF AppendLosesFiles
<1>2. CASE pc[r] \in {"open", "write", "tmp"} /\ ~ dir
  BY <1>2 DEF CleanInv
<1>3. CASE pc[r] = "rename" /\ tmp = NoHead
  <2>1. frames # <<>> /\ tmp = HeadOf(frames)
    BY <1>3 DEF CleanInv, LinkInv, Written
  <2> QED
    BY <1>3, <2>1, HeadOfFrames
<1> QED
  BY <1>1, <1>2, <1>3

LEMMA CleanSteps ==
    ASSUME TypeInv, CleanInv, Clean, PruneStep
    PROVE  ShipNext \/ \E s \in Shippers : BeginPrune(s)
<1>1. ASSUME NEW s \in Shippers, RemoveDir(s) \/ \E n \in Names : Unlink(s, n) PROVE FALSE
  BY <1>1 DEF RemoveDir, Unlink, Clean, Pruning
<1> QED
  BY <1>1, CleanMissesNone, PruneSteps

(* When the last hook that was beside a prune has ended, none is at work.  *)
LEMMA DirtEnds ==
    ASSUME TypeInv, IdInv, IdInv', RunsInv, ExposedInv, PruneNext, ~ Clean, Clean'
    PROVE  \A r \in Recorders : pc'[r] = "idle"
<1>1. exposed \subseteq exposed' /\ InHand \subseteq exposed /\ InHand' \cap exposed' = {}
  BY ExposedStep DEF Clean, ExposedInv
<1>2. CASE InHand' \subseteq InHand
  <2>1. InHand' = {}
    BY <1>1, <1>2
  <2>2. \A r \in Recorders : event'[r].id = NoEvent.id
    BY <2>1 DEF InHand
  <2>3. \A n \in 1 .. events' : n # NoEvent.id
    BY DEF NoEvent
  <2> QED
    BY <2>2, <2>3 DEF IdInv
<1>3. CASE UNCHANGED shipVars /\ InHand' = InHand \cup {events + 1}
  <2>1. Pruning
    BY <1>1, <1>3 DEF Clean
  <2> QED
    BY <1>3, <2>1 DEF Clean, Pruning, shipVars
<1> QED
  BY <1>2, <1>3, HandStep DEF PruneNext

LEMMA CleanStep ==
    ASSUME TypeInv, IdInv, IdInv', RunsInv, HeldInv, ExposedInv, CleanInv, PruneNext
    PROVE  CleanInv'
<1> SUFFICES ASSUME Clean'
             PROVE  /\ \A r \in Recorders :
                           /\ pc'[r] \notin Waits => lockFile' # NoFile /\ fd'[r] = lockFile'
                           /\ pc'[r] # "idle" => dir'
                    /\ LinkInv'
  BY DEF CleanInv
<1>1. CASE ~ Clean
  <2>1. \A r \in Recorders : pc'[r] = "idle"
    BY <1>1, DirtEnds
  <2> QED
    BY <2>1 DEF LinkInv, Written, Waits
<1>2. CASE Clean
  <2>1. ShipNext
    <3>1. ASSUME NEW s \in Shippers, BeginPrune(s) PROVE FALSE
      BY <3>1 DEF BeginPrune, Clean, Pruning, RunsInv, ShipTypeInv, Memory
    <3> QED
      BY <1>2, <3>1, CleanSteps DEF PruneNext
  <2>2. [Next]_logVars /\ LockInv
    BY <1>2, <2>1, CleanLock, ShipStepOfLog
  <2>3. LockInv' /\ LinkInv'
    BY <1>2, <2>2, LockStep, LinkStep DEF CleanInv, TypeInv
  <2>4. \A r \in Recorders : pc'[r] \notin Waits => lockFile' # NoFile /\ fd'[r] = lockFile'
    BY <2>3 DEF LockInv, Processes
  <2>5. ASSUME NEW r \in Recorders, pc'[r] # "idle" PROVE dir'
    <3>1. \A q \in Recorders : pc[q] # "idle" => dir
      BY <1>2 DEF CleanInv
    <3>2. CASE Ships
      BY <2>5, <3>1, <3>2 DEF Ships, Quiet
    <3>3. CASE LogStep
      <4>1. dir' \/ UNCHANGED dir
        BY <3>3, PruneAssumption DEF LogStep, StartAppend, RecorderStep, FailAppend, AppendOpens, OpenLock,
           AppendLocks, ReadHead, TakeLink, Refuse, WriteFrame, WriteTmp, RenameHead, diskVars
      <4>2. CASE Quiet
        BY <2>5, <3>1, <4>1, <4>2 DEF Quiet
      <4>3. ASSUME NEW q \in Recorders, StartAppend(q) PROVE dir'
        BY <4>3 DEF StartAppend
      <4>4. ASSUME NEW q \in Recorders, pc[q] # "idle" PROVE dir'
        BY <3>1, <4>1, <4>4
      <4> QED
        BY <2>2, <4>2, <4>3, <4>4, QuietSteps
           DEF TypeInv, ReadHead, TakeLink, Refuse, WriteFrame, WriteTmp, RenameHead, FailAppend
    <3> QED
      BY <2>1, <3>2, <3>3, RunsShip, <2>5, <3>1 DEF Quiet
  <2> QED
    BY <2>3, <2>4, <2>5
<1> QED
  BY <1>1, <1>2

-----------------------------------------------------------------------------
(* Trails.                                                                 *)

(* While an event has a trail there is something left to ship.             *)
LEMMA TrailPending ==
    ASSUME RunsInv, NEW e, Trailed(e)
    PROVE  ~ Complete
<1> SUFFICES ASSUME shipped = head PROVE FALSE
  BY DEF Complete
<1>1. PICK T : Trail(e, T)
  BY DEF Trailed
<1>2. shipped.hash \in T
  BY <1>1 DEF Trail
<1>3. shipped # NoHead
  BY <1>1, <1>2 DEF Trail, NoHead
<1>4. PICK i \in 1 .. Len(vault) : shipped = HeadAt(vault[i])
  BY <1>3 DEF RunsInv, Vaulted
<1> QED
  BY <1>1, <1>2, <1>4 DEF Trail, HeadAt

(* A step that brings no frame into play and keeps the heads keeps a trail *)
(* but for an event it puts into the vault.                                *)
LEMMA TrailKept ==
    ASSUME Keeps, Misses, UNCHANGED frames, head' \in {head, HeadOf(frames)},
           NEW e, Trailed(e), ~ InVault(e)'
    PROVE  Trailed(e)'
<1>1. PICK T : Trail(e, T)
  BY DEF Trailed
<1>2. \A i \in 1 .. Len(vault') : vault'[i].hash \notin T
  BY <1>1 DEF Misses
<1>3. UNCHANGED HeadOf(frames)
  OBVIOUS
<1>4. Trail(e, T)'
  BY <1>1, <1>2, <1>3 DEF Trail, Keeps
<1> QED
  BY <1>4 DEF Trailed

(* The frame a hook writes goes onto every trail: it links to the log's    *)
(* last frame, and nothing in play is of its event.                        *)
LEMMA TrailGrows ==
    ASSUME TypeInv, IdInv, LinkInv, NEW r \in Recorders, WriteFrame(r), UNCHANGED shipVars,
           NEW e, Trailed(e)
    PROVE  Trailed(e)'
<1>1. PICK T : Trail(e, T)
  BY DEF Trailed
<1> DEFINE g == Seal(event[r], link[r])
<1>2. g.hash = event[r].id /\ g.prev = link[r].hash /\ HeadAt(g).hash = g.hash
  BY DEF Seal, HeadAt
<1>3. /\ pc[r] = "write" /\ frames' = Append(frames, g) /\ UNCHANGED head
      /\ link[r] = HeadOf(frames)
  BY DEF WriteFrame, LinkInv
<1>4. g.hash # Genesis
  BY <1>2, <1>3 DEF TypeInv, EventInHand, Genesis
<1>5. \A f : InPlay(f) => f.hash # g.hash
  BY <1>2, <1>3 DEF IdInv, Written
<1>6. \A f : InPlay(f)' => InPlay(f) \/ f = g
  BY WritePlays
<1>7. HeadOf(frames').hash = g.hash
  BY <1>2, <1>3, HeadOfAppend DEF TypeInv, TypeOK
<1>8. \A i \in 1 .. Len(vault) : vault[i].hash \notin T \cup {g.hash}
  BY <1>1, <1>5 DEF Trail, InPlay, Among
<1>9. g.prev \in T
  BY <1>1, <1>2, <1>3 DEF Trail
<1>10. \A f : InPlay(f)' /\ f.hash \in T \cup {g.hash} /\ f.hash # e => f.prev \in T \cup {g.hash}
  BY <1>1, <1>5, <1>6, <1>9 DEF Trail
<1>11. PICK U : U = T \cup {g.hash}
  OBVIOUS
<1> HIDE DEF g
<1>12. Trail(e, U)'
  <2>1. e \in U /\ Genesis \notin U /\ head'.hash \in U /\ HeadOf(frames').hash \in U
    BY <1>1, <1>3, <1>4, <1>7, <1>11 DEF Trail
  <2>2. \A i \in 1 .. Len(vault') : vault'[i].hash \notin U
    BY <1>8, <1>11 DEF shipVars, vaultVars
  <2>3. \A f : InPlay(f)' /\ f.hash \in U /\ f.hash # e => f.prev \in U
    BY <1>10, <1>11
  <2>4. HeadOf(frames)' = HeadOf(frames')
    OBVIOUS
  <2> QED
    BY <2>1, <2>2, <2>3, <2>4 DEF Trail
<1> QED
  BY <1>12 DEF Trailed

(* An append that returns Ok starts one.                                   *)
LEMMA TrailStarts ==
    ASSUME TypeInv, LinkInv, NEW r \in Recorders, RenameHead(r), UNCHANGED shipVars,
           NEW e, e = event[r].id, ~ InVault(e)
    PROVE  InLog(e)' /\ Trailed(e)'
<1>1. /\ pc[r] = "rename" /\ head' = tmp /\ UNCHANGED frames /\ UNCHANGED vault
  BY DEF RenameHead, shipVars, vaultVars
<1>2. /\ frames # <<>> /\ tmp = HeadOf(frames)
      /\ HeadAt(Seal(event[r], link[r])) = HeadOf(frames)
  BY <1>1 DEF LinkInv, Written
<1>3. HeadOf(frames).hash = e
  BY <1>2 DEF HeadAt, Seal
<1>4. e # Genesis
  BY <1>1 DEF TypeInv, EventInHand, Genesis
<1>5. HeadOf(frames)' = HeadOf(frames)
  BY <1>1
<1>6. InLog(e)'
  BY <1>1, <1>2, <1>3, HeadOfFrames DEF InLog, HeadAt
<1>7. Trail(e, {e})'
  BY <1>1, <1>2, <1>3, <1>4, <1>5 DEF Trail, InVault
<1> QED
  BY <1>6, <1>7 DEF Trailed

(* Between prunes a step of a hook keeps every trail.                      *)
LEMMA LogKeepsTrails ==
    ASSUME TypeInv, IdInv, LinkInv, LogStep, UNCHANGED shipVars,
           NEW e, InLog(e), Trailed(e), ~ InVault(e)
    PROVE  InLog(e)' /\ Trailed(e)'
<1>1. ~ InVault(e)'
  BY DEF InVault, shipVars, vaultVars
<1>2. ASSUME UNCHANGED frames, head' \in {head, HeadOf(frames)} PROVE InLog(e)' /\ Trailed(e)'
  BY <1>1, <1>2, LogKeeps, TrailKept DEF InLog
<1>3. CASE Quiet
  BY <1>2, <1>3 DEF Quiet
<1>4. ASSUME NEW r \in Recorders,
             StartAppend(r) \/ ReadHead(r) \/ TakeLink(r) \/ Refuse(r) \/ WriteTmp(r) \/ FailAppend(r)
      PROVE  InLog(e)' /\ Trailed(e)'
  <2>1. UNCHANGED <<frames, head>>
    BY <1>4 DEF StartAppend, ReadHead, TakeLink, Refuse, WriteTmp, FailAppend, diskVars
  <2> QED
    BY <1>2, <2>1
<1>5. ASSUME NEW r \in Recorders, RenameHead(r) PROVE InLog(e)' /\ Trailed(e)'
  <2>1. UNCHANGED frames /\ head' = HeadOf(frames)
    BY <1>5 DEF RenameHead, LinkInv
  <2> QED
    BY <1>2, <2>1
<1>6. ASSUME NEW r \in Recorders, WriteFrame(r) PROVE InLog(e)' /\ Trailed(e)'
  <2>1. frames' = Append(frames, Seal(event[r], link[r])) /\ frames \in Seq(Frame)
    BY <1>6 DEF WriteFrame, TypeInv, TypeOK, Frame
  <2>2. PICK i \in 1 .. Len(frames) : frames[i].hash = e
    BY DEF InLog
  <2>3. i \in 1 .. Len(frames') /\ frames'[i] = frames[i]
    BY <2>1
  <2>4. InLog(e)'
    BY <2>2, <2>3 DEF InLog
  <2> QED
    BY <1>6, <2>4, TrailGrows
<1>7. [Next]_logVars
  BY DEF Next
<1> QED
  BY <1>3, <1>4, <1>5, <1>6, <1>7, QuietSteps DEF TypeInv

(* What is in the vault stays there, and only a rename acknowledges.       *)
LEMMA AckStep ==
    ASSUME TypeInv, RunsInv, PruneStep
    PROVE  /\ \A e : InVault(e) => InVault(e)'
           /\ \/ UNCHANGED acked
              \/ \E r \in Recorders : /\ RenameHead(r) /\ UNCHANGED shipVars
                                      /\ acked' = acked \cup {event[r].id}
<1>1. UNCHANGED shipVars => UNCHANGED vault
  BY DEF shipVars, vaultVars
<1>2. \A e : InVault(e) => InVault(e)'
  BY <1>1, Steps DEF Ships, Keeps, InVault
<1>3. CASE LogStep /\ UNCHANGED shipVars
  <2>1. [Next]_logVars
    BY <1>3 DEF Next
  <2>2. ASSUME NEW r \in Recorders,
               \/ StartAppend(r) \/ ReadHead(r) \/ TakeLink(r) \/ Refuse(r)
               \/ WriteFrame(r) \/ WriteTmp(r) \/ FailAppend(r)
        PROVE  UNCHANGED acked
    BY <2>2 DEF StartAppend, ReadHead, TakeLink, Refuse, WriteFrame, WriteTmp, FailAppend,
       recorderVars
  <2>3. ASSUME NEW r \in Recorders, RenameHead(r) PROVE acked' = acked \cup {event[r].id}
    BY <2>3 DEF RenameHead
  <2> QED
    BY <1>2, <1>3, <2>1, <2>2, <2>3, QuietSteps DEF TypeInv, Quiet
<1>4. CASE Ships
  BY <1>2, <1>4 DEF Ships, Quiet
<1>5. ASSUME NEW r \in Recorders, AppendLosesFiles(r) PROVE UNCHANGED acked
  BY <1>5 DEF AppendLosesFiles
<1>6. ASSUME NEW s \in Shippers, BeginPrune(s) \/ RemoveDir(s) \/ \E n \in Names : Unlink(s, n)
      PROVE  UNCHANGED acked
  BY <1>6 DEF BeginPrune, RemoveDir, Unlink, logVars, recorderVars
<1> QED
  BY <1>2, <1>3, <1>4, <1>5, <1>6, Steps

(* A hook with a frame in the log is exposed unless all is clean.          *)
LEMMA AtWork ==
    ASSUME IdInv, NEW r \in Recorders, pc[r] # "idle"
    PROVE  event[r].id \in InHand /\ (ExposedInv /\ ~ Clean => event[r].id \in exposed)
  BY DEF IdInv, InHand, NoEvent, ExposedInv

LEMMA KeptStep ==
    ASSUME TypeInv, IdInv, RunsInv, ExposedInv, CleanInv, KeptInv,
           IdInv', PruneNext
    PROVE  KeptInv'
<1> SUFFICES ASSUME NEW e, e \in acked', e \notin exposed', ~ InVault(e)'
             PROVE  Clean' /\ InLog(e)' /\ Trailed(e)'
  BY DEF KeptInv
<1>1. e \notin exposed /\ ~ InVault(e)
  BY ExposedStep, AckStep DEF PruneNext
<1>2. e \in acked => Clean /\ InLog(e) /\ Trailed(e)
  BY <1>1 DEF KeptInv
<1>3. ASSUME e \notin acked
      PROVE  \E r \in Recorders : RenameHead(r) /\ UNCHANGED shipVars /\ e = event[r].id
  BY <1>3, AckStep DEF PruneNext
<1>4. Clean
  <2>1. ASSUME NEW r \in Recorders, RenameHead(r), e = event[r].id, ~ Clean PROVE FALSE
    BY <1>1, <2>1, AtWork DEF RenameHead
  <2> QED
    BY <1>2, <1>3, <2>1
<1>5. ShipNext
  <2>1. ASSUME NEW s \in Shippers, BeginPrune(s) PROVE FALSE
    <3>1. e \in acked
      BY <2>1, AckStep, <1>3 DEF BeginPrune, logVars, recorderVars
    <3> QED
      BY <1>2, <2>1, <3>1, TrailPending DEF BeginPrune
  <2> QED
    BY <1>4, <2>1, CleanSteps DEF PruneNext
<1>6. Clean' /\ LinkInv
  BY <1>4, <1>5, ShipBeginsNone, StaysClean DEF Clean, CleanInv
<1>7. CASE e \in acked
  <2>1. CASE LogStep /\ UNCHANGED shipVars
    BY <1>1, <1>2, <1>6, <1>7, <2>1, LogKeepsTrails
  <2>2. CASE Ships
    BY <1>2, <1>6, <1>7, <2>2, TrailKept DEF Ships, Quiet, InLog
  <2>3. ASSUME NEW s \in Shippers, RemoveDir(s) \/ \E n \in Names : Unlink(s, n) PROVE FALSE
    BY <1>4, <2>3 DEF RemoveDir, Unlink, Clean, Pruning
  <2>4. ASSUME NEW r \in Recorders, AppendLosesFiles(r) PROVE FALSE
    BY <1>4, <2>4, CleanMissesNone
  <2>5. ASSUME NEW s \in Shippers, BeginPrune(s), Keeps, Misses
        PROVE  InLog(e)' /\ Trailed(e)'
    <3>1. UNCHANGED <<frames, head>>
      BY <2>5 DEF BeginPrune, logVars, diskVars
    <3> QED
      BY <1>2, <1>7, <2>5, <3>1, TrailKept DEF InLog
  <2> QED
    BY <1>6, <2>1, <2>2, <2>3, <2>4, <2>5, Steps DEF PruneNext
<1>8. CASE e \notin acked
  BY <1>1, <1>3, <1>6, <1>8, TrailStarts
<1> QED
  BY <1>7, <1>8

-----------------------------------------------------------------------------
(* The log's frames, while no append has died.                             *)

LEMMA AccountStep ==
    ASSUME TypeInv, IdInv, IdInv', RunsInv, ExposedInv, CleanInv, AccountInv, PruneNext
    PROVE  AccountInv'
<1> USE DEF Written
<1> DEFINE Owner(n) == n \in acked \cup exposed \/ \E r \in Recorders : pc[r] \in Written /\ event[r].id = n
<1>ty. /\ pc \in [Processes -> {"idle", "open", "flock", "events", "busy"} \cup Critical]
       /\ \A r \in Recorders : r \in Processes /\ r \notin Shippers
       /\ failures \in Nat
  BY ProcessesAssumption DEF TypeInv, TypeOK, Processes
<1>0. acked \subseteq acked' /\ exposed \subseteq exposed'
  BY AckStep, ExposedStep DEF PruneNext
<1>1. ASSUME \A f : Among(frames, f)' => Among(frames, f), failures' = 0 => failures = 0,
             \A n : failures' = 0 /\ Owner(n) => Owner(n)'
      PROVE  AccountInv'
  <2>1. ASSUME failures' = 0, NEW i \in 1 .. Len(frames'), NEW n, n = frames'[i].hash
        PROVE  Owner(n)'
    <3>1. PICK j \in 1 .. Len(frames) : frames[j] = frames'[i]
      BY <1>1 DEF Among
    <3> QED
      BY <1>1, <2>1, <3>1 DEF AccountInv
  <2> QED
    BY <2>1 DEF AccountInv
<1>2. ASSUME UNCHANGED <<frames, failures, event>>,
             \A r \in Recorders : pc[r] \in Written => pc'[r] \in Written
      PROVE  AccountInv'
  BY <1>0, <1>1, <1>2 DEF Among
<1>3. ASSUME NEW r \in Recorders, EndAppend(r), UNCHANGED frames, failures' = 0 => failures = 0,
             pc[r] \in Written /\ failures' = 0 => event[r].id \in acked' \cup exposed
      PROVE  AccountInv'
  <2>1. \A q \in Recorders \ {r} : pc'[q] = pc[q] /\ event'[q] = event[q]
    BY <1>ty, <1>3 DEF EndAppend, TypeInv, TypeOK
  <2>2. \A n : failures' = 0 /\ Owner(n) => Owner(n)'
    BY <1>0, <1>3, <2>1
  <2> QED
    BY <1>1, <1>3, <2>2 DEF Among
<1>4. CASE Quiet
  BY <1>2, <1>4 DEF Quiet
<1>5. ASSUME NEW r \in Recorders, StartAppend(r) PROVE AccountInv'
  <2>1. /\ pc[r] = "idle" /\ pc' = [pc EXCEPT ![r] = "open"] /\ UNCHANGED <<frames, failures>>
        /\ \A q \in Recorders \ {r} : event'[q] = event[q]
    BY <1>5 DEF StartAppend, TypeInv, TypeOK
  <2>2. \A n : Owner(n) => Owner(n)'
    BY <1>ty, <1>0, <2>1
  <2> QED
    BY <1>1, <2>1, <2>2 DEF Among
<1>6. ASSUME NEW r \in Recorders, ReadHead(r) \/ TakeLink(r) \/ WriteTmp(r) PROVE AccountInv'
  <2>1. UNCHANGED <<frames, failures, event>>
    BY <1>6 DEF ReadHead, TakeLink, WriteTmp, recorderVars, diskVars
  <2>2. \A q \in Recorders : pc[q] \in Written => pc'[q] \in Written
    BY <1>ty, <1>6 DEF ReadHead, TakeLink, WriteTmp
  <2> QED
    BY <1>2, <2>1, <2>2
<1>7. ASSUME NEW r \in Recorders, Refuse(r) PROVE AccountInv'
  BY <1>3, <1>7 DEF Refuse, diskVars
<1>8. ASSUME NEW r \in Recorders, RenameHead(r) PROVE AccountInv'
  BY <1>3, <1>8 DEF RenameHead
<1>9. ASSUME NEW r \in Recorders, FailAppend(r) PROVE AccountInv'
  <2>1. failures' # 0
    BY <1>ty, <1>9 DEF FailAppend
  <2> QED
    BY <2>1 DEF AccountInv
<1>10. ASSUME NEW r \in Recorders, AppendLosesFiles(r) PROVE AccountInv'
  <2>1. pc[r] # "idle" /\ EndAppend(r) /\ UNCHANGED <<frames, failures>>
    BY <1>10 DEF AppendLosesFiles, diskVars
  <2>2. ~ Clean
    BY <1>10, CleanMissesNone
  <2> QED
    BY <1>3, <2>1, <2>2, AtWork
<1>11. ASSUME NEW r \in Recorders, WriteFrame(r) PROVE AccountInv'
  <2>1. /\ pc' = [pc EXCEPT ![r] = "tmp"] /\ UNCHANGED <<event, failures>>
        /\ frames' = Append(frames, Seal(event[r], link[r])) /\ frames \in Seq(Frame)
    BY <1>11 DEF WriteFrame, recorderVars, TypeInv, TypeOK, Frame
  <2>2. \A n : Owner(n) => Owner(n)'
    BY <1>ty, <1>0, <2>1
  <2>3. \A i \in 1 .. Len(frames') :
            \/ i \in 1 .. Len(frames) /\ frames'[i] = frames[i]
            \/ frames'[i].hash = event[r].id
    BY <2>1 DEF Seal
  <2>4. pc'[r] \in Written
    BY <1>ty, <2>1
  <2> QED
    BY <2>1, <2>2, <2>3, <2>4 DEF AccountInv
<1>12. ASSUME NEW s \in Shippers, BeginPrune(s) \/ RemoveDir(s) \/ \E n \in Names : Unlink(s, n)
       PROVE  AccountInv'
  <2>1. UNCHANGED <<event, failures>> /\ (frames' = frames \/ frames' = <<>>)
    BY <1>12 DEF BeginPrune, RemoveDir, Unlink, logVars, diskVars, recorderVars
  <2>2. pc' = pc \/ pc' = [pc EXCEPT ![s] = "idle"]
    BY <1>12 DEF BeginPrune, RemoveDir, Unlink, logVars
  <2>3. \A r \in Recorders : pc'[r] = pc[r]
    BY <1>ty, <2>2
  <2>4. \A n : Owner(n) => Owner(n)'
    BY <1>0, <2>1, <2>3
  <2> QED
    BY <1>1, <2>1, <2>4 DEF Among
<1>13. LogStep => [Next]_logVars
  BY DEF Next
<1> QED
  BY <1>4, <1>5, <1>6, <1>7, <1>8, <1>9, <1>10, <1>11, <1>12, <1>13, Steps, QuietSteps
     DEF PruneNext, Ships, TypeInv

-----------------------------------------------------------------------------
(* The invariant holds.                                                    *)

LEMMA PruneStarts == PruneInit => PruneInv
<1> SUFFICES ASSUME PruneInit PROVE PruneInv
  OBVIOUS
<1>1. /\ InitLog /\ exposed = {} /\ frames = <<>> /\ events = 0 /\ acked = {} /\ late = {}
      /\ batches = {} /\ shipped = NoHead /\ key = NoKey /\ wraps = NoKey /\ keys = 0
      /\ vault = <<>> /\ ship = [s \in Shippers |-> Off]
      /\ pc = [p \in Processes |-> "idle"] /\ event = [r \in Recorders |-> NoEvent]
  BY DEF PruneInit, Init, InitLog
<1>2. TypeInv
  BY <1>1, TypeInit
<1>3. \A p \in Processes : pc[p] = "idle"
  BY <1>1
<1>4. /\ \A r \in Recorders : r \in Processes /\ event[r] = NoEvent
      /\ \A s \in Shippers : s \in Processes /\ ship[s] = Off
  BY <1>1 DEF Processes
<1>5. \A f : ~ InPlay(f)
  BY <1>1, <1>4 DEF InPlay, Among, Off
<1>6. IdInv
  BY <1>3, <1>4, <1>5 DEF IdInv
<1>7. HeldInv
  BY <1>3, <1>4 DEF HeldInv, Holds, Waits
<1>8. ExposedInv /\ CleanInv
  BY <1>1, <1>3, <1>4 DEF ExposedInv, CleanInv, Clean, InHand, LinkInv, Written, Waits, Pruning, Off
<1>9. RunsInv
  <2>1. Off \in Memory /\ <<>> \in Seq(Frame) /\ NoHead \in Heads /\ NoKey \in Nat
    BY OffType DEF Heads, NoKey
  <2>2. ShipTypeInv
    BY <1>1, <2>1 DEF ShipTypeInv
  <2>3. \A s \in Shippers : PushInv(s)
    BY <1>3, <1>4 DEF PushInv, Off, Pushing, NoAnswer, Vaulted
  <2> QED
    BY <1>1, <2>2, <2>3 DEF RunsInv, Vaulted
<1>10. KeptInv /\ AccountInv
  BY <1>1 DEF KeptInv, AccountInv
<1> QED
  BY <1>2, <1>6, <1>7, <1>8, <1>9, <1>10 DEF PruneInv

LEMMA PruneStutters == PruneInv /\ UNCHANGED allVars => PruneInv'
<1> SUFFICES ASSUME PruneInv, UNCHANGED allVars PROVE PruneInv'
  OBVIOUS
<1>1. /\ UNCHANGED <<dir, lockFile, frames, torn, tmp, head, inodes, held, pc, fd, event, link, walk,
                     report, events, acked, failures>>
      /\ UNCHANGED <<shipVars, exposed>>
  BY DEF allVars, vars, logVars, pruneVars, diskVars, kernelVars, recorderVars, verifierVars
<1>2. TypeInv'
  BY TypeStep DEF PruneInv, allVars, vars
<1>3. RunsInv'
  BY <1>1, RunsStay DEF PruneInv, RunsInv, PushInv, shipVars
<1>4. \A f : InPlay(f)' <=> InPlay(f)
  BY <1>1 DEF InPlay, Among, shipVars, vaultVars
<1>5. IdInv'
  BY <1>1, <1>4 DEF PruneInv, IdInv
<1>6. HeldInv'
  BY <1>1 DEF PruneInv, HeldInv, Holds, Pruning, shipVars
<1>7. (Clean' <=> Clean) /\ InHand' = InHand
  BY <1>1 DEF Clean, Pruning, InHand, shipVars
<1>8. ExposedInv' /\ CleanInv'
  BY <1>1, <1>7 DEF PruneInv, ExposedInv, CleanInv, LinkInv
<1>9. KeptInv'
  BY <1>1, <1>4, <1>7 DEF PruneInv, KeptInv, InVault, InLog, Trailed, Trail, shipVars, vaultVars
<1>10. AccountInv'
  BY <1>1 DEF PruneInv, AccountInv
<1> QED
  BY <1>2, <1>3, <1>5, <1>6, <1>8, <1>9, <1>10 DEF PruneInv

LEMMA PruneInvStep ==
    ASSUME PruneInv, [PruneNext]_allVars
    PROVE  PruneInv'
<1>1. CASE PruneNext
  <2>1. PruneStep
    BY <1>1 DEF PruneNext
  <2>2. TypeInv' /\ HeldInv' /\ IdInv' /\ RunsInv'
    BY <2>1, LogTyped, HeldStep, IdStep, Steps DEF PruneInv
  <2>3. ExposedInv' /\ CleanInv' /\ KeptInv' /\ AccountInv'
    BY <1>1, <2>2, ExposedStep, CleanStep, KeptStep, AccountStep DEF PruneInv
  <2> QED
    BY <2>2, <2>3 DEF PruneInv
<1> QED
  BY <1>1, PruneStutters

(* What hooks, runs and the vault keep while directories are removed under *)
(* them: numbered events, one holder per inode, one lock between prunes,   *)
(* the vault beginning at what `shipped` says, and a trail for every       *)
(* acknowledged event it lacks.                                            *)
THEOREM PruneInvariant == PruneSpec => []PruneInv
  BY PruneStarts, PruneInvStep, PTL DEF PruneSpec

(* `nd7 ship --prune-after` (finish) loses an event whose append returned  *)
(* Ok only when the append was under way during a prune, or beside one     *)
(* that was: every other is in the log or in the vault, whatever answers   *)
(* were lost, runs killed or appends cut short.                            *)
THEOREM LossHasCause == PruneSpec => []LossNeedsOverlap
<1>1. PruneInv => LossNeedsOverlap
  BY DEF PruneInv, KeptInv, LossNeedsOverlap
<1> QED
  BY <1>1, PruneInvariant, PTL

(* The frames a prune finds, while no append has died.                     *)
LEMMA BeginsHeld ==
    ASSUME PruneInv, NEW s \in Shippers, BeginPrune(s), failures = 0, NEW i \in 1 .. Len(frames)
    PROVE  InVault(frames[i].hash) \/ frames[i].hash \in exposed
<1> USE DEF PruneInv
<1>1. ASSUME frames[i].hash \in acked \ exposed PROVE InVault(frames[i].hash)
  BY <1>1, TrailPending DEF KeptInv, BeginPrune
<1>2. ASSUME NEW r \in Recorders, pc[r] \in Written, event[r].id = frames[i].hash
      PROVE  frames[i].hash \in exposed
  <2>1. pc[r] # "idle" /\ Holds(r) /\ Holds(s) /\ s \in Processes
    BY <1>2 DEF Written, Holds, BeginPrune, Processes
  <2>2. ~ Clean
    BY <2>1, CleanLock, Alone, ProcessesAssumption DEF Processes
  <2> QED
    BY <1>2, <2>1, <2>2, AtWork
<1> QED
  BY <1>1, <1>2 DEF AccountInv

(* finish's comment, "only a session the vault has every frame of": of the *)
(* log a prune removes, while no append has died, the vault has every      *)
(* frame but those of hooks that were beside an earlier prune.             *)
THEOREM PrunesHeld == PruneSpec => PrunesOnlyHeldUnlessDeath
<1>1. ASSUME PruneInv, [PruneNext]_allVars, Starts, failures = 0,
             NEW i \in 1 .. Len(frames)
      PROVE  InVault(frames[i].hash) \/ frames[i].hash \in exposed
  <2>1. ~ Pruning /\ Pruning'
    BY <1>1 DEF Starts
  <2>2. ASSUME UNCHANGED ship PROVE FALSE
    BY <2>1, <2>2 DEF Pruning
  <2>3. PruneStep
    BY <1>1, <2>2 DEF PruneNext, allVars, vars, shipVars
  <2>4. ASSUME NEW s \in Shippers, RemoveDir(s) \/ \E n \in Names : Unlink(s, n) PROVE FALSE
    BY <2>1, <2>4 DEF RemoveDir, Unlink, Pruning
  <2>5. ASSUME NEW r \in Recorders, AppendLosesFiles(r) PROVE FALSE
    BY <2>2, <2>5 DEF AppendLosesFiles, shipVars
  <2>6. PICK s \in Shippers : BeginPrune(s)
    BY <1>1, <2>1, <2>3, <2>4, <2>5, PruneSteps, ShipBeginsNone DEF PruneInv
  <2> QED
    BY <1>1, <2>6, BeginsHeld
<1>2. PruneInv /\ [PruneNext]_allVars =>
          [Starts /\ failures = 0 =>
              \A i \in 1 .. Len(frames) :
                  InVault(frames[i].hash) \/ frames[i].hash \in exposed]_allVars
  BY <1>1
<1> QED
  BY <1>2, PruneInvariant, PTL DEF PruneSpec, PrunesOnlyHeldUnlessDeath
=============================================================================
