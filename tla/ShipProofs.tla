----------------------------- MODULE ShipProofs -----------------------------
(***************************************************************************)
(* What Ship promises for any number of hooks and of ship runs, any kinds, *)
(* batch limit and bounds: shipping is invisible to the log, the vault     *)
(* holds the log's own beginning under one key, `shipped` names only what  *)
(* the vault holds, and a chain key is deleted only for a whole chain.     *)
(*                                                                         *)
(* Then, when a run stops a session and how `shipped` moves.  With any     *)
(* number of runs at once the only stop that a healthy log can meet is     *)
(* "diverged".  With one run at a time it meets none, and `shipped` only   *)
(* moves forward: ShipTwoRuns is where both stop being so.                 *)
(***************************************************************************)
EXTENDS Ship, SessionLogProofs, SequenceTheorems

-----------------------------------------------------------------------------
(* The log beneath.                                                        *)

(* A run touches the log's files only through its lock.                    *)
LEMMA ShipStepOfLog == [ShipNext]_vars => [Next]_logVars
<1> SUFFICES ASSUME [ShipNext]_vars PROVE [Next]_logVars
  OBVIOUS
<1>1. CASE LogStep
  BY <1>1 DEF Next
<1>2. ASSUME NEW s \in Shippers, ShipWants(s) \/ ShipperStep(s) PROVE Next
  BY <1>2 DEF Next
<1>3. ASSUME NEW s \in Shippers, RunStep(s) \/ KillRun(s) PROVE [Next]_logVars
  BY <1>2, <1>3 DEF RunStep, KillRun, WantsLock, OpensLock, TakesLock, ReadPending,
     StopOnVerdict, Send, TakeAnswer, WriteShipped, Recover, Finish, ShipperStep
<1>4. ASSUME NEW s \in Shippers, StartRun(s) \/ VaultAnswers(s) \/ Unreachable(s)
      PROVE  UNCHANGED logVars
  BY <1>4 DEF StartRun, VaultAnswers, Unreachable
<1>5. ASSUME NEW q \in late, LateArrival(q) PROVE UNCHANGED logVars
  BY <1>5 DEF LateArrival
<1>6. ASSUME UNCHANGED vars PROVE UNCHANGED logVars
  BY <1>6 DEF vars
<1> QED
  BY <1>1, <1>3, <1>4, <1>5, <1>6 DEF ShipNext

LEMMA ShipRunsLog == ShipSpec => Spec
<1>1. Init => InitLog
  BY DEF Init
<1> QED
  BY <1>1, ShipStepOfLog, PTL DEF ShipSpec, Spec

(* All that SessionLogProofs proves of the log holds of it beside ship     *)
(* runs.                                                                   *)
LogInv == TypeInv /\ LockInv /\ ChainInv /\ HeadInv /\ EventInv

LEMMA LogHolds == ShipSpec => []LogInv
  BY ShipRunsLog, HeadHolds, EventHolds, PTL DEF LogInv

(* The two readings of SessionLog, as the module Ship extends and as the   *)
(* instance its refinement names, are one.                                 *)
LEMMA SameInit == InitLog <=> Log!InitLog
  BY DEF InitLog, Log!InitLog, Processes, Log!Processes, NoFile, Log!NoFile, NoEvent,
         Log!NoEvent, NoHead, Log!NoHead, Genesis, Log!Genesis

LEMMA SameStep == Next <=> Log!Next
<1> USE DEF Log!diskVars, diskVars, Log!kernelVars, kernelVars, Log!recorderVars, recorderVars,
            Log!verifierVars, verifierVars, Log!NoFile, NoFile, Log!NoEvent, NoEvent,
            Log!NoHead, NoHead, Log!Genesis, Genesis
<1>heads. /\ \A f : Log!HeadAt(f) = HeadAt(f)
          /\ \A x : Log!HeadOf(x) = HeadOf(x)
          /\ \A e, at : Log!Seal(e, at) = Seal(e, at)
  BY DEF Log!HeadAt, HeadAt, Log!HeadOf, HeadOf, Log!Seal, Seal
<1>agrees. \A h, last : Log!HeadAgrees(h, last) = HeadAgrees(h, last)
  BY DEF Log!HeadAgrees, HeadAgrees
<1>link. \A h, x : Log!NextLink(h, x) = NextLink(h, x)
  BY <1>heads, <1>agrees DEF Log!NextLink, NextLink, Log!Repairable, Repairable
<1>walk. Log!WalkVerdict = WalkVerdict
  BY DEF Log!WalkVerdict, WalkVerdict, Log!VerifySegment, VerifySegment, Log!Linked, Linked,
         Log!FirstBreak, FirstBreak, Log!SeqFits, SeqFits, Log!PrevFits, PrevFits
<1>verdict. \A last : Log!HeadVerdict(last) = HeadVerdict(last)
  BY <1>agrees DEF Log!HeadVerdict, HeadVerdict
<1>lock. /\ \A p, mode : Log!Flock(p, mode) <=> Flock(p, mode)
         /\ \A p, next : Log!OpenLock(p, next) <=> OpenLock(p, next)
         /\ \A p : Log!Release(p) <=> Release(p)
  BY DEF Log!Flock, Flock, Log!CanLock, CanLock, Log!OpenLock, OpenLock, Log!Release, Release
<1>end. /\ \A r : Log!EndAppend(r) <=> EndAppend(r)
        /\ \A v, verdict : Log!EndVerify(v, verdict) <=> EndVerify(v, verdict)
  BY <1>lock DEF Log!EndAppend, EndAppend, Log!EndVerify, EndVerify
<1>1. ASSUME NEW r
      PROVE  /\ StartAppend(r) <=> Log!StartAppend(r)
             /\ AppendOpens(r) <=> Log!AppendOpens(r)
             /\ AppendLocks(r) <=> Log!AppendLocks(r)
             /\ ReadHead(r) <=> Log!ReadHead(r)
             /\ TakeLink(r) <=> Log!TakeLink(r)
             /\ Refuse(r) <=> Log!Refuse(r)
             /\ WriteFrame(r) <=> Log!WriteFrame(r)
             /\ WriteTmp(r) <=> Log!WriteTmp(r)
             /\ RenameHead(r) <=> Log!RenameHead(r)
             /\ FailAppend(r) <=> Log!FailAppend(r)
  BY <1>heads, <1>link, <1>lock, <1>end
     DEF Log!StartAppend, StartAppend, Log!AppendOpens, AppendOpens, Log!AppendLocks,
         AppendLocks, Log!ReadHead, ReadHead, Log!TakeLink, TakeLink, Log!Refuse, Refuse,
         Log!WriteFrame, WriteFrame, Log!WriteTmp, WriteTmp, Log!RenameHead, RenameHead,
         Log!FailAppend, FailAppend
<1>2. ASSUME NEW v
      PROVE  /\ StartVerify(v) <=> Log!StartVerify(v)
             /\ VerifyOpens(v) <=> Log!VerifyOpens(v)
             /\ VerifyLocks(v) <=> Log!VerifyLocks(v)
             /\ WalkFrames(v) <=> Log!WalkFrames(v)
             /\ CompareHead(v) <=> Log!CompareHead(v)
  BY <1>heads, <1>walk, <1>verdict, <1>lock, <1>end
     DEF Log!StartVerify, StartVerify, Log!VerifyOpens, VerifyOpens, Log!VerifyLocks,
         VerifyLocks, Log!WalkFrames, WalkFrames, Log!CompareHead, CompareHead
<1>3. ASSUME NEW p
      PROVE  /\ ShipWants(p) <=> Log!ShipWants(p)
             /\ ShipOpens(p) <=> Log!ShipOpens(p)
             /\ ShipLocks(p) <=> Log!ShipLocks(p)
             /\ ShipDrops(p) <=> Log!ShipDrops(p)
  BY <1>lock
     DEF Log!ShipWants, ShipWants, Log!ShipOpens, ShipOpens, Log!ShipLocks, ShipLocks,
         Log!ShipDrops, ShipDrops
<1> QED
  BY <1>1, <1>2, <1>3
     DEF Log!Next, Next, Log!LogStep, LogStep, Log!RecorderStep, RecorderStep,
         Log!VerifierStep, VerifierStep, Log!ShipperStep, ShipperStep

(* Shipping is invisible to the log: whatever a run does, the log's files, *)
(* its lock and its processes only ever take the steps of SessionLog.      *)
THEOREM ShippingIsInvisible == ShipSpec => ImplementsSessionLog
<1>1. InitLog => Log!InitLog
  BY SameInit
<1>2. [Next]_logVars => [Log!Next]_Log!logVars
  BY SameStep DEF logVars, Log!logVars, diskVars, Log!diskVars, kernelVars, Log!kernelVars,
                  recorderVars, Log!recorderVars, verifierVars, Log!verifierVars
<1> QED
  BY <1>1, <1>2, ShipRunsLog, PTL DEF Spec, ImplementsSessionLog, Log!Spec

-----------------------------------------------------------------------------
(* The invariant.                                                          *)

(* "prune" is a stage of module Prune only.                                *)
Stages == {"off", "pending", "send", "wait", "ack", "recover", "finish", "prune"}
Pushing == {"send", "wait", "ack", "recover"}
Frame == FrameOver(Kinds)
Answers == [status : {0, 200, 409, 422}, head : Heads]
Memory ==
    [stage : Stages, recover : BOOLEAN, after : Heads, run : Seq(Frame),
     cut : BOOLEAN, key : Nat, sent : Nat, answer : Answers]
Requests == [index : Seq(Frame), key : Nat]

ShipTypeInv ==
    /\ shipped \in Heads /\ key \in Nat /\ wraps \in Nat /\ keys \in Nat
    /\ ship \in [Shippers -> Memory]
    /\ vault \in Seq(Frame)
    /\ batches \subseteq Requests /\ late \subseteq Requests

(* x is made of frames of the log, h names a frame the vault holds.        *)
FromLog(x) ==
    \A i \in 1 .. Len(x) :
        x[i].seq + 1 \in 1 .. Len(frames) /\ x[i] = frames[x[i].seq + 1]
Vaulted(h) == h = NoHead \/ \E i \in 1 .. Len(vault) : h = HeadAt(vault[i])

(* The vault stores a dense chain of the log's frames, and so does a       *)
(* request that may still arrive.                                          *)
VaultInv ==
    /\ Linked(NoHead, vault) /\ FromLog(vault)
    /\ Vaulted(shipped)
    /\ \A q \in late : q.index # <<>> /\ FromLog(q.index)
    /\ \A b \in batches : Vaulted(HeadOf(b.index))

(* What a run holds between its lock work: frames of the log that continue *)
(* `after`, at least one of them still to send, and an answer that names   *)
(* what the vault held.                                                    *)
RunInv(s) ==
    /\ ship[s].stage \in Pushing =>
           /\ Vaulted(ship[s].after)
           /\ FromLog(ship[s].run) /\ Linked(ship[s].after, ship[s].run)
           /\ \/ ship[s].sent < Len(ship[s].run)
              \/ ship[s].stage = "send" /\ ship[s].cut
    /\ ship[s].answer = NoAnswer \/
           (ship[s].stage \in {"wait", "ack", "recover"} /\ ship[s].answer.status # 0)
    /\ Vaulted(ship[s].answer.head)
    /\ ship[s].stage = "ack" \/ (ship[s].stage = "wait" /\ ship[s].answer.status = 200) =>
           Vaulted(HeadAt(ship[s].run[BatchEnd(s)]))
    /\ ship[s].stage = "recover" => ship[s].answer.head # NoHead

(* There is one key: it is made for the first frames, before anything was  *)
(* shipped, and once it is gone something has been shipped.                *)
KeyInv ==
    /\ keys \in {0, 1} /\ key \in {NoKey, keys}
    /\ keys = 1 => key = 1 \/ shipped # NoHead
    /\ key # NoKey => head # NoHead
    /\ \A s \in Shippers : ship[s].stage \in Pushing => ship[s].key = 1
    /\ \A q \in late \cup batches : q.key = 1
    /\ vault # <<>> => wraps = 1
    /\ batches # {} => vault # <<>>

ShipInv == ShipTypeInv /\ VaultInv /\ (\A s \in Shippers : RunInv(s)) /\ KeyInv

-----------------------------------------------------------------------------
(* Chains of frames.                                                       *)

(* The log only grows, and `head` once written is never without a frame.   *)
LEMMA LogGrows ==
    ASSUME LogInv, [Next]_logVars
    PROVE  /\ frames \in Seq(Frame) /\ frames' \in Seq(Frame)
           /\ Len(frames) \in Nat /\ Len(frames') \in Nat /\ Len(frames) <= Len(frames')
           /\ \A i \in 1 .. Len(frames) : frames'[i] = frames[i]
           /\ head # NoHead => head' # NoHead
<1>1. frames \in Seq(Frame) /\ frames' \in Seq(Frame)
  BY TypeStep DEF LogInv, TypeInv, TypeOK, Frame
<1>2. ASSUME NEW r \in Recorders, WriteFrame(r)
      PROVE  /\ Len(frames) <= Len(frames')
             /\ \A i \in 1 .. Len(frames) : frames'[i] = frames[i]
             /\ head' = head
  <2>1. head' = head
    BY <1>2 DEF WriteFrame
  <2> QED
    BY <1>1, <1>2, <2>1, WriteExtends DEF LogInv
<1>3. ASSUME NEW r \in Recorders, RenameHead(r)
      PROVE  UNCHANGED frames /\ head' # NoHead
  BY <1>3 DEF RenameHead
<1>4. ASSUME NEW r \in Recorders,
             \/ StartAppend(r) \/ ReadHead(r) \/ TakeLink(r) \/ Refuse(r)
             \/ WriteTmp(r) \/ FailAppend(r)
      PROVE  UNCHANGED <<frames, head>>
  BY <1>4 DEF StartAppend, ReadHead, TakeLink, Refuse, WriteTmp, FailAppend, diskVars
<1>5. CASE Quiet
  BY <1>1, <1>5 DEF Quiet
<1> QED
  BY <1>1, <1>2, <1>3, <1>4, <1>5, QuietSteps DEF LogInv, TypeInv

(* A frame of a dense chain is found at its own number.                    *)
LEMMA LogIsNumbered ==
    ASSUME LogInv
    PROVE  /\ frames \in Seq(Frame) /\ Len(frames) \in Nat
           /\ Linked(NoHead, frames)
           /\ \A i \in 1 .. Len(frames) : frames[i] \in Frame /\ frames[i].seq = i - 1
<1>1. frames \in Seq(Frame) /\ Linked(NoHead, frames)
  BY DEF LogInv, TypeInv, TypeOK, ChainInv, DenseChain, Frame
<1>2. \A i \in 1 .. Len(frames) : frames[i].seq = i - 1
  BY <1>1, LastSeq DEF Frame
<1> QED
  BY <1>1, <1>2

(* What a run of frames continues and what continues its last frame make   *)
(* one run.                                                                *)
LEMMA LinkedConcat ==
    ASSUME NEW v \in Seq(Frame), NEW x \in Seq(Frame),
           Linked(NoHead, v), Linked(HeadOf(v), x)
    PROVE  v \o x \in Seq(Frame) /\ Linked(NoHead, v \o x)
<1> DEFINE w == v \o x
<1>1. /\ w \in Seq(Frame) /\ Len(w) = Len(v) + Len(x) /\ Len(v) \in Nat /\ Len(x) \in Nat
      /\ \A i \in 1 .. Len(v) : w[i] = v[i]
      /\ \A i \in 1 .. Len(x) : w[Len(v) + i] = x[i]
  BY ConcatProperties
<1>2. HeadOf(v).seq = Len(v) - 1
  BY LastSeq DEF Frame
<1> HIDE DEF w
<1>3. ASSUME NEW i \in 1 .. Len(v) PROVE SeqFits(NoHead, w, i) /\ PrevFits(NoHead, w, i)
  <2>1. SeqFits(NoHead, v, i) /\ PrevFits(NoHead, v, i)
    BY DEF Linked
  <2>2. i # 1 => i - 1 \in 1 .. Len(v)
    BY <1>1
  <2>3. w[i] = v[i] /\ (i # 1 => w[i - 1] = v[i - 1])
    BY <1>1, <2>2
  <2> QED
    BY <2>1, <2>3 DEF SeqFits, PrevFits
<1>4. ASSUME NEW i \in 1 .. Len(x)
      PROVE  SeqFits(NoHead, w, Len(v) + i) /\ PrevFits(NoHead, w, Len(v) + i)
  <2>1. x[i].seq = Len(v) - 1 + i /\ PrevFits(HeadOf(v), x, i)
    BY <1>2 DEF Linked, SeqFits
  <2>2. SeqFits(NoHead, w, Len(v) + i)
    BY <1>1, <2>1 DEF SeqFits, NoHead
  <2>3. CASE i = 1 /\ v = <<>>
    <3>1. Len(v) + i = 1 /\ w[1] = x[1]
      BY <1>1, <2>3
    <3> QED
      BY <2>1, <2>2, <2>3, <3>1 DEF PrevFits, HeadOf
  <2>4. CASE i = 1 /\ v # <<>>
    <3>1. Len(v) \in 1 .. Len(v) /\ Len(v) + 1 # 1
      BY <1>1, <2>4
    <3>2. HeadOf(v).hash = v[Len(v)].hash
      BY <2>4 DEF HeadOf, HeadAt
    <3>3. Len(v) + i - 1 = Len(v) /\ w[Len(v) + 1] = x[1] /\ w[Len(v)] = v[Len(v)]
      BY <1>1, <2>4, <3>1
    <3> QED
      BY <2>1, <2>2, <2>4, <3>1, <3>2, <3>3 DEF PrevFits
  <2>5. CASE i # 1
    <3>1. i - 1 \in 1 .. Len(x) /\ Len(v) + i # 1 /\ Len(v) + i - 1 = Len(v) + (i - 1)
      BY <1>1, <2>5
    <3>2. w[Len(v) + i] = x[i] /\ w[Len(v) + (i - 1)] = x[i - 1]
      BY <1>1, <3>1
    <3> QED
      BY <2>1, <2>2, <2>5, <3>1, <3>2 DEF PrevFits
  <2> QED
    BY <2>3, <2>4, <2>5
<1>5. ASSUME NEW i \in 1 .. Len(w) PROVE SeqFits(NoHead, w, i) /\ PrevFits(NoHead, w, i)
  <2>1. CASE i \in 1 .. Len(v)
    BY <1>3, <2>1
  <2>2. CASE i \notin 1 .. Len(v)
    <3>1. i - Len(v) \in 1 .. Len(x) /\ i = Len(v) + (i - Len(v))
      BY <1>1, <2>2
    <3> QED
      BY <1>4, <3>1
  <2> QED
    BY <2>1, <2>2
<1>6. w \in Seq(Frame) /\ Linked(NoHead, w)
  BY <1>1, <1>5 DEF Linked
<1> QED
  BY <1>6 DEF w

-----------------------------------------------------------------------------
(* What a run reads, and what it sends.                                    *)

(* `head` as it is when the log has m frames.                              *)
HeadAfter(m) == IF m = 0 THEN NoHead ELSE HeadAt(frames[m])
AtLog(h) == \E m \in 0 .. Len(frames) : h = HeadAfter(m)

LEMMA HeadAfterSeq ==
    ASSUME LogInv, NEW m \in 0 .. Len(frames)
    PROVE  HeadAfter(m).seq = m - 1 /\ HeadAfter(m) \in Heads
<1>1. CASE m = 0
  BY <1>1 DEF HeadAfter, NoHead, Heads
<1>2. CASE m # 0
  <2>1. m \in 1 .. Len(frames)
    BY <1>2
  <2>2. frames[m].seq = m - 1 /\ frames[m] \in Frame
    BY <2>1, LogIsNumbered
  <2> QED
    BY <1>2, <2>2 DEF HeadAfter, HeadAt, Heads, Frame, FrameOver
<1> QED
  BY <1>1, <1>2

LEMMA VaultedInLog ==
    ASSUME LogInv, FromLog(vault), NEW h, Vaulted(h)
    PROVE  AtLog(h)
<1>1. CASE h = NoHead
  BY <1>1, LogIsNumbered DEF AtLog, HeadAfter
<1>2. ASSUME NEW i \in 1 .. Len(vault), h = HeadAt(vault[i]) PROVE AtLog(h)
  <2>1. PICK m \in 1 .. Len(frames) : vault[i] = frames[m]
    BY DEF FromLog
  <2> QED
    BY <1>2, <2>1, LogIsNumbered DEF AtLog, HeadAfter
<1> QED
  BY <1>1, <1>2 DEF Vaulted

(* A stretch of a sequence.                                                *)
LEMMA Stretch ==
    ASSUME NEW x \in Seq(Frame), NEW m \in Nat, NEW n \in Nat, m <= n, n <= Len(x)
    PROVE  /\ SubSeq(x, m + 1, n) \in Seq(Frame) /\ Len(SubSeq(x, m + 1, n)) = n - m
           /\ \A i \in 1 .. n - m : SubSeq(x, m + 1, n)[i] = x[m + i]
<1>1. \A i \in m + 1 .. n : x[i] \in Frame
  OBVIOUS
<1>2. /\ SubSeq(x, m + 1, n) \in Seq(Frame)
      /\ Len(SubSeq(x, m + 1, n)) = IF m + 1 <= n THEN n - (m + 1) + 1 ELSE 0
      /\ \A i \in 1 .. n - (m + 1) + 1 : SubSeq(x, m + 1, n)[i] = x[(m + 1) + i - 1]
  BY <1>1, SubSeqProperties, SMTT(30)
<1> QED
  BY <1>2

(* The log's frames from one of them on continue it.                       *)
LEMMA TailLinked ==
    ASSUME LogInv, NEW m \in 0 .. Len(frames),
           NEW x, x = SubSeq(frames, m + 1, Len(frames))
    PROVE  /\ x \in Seq(Frame) /\ Len(x) = Len(frames) - m
           /\ \A i \in 1 .. Len(x) : x[i] = frames[m + i]
           /\ FromLog(x) /\ Linked(HeadAfter(m), x)
<1>log. /\ frames \in Seq(Frame) /\ Len(frames) \in Nat /\ Linked(NoHead, frames)
        /\ \A i \in 1 .. Len(frames) : frames[i].seq = i - 1
  BY LogIsNumbered
<1>1. /\ x \in Seq(Frame) /\ Len(x) = Len(frames) - m
      /\ \A i \in 1 .. Len(x) : x[i] = frames[m + i]
  BY <1>log, Stretch
<1>2. \A i \in 1 .. Len(x) : m + i \in 1 .. Len(frames)
  BY <1>log, <1>1
<1>3. \A i \in 1 .. Len(x) : x[i].seq = m + i - 1
  BY <1>log, <1>1, <1>2
<1>4. FromLog(x)
  <2>1. \A i \in 1 .. Len(x) : x[i].seq + 1 = m + i
    BY <1>log, <1>1, <1>3
  <2> QED
    BY <1>1, <1>2, <2>1 DEF FromLog
<1>5. ASSUME NEW i \in 1 .. Len(x)
      PROVE  SeqFits(HeadAfter(m), x, i) /\ PrevFits(HeadAfter(m), x, i)
  <2>1. SeqFits(HeadAfter(m), x, i)
    <3>1. HeadAfter(m).seq = m - 1
      BY HeadAfterSeq
    <3>2. x[i].seq = m + i - 1
      BY <1>3
    <3>3. m \in Int /\ i \in Int
      BY <1>log, <1>1
    <3>4. HeadAfter(m).seq + i = x[i].seq
      BY <3>1, <3>2, <3>3
    <3> QED
      BY <3>4 DEF SeqFits
  <2>2. PrevFits(NoHead, frames, m + i) /\ x[i] = frames[m + i]
    BY <1>log, <1>1, <1>2 DEF Linked
  <2>3. CASE i # 1
    <3>1. i - 1 \in 1 .. Len(x) /\ m + (i - 1) = m + i - 1 /\ m + i # 1
      BY <1>log, <1>1, <2>3
    <3>2. x[i - 1] = frames[m + i - 1]
      BY <1>1, <3>1
    <3> QED
      BY <2>1, <2>2, <2>3, <3>1, <3>2 DEF PrevFits
  <2>4. CASE i = 1 /\ m = 0
    BY <2>1, <2>2, <2>4 DEF PrevFits, HeadAfter
  <2>5. CASE i = 1 /\ m # 0
    <3>1. m + i # 1 /\ m + i - 1 = m
      BY <2>5
    <3> QED
      BY <2>1, <2>2, <2>5, <3>1 DEF PrevFits, HeadAfter, HeadAt
  <2> QED
    BY <2>3, <2>4, <2>5
<1> QED
  BY <1>1, <1>4, <1>5 DEF Linked

(* read_pending finds the line `shipped` names, and what follows it is the *)
(* log from there on.                                                      *)
LEMMA RegionIsTail ==
    ASSUME LogInv, NEW m \in 0 .. Len(frames), shipped = HeadAfter(m)
    PROVE  /\ shipped # NoHead => Carrying(shipped.seq) # {}
           /\ Region = SubSeq(frames, m + 1, Len(frames))
<1>1. shipped.seq = m - 1
  BY HeadAfterSeq
<1>2. CASE m = 0
  BY <1>2, LogIsNumbered, SubSeqFull DEF Region, HeadAfter
<1>3. CASE m # 0
  <2>1. m \in 1 .. Len(frames) /\ shipped # NoHead
    BY <1>1, <1>3 DEF NoHead
  <2>2. Carrying(shipped.seq) = {m}
    BY <1>1, <2>1, LogIsNumbered DEF Carrying
  <2>3. (CHOOSE i \in {m} : \A j \in {m} : j <= i) = m
    OBVIOUS
  <2>4. AfterSeq(shipped.seq) = SubSeq(frames, 1 + m, Len(frames))
    BY <2>2, <2>3 DEF AfterSeq
  <2> QED
    BY <2>1, <2>2, <2>4 DEF Region
<1> QED
  BY <1>2, <1>3

(* A batch is a linked run of frames of the log, and not empty.            *)
LEMMA BatchIsLinked ==
    ASSUME ShipTypeInv, NEW s \in Shippers, ship[s].sent < Len(ship[s].run),
           FromLog(ship[s].run), Linked(ship[s].after, ship[s].run)
    PROVE  LET run == ship[s].run
               sent == ship[s].sent
               x == Batch(s).index
           IN  /\ BatchEnd(s) \in sent + 1 .. Len(run)
               /\ Batch(s) \in Requests /\ Batch(s).key = ship[s].key
               /\ Len(x) = BatchEnd(s) - sent /\ x # <<>>
               /\ \A i \in 1 .. Len(x) : x[i] = run[sent + i]
               /\ FromLog(x) /\ HeadOf(x) = HeadAt(run[BatchEnd(s)])
               /\ Linked(IF sent = 0 THEN ship[s].after ELSE HeadAt(run[sent]), x)
<1> DEFINE run == ship[s].run
           sent == ship[s].sent
           after == ship[s].after
           x == Batch(s).index
           at == IF sent = 0 THEN after ELSE HeadAt(run[sent])
<1>ty. /\ run \in Seq(Frame) /\ Len(run) \in Nat /\ sent \in Nat /\ ship[s].key \in Nat
       /\ after \in Heads /\ after.seq \in Int /\ BatchLimit \in Nat \ {0}
  BY ShipAssumption DEF ShipTypeInv, Memory, Heads, NoHead
<1>1. BatchEnd(s) \in sent + 1 .. Len(run)
  BY <1>ty DEF BatchEnd
<1>2. x = SubSeq(run, sent + 1, BatchEnd(s)) /\ Batch(s).key = ship[s].key
  BY DEF Batch
<1>3. /\ x \in Seq(Frame) /\ Len(x) = BatchEnd(s) - sent
      /\ \A i \in 1 .. Len(x) : x[i] = run[sent + i]
  <2> DEFINE n == BatchEnd(s)
  <2>1. n \in Nat /\ sent <= n /\ n <= Len(run)
    BY <1>ty, <1>1
  <2> HIDE DEF n, run, sent, x
  <2>2. x \in Seq(Frame) /\ Len(x) = n - sent /\ \A i \in 1 .. n - sent : x[i] = run[sent + i]
    BY <1>ty, <1>2, <2>1, Stretch DEF n
  <2> QED
    BY <2>2 DEF n
<1>4. Batch(s) \in Requests
  BY <1>ty, <1>2, <1>3 DEF Batch, Requests
<1>lnk. Linked(after, run) /\ FromLog(run)
  OBVIOUS
<1> HIDE DEF x, run, sent, after
<1>5. x # <<>> /\ Len(x) \in 1 .. Len(x) /\ sent + Len(x) = BatchEnd(s)
  BY <1>ty, <1>1, <1>3
<1>6. HeadOf(x) = HeadAt(run[BatchEnd(s)])
  BY <1>3, <1>5 DEF HeadOf
<1>7. \A i \in 1 .. Len(x) : sent + i \in 1 .. Len(run)
  BY <1>ty, <1>1, <1>3
<1>8. FromLog(x)
  BY <1>3, <1>7, <1>lnk DEF FromLog
<1>9. ASSUME NEW i \in 1 .. Len(x) PROVE SeqFits(at, x, i) /\ PrevFits(at, x, i)
  <2>1. SeqFits(after, run, sent + i) /\ PrevFits(after, run, sent + i)
    BY <1>7, <1>lnk DEF Linked
  <2>2. x[i] = run[sent + i]
    BY <1>3
  <2>3. CASE sent = 0
    <3>1. sent + i = i /\ at = after /\ (i # 1 => i - 1 \in 1 .. Len(x))
      BY <1>3, <1>5, <2>3
    <3>2. i # 1 => x[i - 1] = run[sent + i - 1]
      BY <1>3, <2>3, <3>1
    <3> QED
      BY <2>1, <2>2, <2>3, <3>1, <3>2 DEF SeqFits, PrevFits
  <2>4. CASE sent # 0
    <3>1. sent \in 1 .. Len(run) /\ at = HeadAt(run[sent]) /\ sent + i # 1
      BY <1>ty, <1>1, <2>4
    <3>2. run[sent].seq = after.seq + sent
      BY <3>1, <1>lnk DEF Linked, SeqFits
    <3>3. SeqFits(at, x, i)
      BY <1>ty, <2>1, <2>2, <3>1, <3>2 DEF SeqFits, HeadAt
    <3>4. PrevFits(at, x, i)
      <4>1. CASE i = 1
        <5>1. sent + i - 1 = sent
          BY <1>ty, <4>1
        <5> QED
          BY <2>1, <2>2, <3>1, <4>1, <5>1 DEF PrevFits, HeadAt
      <4>2. CASE i # 1
        <5>1. i - 1 \in 1 .. Len(x) /\ sent + (i - 1) = sent + i - 1
          BY <1>ty, <1>3, <4>2
        <5>2. x[i - 1] = run[sent + i - 1]
          BY <1>3, <5>1
        <5> HIDE DEF at
        <5> QED
          BY <2>1, <2>2, <3>1, <4>2, <5>2 DEF PrevFits
      <4> QED
        BY <4>1, <4>2
    <3> QED
      BY <3>3, <3>4
  <2> QED
    BY <2>3, <2>4
<1>10. Linked(at, x)
  BY <1>9 DEF Linked
<1> QED
  BY <1>1, <1>2, <1>3, <1>4, <1>5, <1>6, <1>8, <1>10 DEF x, run, sent, after

-----------------------------------------------------------------------------
(* The vault.                                                              *)

(* What the vault answers 200 to, it holds.                                *)
LEMMA VaultTakesGood ==
    ASSUME LogInv, ShipTypeInv, VaultInv, KeyInv, UNCHANGED frames,
           NEW q \in Requests, q.index # <<>>, FromLog(q.index), q.key = 1, VaultTakes(q)
    PROVE  /\ vault' \in Seq(Frame) /\ batches' \subseteq Requests /\ wraps' \in Nat
           /\ Linked(NoHead, vault') /\ FromLog(vault)'
           /\ \A h : Vaulted(h) => Vaulted(h)'
           /\ Vaulted(HeadOf(vault))'
           /\ \A b \in batches' : Vaulted(HeadOf(b.index))' /\ b.key = 1
           /\ vault' # <<>> => wraps' = 1
           /\ batches' # {} => vault' # <<>>
           /\ Status(q) = 200 => Vaulted(HeadOf(q.index))'
           /\ Status(q) \in {200, 409, 422}
<1> DEFINE x == q.index
<1>ty. /\ x \in Seq(Frame) /\ Len(x) \in Nat /\ vault \in Seq(Frame) /\ Len(vault) \in Nat
       /\ batches \subseteq Requests /\ wraps \in Nat
  BY DEF Requests, ShipTypeInv
<1>status. Status(q) \in {200, 409, 422}
  BY DEF Status
<1>1. CASE ~ Accepts(q)
  <2>1. UNCHANGED <<vault, batches, wraps>>
    BY <1>1 DEF VaultTakes, vaultVars
  <2>2. Vaulted(HeadOf(vault))
    BY <1>ty DEF Vaulted, HeadOf
  <2>3. Status(q) = 200 => Vaulted(HeadOf(x))
    BY <1>1 DEF Status, Stored, VaultInv
  <2>4. \A h : Vaulted(h) => Vaulted(h)'
    BY <2>1 DEF Vaulted
  <2>5. FromLog(vault)' /\ Linked(NoHead, vault')
    BY <2>1 DEF VaultInv, FromLog
  <2> QED
    BY <1>ty, <1>status, <2>1, <2>2, <2>3, <2>4, <2>5 DEF VaultInv, KeyInv
<1>2. CASE Accepts(q)
  <2>1. /\ vault' = vault \o x /\ batches' = batches \cup {q}
        /\ wraps' = IF x[1].seq = 0 THEN q.key ELSE wraps
    BY <1>2 DEF VaultTakes
  <2>2. Linked(HeadOf(vault), x) /\ Linked(NoHead, vault)
    BY <1>2 DEF Accepts, VaultInv
  <2>3. vault' \in Seq(Frame) /\ Linked(NoHead, vault')
    BY <1>ty, <2>1, <2>2, LinkedConcat
  <2>4. /\ Len(vault') = Len(vault) + Len(x)
        /\ \A i \in 1 .. Len(vault) : vault'[i] = vault[i]
        /\ \A i \in 1 .. Len(x) : vault'[Len(vault) + i] = x[i]
    BY <1>ty, <2>1, ConcatProperties
  <2>5. \A h : Vaulted(h) => Vaulted(h)'
    <3>1. \A i \in 1 .. Len(vault) : i \in 1 .. Len(vault')
      BY <1>ty, <2>4
    <3> QED
      BY <2>4, <3>1 DEF Vaulted
  <2>6. FromLog(vault)'
    <3>1. ASSUME NEW i \in 1 .. Len(vault')
          PROVE  vault'[i].seq + 1 \in 1 .. Len(frames) /\ vault'[i] = frames[vault'[i].seq + 1]
      <4>1. CASE i \in 1 .. Len(vault)
        BY <2>4, <4>1 DEF VaultInv, FromLog
      <4>2. CASE i \notin 1 .. Len(vault)
        <5>1. i - Len(vault) \in 1 .. Len(x) /\ i = Len(vault) + (i - Len(vault))
          BY <1>ty, <2>4, <4>2
        <5>2. vault'[i] = x[i - Len(vault)]
          BY <2>4, <5>1
        <5> QED
          BY <5>1, <5>2 DEF FromLog
      <4> QED
        BY <4>1, <4>2
    <3> QED
      BY <3>1 DEF FromLog
  <2>7. vault' # <<>> /\ HeadOf(vault') = HeadOf(x)
    <3>1. x # <<>> /\ Len(x) \in 1 .. Len(x)
      BY <1>ty
    <3>2. vault' # <<>> /\ Len(vault') = Len(vault) + Len(x)
      BY <1>ty, <2>3, <2>4, <3>1
    <3>3. vault'[Len(vault')] = x[Len(x)]
      BY <2>4, <3>1, <3>2
    <3> QED
      BY <3>1, <3>2, <3>3 DEF HeadOf
  <2>8. Vaulted(HeadOf(vault))'
    <3>1. HeadOf(vault') = HeadAt(vault'[Len(vault')]) /\ Len(vault') \in 1 .. Len(vault')
      BY <2>3, <2>7 DEF HeadOf
    <3> QED
      BY <3>1 DEF Vaulted
  <2>9. \A b \in batches' : Vaulted(HeadOf(b.index))' /\ b.key = 1
    BY <2>1, <2>5, <2>7, <2>8 DEF VaultInv, KeyInv
  <2>10. wraps' = 1
    <3>1. CASE vault = <<>>
      <4>1. x[1].seq = 0
        <5>1. 1 \in 1 .. Len(x)
          BY <1>ty
        <5>2. SeqFits(NoHead, x, 1)
          BY <2>2, <3>1, <5>1 DEF Linked, HeadOf
        <5> QED
          BY <5>2 DEF SeqFits, NoHead
      <4> QED
        BY <2>1, <4>1
    <3>2. CASE vault # <<>>
      BY <2>1, <3>2 DEF KeyInv
    <3> QED
      BY <3>1, <3>2
  <2> QED
    BY <1>ty, <1>status, <2>1, <2>3, <2>5, <2>6, <2>7, <2>8, <2>9, <2>10
<1> QED
  BY <1>1, <1>2

-----------------------------------------------------------------------------
(* The steps of a run.                                                     *)

LEMMA OffType ==
    /\ NoAnswer \in Answers
    /\ Off \in Memory
    /\ [Off EXCEPT !.stage = "pending", !.recover = TRUE] \in Memory
    /\ [Off EXCEPT !.stage = "pending"] \in Memory
<1>1. NoAnswer \in Answers
  BY DEF NoAnswer, Answers, Heads
<1>2. NoHead \in Heads /\ <<>> \in Seq(Frame) /\ NoKey \in Nat
  BY DEF Heads, NoKey
<1>3. Off \in Memory
  BY <1>1, <1>2 DEF Off, Memory, Stages
<1>4. ASSUME NEW m \in Memory, NEW st \in Stages PROVE [m EXCEPT !.stage = st] \in Memory
  BY DEF Memory
<1>5. ASSUME NEW m \in Memory PROVE [m EXCEPT !.recover = TRUE] \in Memory
  BY DEF Memory
<1>6. [Off EXCEPT !.stage = "pending"] \in Memory
  BY <1>3, <1>4 DEF Stages
<1> QED
  BY <1>1, <1>3, <1>5, <1>6

(* A run that has nothing in hand promises nothing.                        *)
LEMMA NothingInHand ==
    ASSUME NEW s \in Shippers, ship'[s].stage \notin Pushing, ship'[s].answer = NoAnswer
    PROVE  RunInv(s)' /\ (ship'[s].stage \in Pushing => ship'[s].key = 1)
  BY DEF RunInv, Pushing, NoAnswer, Vaulted

(* What a run holds stays true while it does not move itself.              *)
LEMMA RunKept ==
    ASSUME NEW t \in Shippers, RunInv(t), ship'[t] = ship[t],
           \A h : Vaulted(h) => Vaulted(h)', \A x : FromLog(x) => FromLog(x)'
    PROVE  RunInv(t)'
<1>1. BatchEnd(t)' = BatchEnd(t)
  BY DEF BatchEnd
<1> QED
  BY <1>1 DEF RunInv

LEMMA FromLogStays ==
    ASSUME LogInv, [Next]_logVars
    PROVE  \A x : FromLog(x) => FromLog(x)'
<1>1. /\ Len(frames) \in Nat /\ Len(frames') \in Nat /\ Len(frames) <= Len(frames')
      /\ \A i \in 1 .. Len(frames) : frames'[i] = frames[i]
  BY LogGrows
<1>2. \A k \in 1 .. Len(frames) : k \in 1 .. Len(frames') /\ frames'[k] = frames[k]
  BY <1>1
<1> QED
  BY <1>2 DEF FromLog

(* A step of the log, or of a run's lock.                                  *)
LEMMA LogMoves ==
    ASSUME LogInv, ShipInv, [Next]_logVars, UNCHANGED shipVars
    PROVE  ShipInv'
<1> USE DEF shipVars, vaultVars
<1>1. \A x : FromLog(x) => FromLog(x)'
  BY FromLogStays
<1>2. \A h : Vaulted(h) => Vaulted(h)'
  BY DEF Vaulted
<1>3. VaultInv'
  BY <1>1, <1>2 DEF ShipInv, VaultInv
<1>4. \A t \in Shippers : RunInv(t)'
  BY <1>1, <1>2, RunKept DEF ShipInv
<1>5. KeyInv'
  BY LogGrows DEF ShipInv, KeyInv
<1>6. ShipTypeInv'
  BY DEF ShipInv, ShipTypeInv
<1> QED
  BY <1>3, <1>4, <1>5, <1>6 DEF ShipInv

(* A step of a run that leaves the vault alone.                            *)
LEMMA RunMoves ==
    ASSUME ShipInv, NEW s \in Shippers, UNCHANGED <<frames, head, vaultVars>>,
           ship' \in [Shippers -> Memory], \A t \in Shippers \ {s} : ship'[t] = ship[t],
           RunInv(s)', ship'[s].stage \in Pushing => ship'[s].key = 1,
           \A q \in late' : q \in late \/ (q = Batch(s) /\ ship[s].stage = "wait"),
           shipped' \in Heads, Vaulted(shipped'), shipped # NoHead => shipped' # NoHead,
           keys' \in {0, 1}, key' \in {NoKey, keys'},
           keys' = 1 => key' = 1 \/ shipped' # NoHead, key' # NoKey => head # NoHead
    PROVE  ShipInv'
<1> USE DEF vaultVars
<1>1. \A x : FromLog(x) => FromLog(x)'
  BY DEF FromLog
<1>2. \A h : Vaulted(h) => Vaulted(h)'
  BY DEF Vaulted
<1>3. \A t \in Shippers : RunInv(t)'
  BY <1>1, <1>2, RunKept DEF ShipInv
<1>4. ASSUME NEW q \in late'
      PROVE  q \in Requests /\ q.index # <<>> /\ FromLog(q.index) /\ q.key = 1
  <2>1. CASE q \in late
    BY <2>1 DEF ShipInv, ShipTypeInv, VaultInv, KeyInv
  <2>2. CASE q = Batch(s) /\ ship[s].stage = "wait"
    <3>1. /\ ShipTypeInv /\ ship[s].sent < Len(ship[s].run) /\ ship[s].key = 1
          /\ FromLog(ship[s].run) /\ Linked(ship[s].after, ship[s].run)
      BY <2>2 DEF ShipInv, RunInv, KeyInv, Pushing
    <3> QED
      BY <2>2, <3>1, BatchIsLinked
  <2> QED
    BY <1>4, <2>1, <2>2
<1>5. VaultInv'
  <2>1. Vaulted(shipped)'
    BY DEF Vaulted
  <2>2. \A q \in late' : q.index # <<>> /\ FromLog(q.index)'
    BY <1>1, <1>4
  <2>3. FromLog(vault)' /\ Linked(NoHead, vault')
    BY DEF ShipInv, VaultInv, FromLog
  <2>4. \A b \in batches' : Vaulted(HeadOf(b.index))'
    BY <1>2 DEF ShipInv, VaultInv
  <2> QED
    BY <2>1, <2>2, <2>3, <2>4 DEF VaultInv
<1>6. KeyInv'
  <2>1. \A t \in Shippers : ship'[t].stage \in Pushing => ship'[t].key = 1
    BY DEF ShipInv, KeyInv
  <2>2. \A q \in late' \cup batches' : q.key = 1
    BY <1>4 DEF ShipInv, KeyInv
  <2>3. (vault' # <<>> => wraps' = 1) /\ (batches' # {} => vault' # <<>>)
    BY DEF ShipInv, KeyInv
  <2> QED
    BY <2>1, <2>2, <2>3 DEF KeyInv
<1>7. ShipTypeInv'
  <2>1. key' \in Nat /\ keys' \in Nat
    BY DEF NoKey
  <2> QED
    BY <1>4, <2>1 DEF ShipInv, ShipTypeInv
<1> QED
  BY <1>3, <1>5, <1>6, <1>7 DEF ShipInv

(* A step in which a request reaches the vault.                            *)
LEMMA VaultMoves ==
    ASSUME LogInv, ShipInv, UNCHANGED <<frames, head, shipped, key, keys>>,
           NEW q \in Requests, q.index # <<>>, FromLog(q.index), q.key = 1, VaultTakes(q),
           late' \subseteq late, ship' \in [Shippers -> Memory],
           \A t \in Shippers :
               ship'[t] = ship[t] \/ (RunInv(t)' /\ ship'[t].key = ship[t].key
                                     /\ ship'[t].stage = ship[t].stage)
    PROVE  ShipInv'
<1>1. \A x : FromLog(x) => FromLog(x)'
  BY DEF FromLog
<1>2. /\ vault' \in Seq(Frame) /\ batches' \subseteq Requests /\ wraps' \in Nat
      /\ Linked(NoHead, vault') /\ FromLog(vault)'
      /\ \A h : Vaulted(h) => Vaulted(h)'
      /\ \A b \in batches' : Vaulted(HeadOf(b.index))' /\ b.key = 1
      /\ vault' # <<>> => wraps' = 1
      /\ batches' # {} => vault' # <<>>
  BY VaultTakesGood DEF ShipInv
<1>3. \A t \in Shippers : RunInv(t)'
  BY <1>1, <1>2, RunKept DEF ShipInv
<1>4. VaultInv'
  BY <1>1, <1>2 DEF ShipInv, VaultInv
<1>5. KeyInv'
  BY <1>2 DEF ShipInv, KeyInv
<1>6. ShipTypeInv'
  BY <1>2 DEF ShipInv, ShipTypeInv
<1> QED
  BY <1>3, <1>4, <1>5, <1>6 DEF ShipInv

(* A run that ends, or begins again, with its memory cleared.              *)
LEMMA RunClears ==
    ASSUME ShipInv, NEW s \in Shippers, UNCHANGED <<frames, head, vaultVars, keys>>,
           NEW m \in Memory, m.stage \notin Pushing, m.answer = NoAnswer,
           ship' = [ship EXCEPT ![s] = m],
           \A q \in late' : q \in late \/ (q = Batch(s) /\ ship[s].stage = "wait"),
           shipped' \in Heads, Vaulted(shipped'), shipped # NoHead => shipped' # NoHead,
           key' = key \/ (key' = NoKey /\ shipped' # NoHead)
    PROVE  ShipInv'
<1>1. ship' \in [Shippers -> Memory] /\ ship'[s] = m
  BY DEF ShipInv, ShipTypeInv
<1>2. RunInv(s)' /\ (ship'[s].stage \in Pushing => ship'[s].key = 1)
  BY <1>1, NothingInHand
<1>3. /\ keys' \in {0, 1} /\ key' \in {NoKey, keys'}
      /\ keys' = 1 => key' = 1 \/ shipped' # NoHead
      /\ key' # NoKey => head # NoHead
  BY DEF ShipInv, KeyInv
<1> QED
  BY <1>1, <1>2, <1>3, RunMoves

(* A run that goes on to another stage.                                    *)
LEMMA RunGoes ==
    ASSUME ShipInv, NEW s \in Shippers,
           UNCHANGED <<frames, head, shipped, key, keys, vaultVars, late>>,
           NEW stage \in Stages, ship' = [ship EXCEPT ![s].stage = stage],
           RunInv(s)', stage \in Pushing => ship[s].stage \in Pushing
    PROVE  ShipInv'
<1>1. ship[s] \in Memory /\ shipped \in Heads /\ Vaulted(shipped)
  BY DEF ShipInv, ShipTypeInv, VaultInv
<1>2. [ship[s] EXCEPT !.stage = stage] \in Memory
  BY <1>1 DEF Memory
<1>3. /\ ship' \in [Shippers -> Memory]
      /\ \A t \in Shippers \ {s} : ship'[t] = ship[t]
      /\ ship'[s] = [ship[s] EXCEPT !.stage = stage]
  BY <1>2 DEF ShipInv, ShipTypeInv
<1>4. ship'[s].stage = stage /\ ship'[s].key = ship[s].key
  BY <1>1, <1>3 DEF Memory
<1>5. ship'[s].stage \in Pushing => ship'[s].key = 1
  BY <1>4 DEF ShipInv, KeyInv
<1>6. /\ keys' \in {0, 1} /\ key' \in {NoKey, keys'}
      /\ keys' = 1 => key' = 1 \/ shipped' # NoHead
      /\ key' # NoKey => head # NoHead
  BY DEF ShipInv, KeyInv
<1> QED
  BY <1>1, <1>3, <1>5, <1>6, RunMoves

LEMMA AbandonedIsOurs ==
    ASSUME NEW s \in Shippers, Abandon(s)
    PROVE  \A q \in late' : q \in late \/ (q = Batch(s) /\ ship[s].stage = "wait")
  BY DEF Abandon

LEMMA RefilledType ==
    ASSUME NEW m \in Memory, NEW at \in Heads, NEW x \in Seq(Frame), NEW cut \in BOOLEAN,
           NEW k \in Nat
    PROVE  [m EXCEPT !.stage = "send", !.after = at, !.run = x, !.cut = cut, !.key = k,
                     !.sent = 0] \in Memory
<1>1. "send" \in Stages
  BY DEF Stages
<1>2. [m EXCEPT !.stage = "send", !.after = at, !.run = x] \in Memory
  BY <1>1 DEF Memory
<1>3. ASSUME NEW n \in Memory
      PROVE  [n EXCEPT !.cut = cut, !.key = k, !.sent = 0] \in Memory
  BY DEF Memory
<1> QED
  BY <1>2, <1>3

LEMMA AnswerType ==
    ASSUME NEW m \in Memory, NEW answer \in Answers
    PROVE  [m EXCEPT !.answer = answer] \in Memory
  BY DEF Memory

LEMMA AckedType ==
    ASSUME NEW m \in Memory, NEW stage \in Stages, NEW sent \in Nat
    PROVE  [m EXCEPT !.stage = stage, !.sent = sent, !.answer = NoAnswer] \in Memory
<1>1. [m EXCEPT !.stage = stage, !.sent = sent] \in Memory
  BY DEF Memory
<1> QED
  BY <1>1, OffType, AnswerType

(* read_pending.                                                           *)
LEMMA PendingStep ==
    ASSUME LogInv, ShipInv, NEW s \in Shippers, ReadPending(s)
    PROVE  ShipInv'
<1>1. UNCHANGED <<frames, head, torn, shipped, vaultVars, late>>
  BY DEF ReadPending, ShipDrops, diskVars
<1>2. /\ ship[s] \in Memory /\ ship \in [Shippers -> Memory] /\ ship[s].stage = "pending"
      /\ ship[s].answer = NoAnswer /\ shipped \in Heads /\ Vaulted(shipped)
  BY DEF ShipInv, ShipTypeInv, RunInv, VaultInv, ReadPending
<1>3. CASE UpToDate(s)
  <2>1. ship' = [ship EXCEPT ![s].stage = "finish"] /\ UNCHANGED <<key, keys>>
    BY <1>3 DEF UpToDate, Goto
  <2>2. ship'[s].stage = "finish" /\ ship'[s].answer = NoAnswer
    BY <1>2, <2>1 DEF Memory
  <2>3. RunInv(s)'
    BY <2>2, NothingInHand DEF Pushing
  <2> QED
    BY <1>1, <2>1, <2>3, RunGoes DEF Stages, Pushing
<1>4. CASE PendingFails(s)
  <2>1. ship' = [ship EXCEPT ![s] = Off] /\ UNCHANGED <<key, keys>>
    BY <1>4 DEF PendingFails, End
  <2>2. Off.stage \notin Pushing /\ Off.answer = NoAnswer
    BY DEF Off, Pushing
  <2> QED
    BY <1>1, <1>2, <2>1, <2>2, OffType, RunClears
<1>5. CASE PendingFound(s)
  <2>1. /\ ~ NothingPending /\ Refusal = "none"
        /\ keys' = IF key = NoKey THEN keys + 1 ELSE keys
        /\ key' = IF key = NoKey THEN keys' ELSE key
    BY <1>5 DEF PendingFound
  <2>2. PICK m \in 0 .. Len(frames) : shipped = HeadAfter(m)
    BY <1>2, VaultedInLog DEF ShipInv, VaultInv, AtLog
  <2>3. Region \in Seq(Frame) /\ FromLog(Region) /\ Linked(shipped, Region)
    BY <2>2, RegionIsTail, TailLinked
  <2>4. Region # <<>> \/ torn
    BY <2>1 DEF Refusal
  <2>5. head # NoHead /\ (key = NoKey => shipped = NoHead)
    BY <2>1 DEF NothingPending, Refusal
  <2>6. keys' = 1 /\ key' = 1
    BY <2>1, <2>5 DEF ShipInv, KeyInv, NoKey
  <2>7. torn \in BOOLEAN
    BY DEF LogInv, TypeInv, TypeOK
  <2> DEFINE n == [ship[s] EXCEPT !.stage = "send", !.after = shipped, !.run = Region,
                                  !.cut = torn, !.key = key', !.sent = 0]
  <2>8. ship' = [ship EXCEPT ![s] = n]
    BY <1>2, <1>5 DEF PendingFound
  <2>9. n \in Memory
    <3>1. key' \in Nat
      BY <2>6
    <3> QED
      BY <1>2, <2>3, <2>7, <3>1, RefilledType
  <2>10. /\ n.stage = "send" /\ n.after = shipped /\ n.run = Region /\ n.cut = torn
         /\ n.key = 1 /\ n.sent = 0 /\ n.answer = NoAnswer
    BY <1>2, <2>6 DEF Memory
  <2> HIDE DEF n
  <2>11. /\ ship' \in [Shippers -> Memory] /\ ship'[s] = n
         /\ \A t \in Shippers \ {s} : ship'[t] = ship[t]
    BY <1>2, <2>8, <2>9
  <2>12. RunInv(s)'
    <3>1. /\ \A x : FromLog(x) => FromLog(x)'
          /\ \A h : Vaulted(h) => Vaulted(h)'
      BY <1>1 DEF FromLog, Vaulted, vaultVars
    <3>2. Vaulted(NoHead)
      BY DEF Vaulted
    <3>3. 0 < Len(Region) \/ torn
      BY <2>3, <2>4
    <3>4. FromLog(Region) /\ Linked(shipped, Region) /\ Vaulted(shipped)
      BY <1>2, <2>3
    <3>5. /\ Vaulted(ship[s].after)' /\ FromLog(ship[s].run)'
          /\ Linked(ship'[s].after, ship'[s].run) /\ Vaulted(ship[s].answer.head)'
      BY <2>10, <2>11, <3>1, <3>2, <3>4 DEF NoAnswer
    <3>6. ship'[s].sent < Len(ship'[s].run) \/ ship'[s].cut
      BY <2>10, <2>11, <3>3
    <3> QED
      BY <2>10, <2>11, <3>5, <3>6 DEF RunInv
  <2>13. ship'[s].key = 1
    BY <2>10, <2>11
  <2> QED
    BY <1>1, <1>2, <2>5, <2>6, <2>11, <2>12, <2>13, RunMoves
<1> QED
  BY <1>3, <1>4, <1>5 DEF ReadPending

(* A frame to send and no torn line: what a verdict of "ok" leaves.        *)
LEMMA SendStep ==
    ASSUME ShipInv, NEW s \in Shippers, Send(s)
    PROVE  ShipInv'
<1>1. /\ UNCHANGED <<frames, head, shipped, key, keys, vaultVars, late, torn>>
      /\ ship[s].stage = "send" /\ ship' = [ship EXCEPT ![s].stage = "wait"]
      /\ Verdict(s) = "ok"
  BY DEF Send, Goto, logVars, diskVars
<1>2. ship \in [Shippers -> Memory] /\ RunInv(s)
  BY DEF ShipInv, ShipTypeInv
<1>3. ~ ship[s].cut
  BY <1>1 DEF Verdict, VerifySegment
<1>4. /\ ship'[s].stage = "wait" /\ ship'[s].after = ship[s].after
      /\ ship'[s].run = ship[s].run /\ ship'[s].sent = ship[s].sent
      /\ ship'[s].cut = ship[s].cut /\ ship'[s].answer = ship[s].answer
  BY <1>1, <1>2 DEF Memory
<1>5. ship[s].answer = NoAnswer
  BY <1>1, <1>2 DEF RunInv
<1>6. /\ \A x : FromLog(x) => FromLog(x)'
      /\ \A h : Vaulted(h) => Vaulted(h)'
  BY <1>1 DEF FromLog, Vaulted, vaultVars
<1>7. RunInv(s)'
  BY <1>1, <1>2, <1>3, <1>4, <1>5, <1>6 DEF RunInv, Pushing, NoAnswer
<1> QED
  BY <1>1, <1>7, RunGoes DEF Stages, Pushing

(* A run takes the vault's answer.                                         *)
LEMMA AnswerStep ==
    ASSUME ShipInv, NEW s \in Shippers, TakeAnswer(s)
    PROVE  ShipInv'
<1>1. /\ UNCHANGED <<frames, head, shipped, key, keys, vaultVars, late>>
      /\ ship[s].stage = "wait" /\ ship[s].answer # NoAnswer
  BY DEF TakeAnswer, logVars, diskVars
<1>2. /\ ship \in [Shippers -> Memory] /\ ship[s] \in Memory /\ RunInv(s)
      /\ shipped \in Heads /\ Vaulted(shipped)
  BY DEF ShipInv, ShipTypeInv, VaultInv
<1>3. /\ \A x : FromLog(x) => FromLog(x)'
      /\ \A h : Vaulted(h) => Vaulted(h)'
  BY <1>1 DEF FromLog, Vaulted, vaultVars
<1>4. ASSUME NEW stage \in {"ack", "recover"}, ship' = [ship EXCEPT ![s].stage = stage],
             stage = "ack" => ship[s].answer.status = 200,
             stage = "recover" => ship[s].answer.head # NoHead
      PROVE  ShipInv'
  <2>1. /\ ship'[s].stage = stage /\ ship'[s].after = ship[s].after
        /\ ship'[s].run = ship[s].run /\ ship'[s].sent = ship[s].sent
        /\ ship'[s].cut = ship[s].cut /\ ship'[s].answer = ship[s].answer
    BY <1>2, <1>4 DEF Memory
  <2>2. BatchEnd(s)' = BatchEnd(s)
    BY <2>1 DEF BatchEnd
  <2>3. RunInv(s)'
    BY <1>1, <1>2, <1>3, <1>4, <2>1, <2>2 DEF RunInv, Pushing
  <2> QED
    BY <1>1, <1>4, <2>3, RunGoes DEF Stages, Pushing
<1>5. Ours(s) => ship[s].answer.head # NoHead
  <2>1. ship[s].after.seq \in Int /\ ship[s].after.seq >= -1
    BY <1>2 DEF Memory, Heads, NoHead
  <2> QED
    BY <2>1 DEF Ours, NoHead
<1>6. ASSUME NEW how, End(s, how) PROVE ShipInv'
  <2>1. Off.stage \notin Pushing /\ Off.answer = NoAnswer
    BY DEF Off, Pushing
  <2> QED
    BY <1>1, <1>2, <1>6, <2>1, OffType, RunClears DEF End
<1> QED
  BY <1>4, <1>5, <1>6 DEF TakeAnswer, Goto

(* `shipped` is written after a 200.                                       *)
LEMMA ShippedStep ==
    ASSUME ShipInv, NEW s \in Shippers, WriteShipped(s)
    PROVE  ShipInv'
<1>1. /\ UNCHANGED <<frames, head, key, keys, vaultVars, late>>
      /\ ship[s].stage = "ack" /\ shipped' = HeadAt(ship[s].run[BatchEnd(s)])
  BY DEF WriteShipped, ShipDrops, diskVars
<1>2. /\ ship \in [Shippers -> Memory] /\ ship[s] \in Memory /\ RunInv(s) /\ ShipTypeInv
  BY DEF ShipInv, ShipTypeInv
<1>3. /\ Vaulted(ship[s].after) /\ FromLog(ship[s].run)
      /\ Linked(ship[s].after, ship[s].run) /\ ship[s].sent < Len(ship[s].run)
      /\ Vaulted(shipped')
  BY <1>1, <1>2 DEF RunInv, Pushing
<1>4. BatchEnd(s) \in ship[s].sent + 1 .. Len(ship[s].run) /\ ship[s].sent \in Nat
  BY <1>2, <1>3, BatchIsLinked DEF Memory
<1>5. shipped' \in Heads /\ shipped' # NoHead
  <2>1. ship[s].run \in Seq(Frame) /\ BatchEnd(s) \in 1 .. Len(ship[s].run)
    BY <1>2, <1>4 DEF Memory
  <2>2. ship[s].run[BatchEnd(s)] \in Frame
    BY <2>1
  <2> QED
    BY <1>1, <2>2 DEF Frame, FrameOver, HeadAt, Heads, NoHead
<1> DEFINE stage == IF BatchEnd(s) = Len(ship[s].run) THEN "finish" ELSE "send"
           n == [ship[s] EXCEPT !.stage = stage, !.sent = BatchEnd(s), !.answer = NoAnswer]
<1>6. ship' = [ship EXCEPT ![s] = n]
  BY <1>2 DEF WriteShipped
<1>7. /\ n \in Memory /\ n.stage = stage /\ n.sent = BatchEnd(s) /\ n.answer = NoAnswer
      /\ n.after = ship[s].after /\ n.run = ship[s].run /\ n.key = ship[s].key
  <2>1. stage \in Stages /\ BatchEnd(s) \in Nat
    BY <1>4 DEF Stages
  <2> HIDE DEF stage
  <2>2. n \in Memory
    BY <1>2, <2>1, AckedType
  <2> QED
    BY <1>2, <2>2 DEF Memory
<1> HIDE DEF n
<1>8. /\ ship' \in [Shippers -> Memory] /\ ship'[s] = n
      /\ \A t \in Shippers \ {s} : ship'[t] = ship[t]
  BY <1>2, <1>6, <1>7
<1>9. RunInv(s)'
  <2>1. /\ \A x : FromLog(x) => FromLog(x)'
        /\ \A h : Vaulted(h) => Vaulted(h)'
    BY <1>1 DEF FromLog, Vaulted, vaultVars
  <2>2. Vaulted(NoHead)'
    BY DEF Vaulted
  <2>3. stage = "send" => ship'[s].sent < Len(ship'[s].run)
    BY <1>2, <1>4, <1>7, <1>8 DEF Memory
  <2>4. /\ Vaulted(ship[s].after)' /\ FromLog(ship[s].run)'
        /\ Linked(ship'[s].after, ship'[s].run) /\ Vaulted(ship[s].answer.head)'
    BY <1>3, <1>7, <1>8, <2>1, <2>2 DEF NoAnswer
  <2>5. ship'[s].stage \in {"send", "finish"} /\ ship'[s].answer = NoAnswer
    BY <1>7, <1>8
  <2> QED
    BY <1>7, <1>8, <2>3, <2>4, <2>5 DEF RunInv, Pushing
<1>10. ship'[s].key = 1
  BY <1>1, <1>7, <1>8 DEF ShipInv, KeyInv, Pushing
<1>11. /\ keys' \in {0, 1} /\ key' \in {NoKey, keys'} /\ (key' # NoKey => head # NoHead)
  BY <1>1 DEF ShipInv, KeyInv
<1> QED
  BY <1>1, <1>3, <1>5, <1>8, <1>9, <1>10, <1>11, RunMoves

(* The other steps of a run: they clear its memory.                        *)
LEMMA ClearingStep ==
    ASSUME LogInv, ShipInv, NEW s \in Shippers,
           \/ StartRun(s) \/ StopOnVerdict(s) \/ Unreachable(s) \/ KillRun(s)
           \/ Recover(s) \/ Finish(s)
    PROVE  ShipInv'
<1>1. /\ Off \in Memory /\ Off.stage \notin Pushing /\ Off.answer = NoAnswer
  BY OffType DEF Off, Pushing
<1>2. \A recover \in BOOLEAN :
         LET m == [Off EXCEPT !.stage = "pending", !.recover = recover]
         IN  m.stage \notin Pushing /\ m.answer = NoAnswer
  BY DEF Off, Pushing
<1>3. LET m == [Off EXCEPT !.stage = "pending"]
      IN  m.stage \notin Pushing /\ m.answer = NoAnswer
  BY DEF Off, Pushing
<1>4. /\ shipped \in Heads /\ Vaulted(shipped) /\ RunInv(s) /\ ship[s] \in Memory
  BY DEF ShipInv, ShipTypeInv, VaultInv
<1>drop. ShipDrops(s) => UNCHANGED <<frames, head>>
  BY DEF ShipDrops, diskVars
<1>quiet. UNCHANGED logVars => UNCHANGED <<frames, head>>
  BY DEF logVars, diskVars
<1>5. CASE StartRun(s)
  <2>1. /\ ship' = [ship EXCEPT ![s] = [Off EXCEPT !.stage = "pending", !.recover = TRUE]]
        /\ UNCHANGED <<frames, head, shipped, key, keys, vaultVars, late>>
    BY <1>5, <1>quiet DEF StartRun
  <2> QED
    BY <1>2, <1>4, <2>1, OffType, RunClears
<1>6. CASE StopOnVerdict(s)
  BY <1>1, <1>4, <1>6, <1>quiet, RunClears DEF StopOnVerdict, End
<1>7. CASE Unreachable(s)
  BY <1>1, <1>4, <1>7, <1>quiet, AbandonedIsOurs, RunClears DEF Unreachable, End
<1>8. CASE KillRun(s)
  BY <1>1, <1>4, <1>8, <1>quiet, <1>drop, AbandonedIsOurs, RunClears DEF KillRun
<1>9. CASE Recover(s)
  <2>1. /\ ship' = [ship EXCEPT ![s] = [Off EXCEPT !.stage = "pending"]]
        /\ shipped' = ship[s].answer.head /\ ship[s].stage = "recover"
        /\ UNCHANGED <<frames, head, key, keys, vaultVars, late>>
    BY <1>9, <1>drop DEF Recover
  <2>2. shipped' \in Heads /\ Vaulted(shipped') /\ shipped' # NoHead
    BY <1>4, <2>1 DEF RunInv, Memory, Answers
  <2> DEFINE m == [Off EXCEPT !.stage = "pending"]
  <2>3. m \in Memory /\ m.stage \notin Pushing /\ m.answer = NoAnswer
    BY <1>3, OffType
  <2>4. ship' = [ship EXCEPT ![s] = m]
    BY <2>1
  <2> HIDE DEF m
  <2> QED
    BY <2>1, <2>2, <2>3, <2>4, RunClears
<1>10. CASE Finish(s)
  <2>1. /\ ship' = [ship EXCEPT ![s] = Off] /\ UNCHANGED <<frames, head, shipped, keys, vaultVars, late>>
    BY <1>10, <1>drop DEF Finish, End
  <2>2. key' = key \/ (key' = NoKey /\ Complete)
    BY <1>10 DEF Finish
  <2>3. key # NoKey => head # NoHead
    BY DEF ShipInv, KeyInv
  <2>4. key' = key \/ (key' = NoKey /\ shipped # NoHead)
    BY <2>2, <2>3 DEF Complete
  <2> QED
    BY <1>1, <1>4, <2>1, <2>4, RunClears
<1> QED
  BY <1>5, <1>6, <1>7, <1>8, <1>9, <1>10

LEMMA VaultAnswersStep ==
    ASSUME LogInv, ShipInv, NEW s \in Shippers, VaultAnswers(s)
    PROVE  ShipInv'
<1>q. PICK q : q = Batch(s)
  OBVIOUS
<1> DEFINE answer == [status |-> Status(q), head |-> HeadOf(vault')]
           n == [ship[s] EXCEPT !.answer = answer]
<1>1. /\ UNCHANGED <<frames, head, shipped, key, keys, late>>
      /\ ship[s].stage = "wait" /\ VaultTakes(q)
      /\ ship' = [ship EXCEPT ![s] = n]
  BY <1>q DEF VaultAnswers, logVars, diskVars
<1>2. /\ ship \in [Shippers -> Memory] /\ ship[s] \in Memory /\ RunInv(s) /\ ShipTypeInv
  BY DEF ShipInv, ShipTypeInv
<1>3. /\ FromLog(ship[s].run) /\ Linked(ship[s].after, ship[s].run)
      /\ Vaulted(ship[s].after) /\ ship[s].sent < Len(ship[s].run) /\ ship[s].key = 1
  BY <1>1, <1>2 DEF RunInv, Pushing, ShipInv, KeyInv
<1>4. /\ q \in Requests /\ q.index # <<>> /\ FromLog(q.index) /\ q.key = 1
      /\ HeadOf(q.index) = HeadAt(ship[s].run[BatchEnd(s)])
  BY <1>q, <1>2, <1>3, BatchIsLinked
<1>5. /\ vault' \in Seq(Frame) /\ \A h : Vaulted(h) => Vaulted(h)'
      /\ Vaulted(HeadOf(vault))' /\ Status(q) \in {200, 409, 422}
      /\ Status(q) = 200 => Vaulted(HeadOf(q.index))'
  BY <1>1, <1>4, VaultTakesGood DEF ShipInv
<1>6. answer \in Answers /\ answer # NoAnswer /\ answer.status # 0
  <2>1. HeadOf(vault') \in Heads
    BY <1>5, HeadOfType DEF Frame
  <2> QED
    BY <1>5, <2>1 DEF Answers, NoAnswer
<1> HIDE DEF answer
<1>7. /\ n \in Memory /\ n.answer = answer /\ n.stage = "wait" /\ n.key = ship[s].key
      /\ n.after = ship[s].after /\ n.run = ship[s].run /\ n.sent = ship[s].sent
  BY <1>1, <1>2, <1>6, AnswerType DEF Memory
<1> HIDE DEF n
<1>8. /\ ship' \in [Shippers -> Memory] /\ ship'[s] = n
      /\ \A t \in Shippers \ {s} : ship'[t] = ship[t]
  BY <1>1, <1>2, <1>7
<1>9. RunInv(s)'
  <2>1. \A x : FromLog(x) => FromLog(x)'
    BY <1>1 DEF FromLog
  <2>2. BatchEnd(s)' = BatchEnd(s)
    BY <1>7, <1>8 DEF BatchEnd
  <2>3. answer.status = 200 => Vaulted(HeadAt(ship[s].run[BatchEnd(s)]))'
    <3>1. answer.status = Status(q)
      BY DEF answer
    <3>2. ship'[s].run = ship[s].run
      BY <1>7, <1>8
    <3>3. HeadAt(ship'[s].run[BatchEnd(s)']) = HeadOf(q.index)
      BY <1>4, <2>2, <3>2
    <3> QED
      BY <1>5, <3>1, <3>3
  <2>4. Vaulted(ship[s].answer.head)'
    <3>1. ship'[s].answer.head = HeadOf(vault')
      BY <1>7, <1>8 DEF answer
    <3> QED
      BY <1>5, <3>1
  <2>5. Vaulted(ship[s].after)' /\ FromLog(ship[s].run)'
    BY <1>3, <1>5, <1>7, <1>8, <2>1
  <2> QED
    BY <1>3, <1>6, <1>7, <1>8, <2>3, <2>4, <2>5 DEF RunInv, Pushing
<1>10. \A t \in Shippers :
           ship'[t] = ship[t] \/ (RunInv(t)' /\ ship'[t].key = ship[t].key
                                 /\ ship'[t].stage = ship[t].stage)
  BY <1>1, <1>7, <1>8, <1>9
<1> QED
  BY <1>1, <1>4, <1>8, <1>10, VaultMoves

LEMMA LateArrivalStep ==
    ASSUME LogInv, ShipInv, NEW q \in late, LateArrival(q)
    PROVE  ShipInv'
<1>1. /\ UNCHANGED <<frames, head, shipped, key, keys, ship>> /\ VaultTakes(q)
      /\ late' \subseteq late
  BY DEF LateArrival, logVars, diskVars
<1>2. q \in Requests /\ q.index # <<>> /\ FromLog(q.index) /\ q.key = 1
  BY DEF ShipInv, ShipTypeInv, VaultInv, KeyInv
<1>3. ship' \in [Shippers -> Memory]
  BY <1>1 DEF ShipInv, ShipTypeInv
<1> QED
  BY <1>1, <1>2, <1>3, VaultMoves

LEMMA ShipInvInit == Init => ShipInv
<1> SUFFICES ASSUME Init PROVE ShipInv
  OBVIOUS
<1>1. /\ shipped = NoHead /\ key = 0 /\ keys = 0 /\ wraps = 0
      /\ ship = [s \in Shippers |-> Off]
      /\ vault = <<>> /\ batches = {} /\ late = {} /\ frames = <<>>
  BY DEF Init, InitLog, NoKey
<1>2. \A s \in Shippers : ship[s].stage = "off" /\ ship[s].answer = NoAnswer
  BY <1>1 DEF Off
<1>3. ShipTypeInv
  <2>1. <<>> \in Seq(Frame) /\ NoHead \in Heads
    BY DEF Heads
  <2> QED
    BY <1>1, <2>1, OffType DEF ShipTypeInv
<1>4. VaultInv
  BY <1>1 DEF VaultInv, Linked, FromLog, Vaulted
<1>5. \A s \in Shippers : RunInv(s)
  BY <1>2 DEF RunInv, Pushing, NoAnswer, Vaulted
<1>6. KeyInv
  BY <1>1, <1>2 DEF KeyInv, NoKey, Pushing
<1> QED
  BY <1>3, <1>4, <1>5, <1>6 DEF ShipInv

LEMMA ShipInvStep == LogInv /\ ShipInv /\ [ShipNext]_vars => ShipInv'
<1> SUFFICES ASSUME LogInv, ShipInv, [ShipNext]_vars PROVE ShipInv'
  OBVIOUS
<1>log. [Next]_logVars
  BY ShipStepOfLog
<1>1. CASE UNCHANGED shipVars
  BY <1>1, <1>log, LogMoves
<1>2. ASSUME NEW s \in Shippers, WantsLock(s) \/ OpensLock(s) \/ TakesLock(s)
      PROVE  UNCHANGED shipVars
  BY <1>2 DEF WantsLock, OpensLock, TakesLock
<1>3. ASSUME NEW s \in Shippers, RunStep(s) PROVE ShipInv'
  BY <1>1, <1>2, <1>3, PendingStep, ClearingStep, SendStep, AnswerStep, ShippedStep
     DEF RunStep
<1>4. CASE UNCHANGED vars
  BY <1>1, <1>4 DEF vars
<1> QED
  BY <1>1, <1>3, <1>4, ClearingStep, VaultAnswersStep, LateArrivalStep DEF ShipNext

LEMMA ShipHolds == ShipSpec => [](LogInv /\ ShipInv)
  BY ShipInvInit, ShipInvStep, LogHolds, PTL DEF ShipSpec

-----------------------------------------------------------------------------
(* What follows.                                                           *)

(* A linked run of the log's frames from its first one on is its beginning. *)
LEMMA LinkedIsPrefix ==
    ASSUME LogInv, NEW v \in Seq(Frame), Linked(NoHead, v), FromLog(v)
    PROVE  /\ Len(v) \in Nat /\ Len(v) <= Len(frames)
           /\ \A i \in 1 .. Len(v) : v[i].seq = i - 1 /\ v[i] = frames[i]
<1>1. \A i \in 1 .. Len(v) : v[i].seq = i - 1
  BY LastSeq DEF Frame
<1>2. \A i \in 1 .. Len(v) : i \in 1 .. Len(frames) /\ v[i] = frames[i]
  <2>1. \A i \in 1 .. Len(v) : v[i].seq + 1 = i
    BY <1>1
  <2> QED
    BY <2>1 DEF FromLog
<1>3. Len(v) \in Nat /\ Len(frames) \in Nat
  BY LogIsNumbered
<1>4. Len(v) <= Len(frames)
  BY <1>2, <1>3
<1> QED
  BY <1>1, <1>2, <1>3, <1>4

(* So is the vault's copy, whose frames are numbered from 0.               *)
LEMMA VaultPrefix ==
    ASSUME LogInv, ShipInv
    PROVE  /\ vault \in Seq(Frame) /\ Len(vault) \in Nat /\ Len(vault) <= Len(frames)
           /\ \A i \in 1 .. Len(vault) : vault[i].seq = i - 1 /\ vault[i] = frames[i]
<1>1. vault \in Seq(Frame) /\ Linked(NoHead, vault) /\ FromLog(vault)
  BY DEF ShipInv, ShipTypeInv, VaultInv
<1> QED
  BY <1>1, LinkedIsPrefix

(* The vault's copy is the log's own beginning, frame for frame, whatever  *)
(* was lost, retried, delivered late or pushed by any number of runs at    *)
(* once (verify_linkage, push and the recovery after a 409).               *)
THEOREM VaultIsPrefix == ShipSpec => []VaultHoldsLog
<1>1. LogInv /\ ShipInv => VaultHoldsLog
  BY VaultPrefix DEF VaultHoldsLog
<1> QED
  BY <1>1, ShipHolds, PTL

(* `shipped` never claims a frame the vault does not hold, so no run skips *)
(* one: it is written only after a 200, or from the head a 409 names.      *)
THEOREM ShippedIsVaulted == ShipSpec => []ShippedIsHeld
<1>1. ShipInv => ShippedIsHeld
  BY DEF ShipInv, VaultInv, Vaulted, ShippedIsHeld
<1> QED
  BY <1>1, ShipHolds, PTL

(* A prefix of a log, as what is cut off it.                               *)
LEMMA PrefixIsSubSeq ==
    ASSUME NEW v \in Seq(Frame), NEW x \in Seq(Frame), Len(v) <= Len(x),
           \A i \in 1 .. Len(v) : v[i] = x[i]
    PROVE  v = SubSeq(x, 1, Len(v))
<1> DEFINE w == SubSeq(x, 1, Len(v))
<1>1. Len(v) \in Nat /\ Len(x) \in Nat /\ \A i \in 1 .. Len(v) : x[i] \in Frame
  OBVIOUS
<1>2. w \in Seq(Frame) /\ Len(w) = Len(v) /\ \A i \in 1 .. Len(v) : w[i] = x[i]
  BY <1>1, SubSeqProperties
<1> HIDE DEF w
<1>3. v = w
  BY <1>1, <1>2, SeqEqual
<1> QED
  BY <1>3 DEF w

(* A request the vault takes brings the copy up to its last frame, under   *)
(* the one key.                                                            *)
LEMMA TakenReplicates ==
    ASSUME LogInv, ShipInv, LogInv', ShipInv', UNCHANGED <<frames, shipped>>,
           NEW q \in Requests, q.index # <<>>, VaultTakes(q)
    PROVE  Promised!Replicate \/ UNCHANGED <<frames, vault, shipped, wraps>>
<1>1. CASE ~ Accepts(q)
  BY <1>1 DEF VaultTakes, vaultVars
<1>2. CASE Accepts(q)
  <2>1. vault' = vault \o q.index /\ q.index \in Seq(Frame) /\ vault \in Seq(Frame)
    BY <1>2 DEF VaultTakes, Requests, ShipInv, ShipTypeInv
  <2>2. Len(vault') > Len(vault) /\ Len(vault) \in Nat /\ vault' # <<>>
    BY <2>1
  <2>3. /\ vault' \in Seq(Frame) /\ Len(vault') \in Nat /\ Len(vault') <= Len(frames)
        /\ \A i \in 1 .. Len(vault') : vault'[i] = frames[i]
    <3> DEFINE v == vault \o q.index
    <3>1. vault' = v /\ v \in Seq(Frame) /\ Linked(NoHead, v)
      BY <2>1 DEF ShipInv, ShipTypeInv, VaultInv
    <3>2. FromLog(v)
      BY <2>1 DEF ShipInv, VaultInv, FromLog
    <3> HIDE DEF v
    <3> QED
      BY <3>1, <3>2, LinkedIsPrefix
  <2>4. vault' = SubSeq(frames, 1, Len(vault'))
    BY <2>3, LogIsNumbered, PrefixIsSubSeq
  <2>5. Len(vault') \in Len(vault) + 1 .. Len(frames)
    BY <2>2, <2>3, LogIsNumbered
  <2>6. wraps' = 1 /\ (vault # <<>> => wraps = 1) /\ Promised!NoKey = 0
    BY <2>2 DEF ShipInv, KeyInv, Promised!NoKey
  <2>7. \E n \in Len(vault) + 1 .. Len(frames) : vault' = SubSeq(frames, 1, n)
    BY <2>4, <2>5
  <2>8. IF vault = <<>> THEN wraps' # Promised!NoKey ELSE UNCHANGED wraps
    BY <2>6
  <2> QED
    BY <2>7, <2>8 DEF Promised!Replicate
<1> QED
  BY <1>1, <1>2

(* `shipped` is written as the mark of a frame the vault has.              *)
LEMMA ShippedMarks ==
    ASSUME LogInv, ShipInv, ShipInv', NEW s \in Shippers, WriteShipped(s) \/ Recover(s)
    PROVE  Promised!Mark
<1>1. UNCHANGED <<frames, vault, wraps>> /\ ship[s] \in Memory /\ RunInv(s)
  BY DEF WriteShipped, Recover, ShipDrops, diskVars, vaultVars, ShipInv, ShipTypeInv
<1>2. shipped' # NoHead
  <2>1. CASE WriteShipped(s)
    <3>1. BatchEnd(s) \in 1 .. Len(ship[s].run)
      <4>1. ship[s].sent < Len(ship[s].run)
        BY <1>1, <2>1 DEF WriteShipped, RunInv, Pushing
      <4> QED
        BY <1>1, <4>1, ShipAssumption DEF BatchEnd, Memory
    <3>2. ship[s].run[BatchEnd(s)] \in Frame
      BY <1>1, <3>1 DEF Memory
    <3> QED
      BY <2>1, <3>2 DEF WriteShipped, HeadAt, NoHead, Frame, FrameOver
  <2>2. CASE Recover(s)
    BY <1>1, <2>2 DEF Recover, RunInv
  <2> QED
    BY <2>1, <2>2
<1>3. PICK n \in 1 .. Len(vault) : shipped' = HeadAt(vault[n])
  BY <1>1, <1>2 DEF ShipInv, VaultInv, Vaulted
<1> QED
  BY <1>1, <1>3 DEF Promised!Mark, Promised!HeadAt, HeadAt

(* What a run and the vault do together, taken for one: the vault's copy   *)
(* only grows, by what the log has next, under the key wrapped to the      *)
(* admins with its first frame, which never changes; and `shipped` once    *)
(* written always names a frame of it.  So it is for any number of runs at *)
(* once, with requests and answers lost and late.                          *)
THEOREM VaultIsReplica == ShipSpec => ImplementsReplica
<1>1. Init => Promised!Init
  BY DEF Init, InitLog, Promised!Init, Promised!NoHead, NoHead, Promised!NoKey, NoKey,
     Promised!Genesis, Genesis
<1>2. ASSUME LogInv, ShipInv, LogInv', ShipInv', [ShipNext]_vars
      PROVE  [Promised!Next]_<<frames, vault, shipped, wraps>>
  <2>1. CASE UNCHANGED shipVars
    <3>1. [Next]_logVars
      BY <1>2, ShipStepOfLog
    <3>2. UNCHANGED <<vault, shipped, wraps>>
      BY <2>1 DEF shipVars, vaultVars
    <3>3. ASSUME NEW r \in Recorders, WriteFrame(r) PROVE Promised!Write
      <4>1. PICK f : f = Seal(event[r], link[r])
        OBVIOUS
      <4>2. frames' = Append(frames, f) /\ frames \in Seq(Frame)
        BY <3>3, <4>1, LogIsNumbered, <1>2 DEF WriteFrame
      <4>3. Len(frames') = Len(frames) + 1 /\ frames'[Len(frames) + 1] = f /\ frames' # <<>>
        BY <4>2
      <4> QED
        BY <3>2, <4>2, <4>3 DEF Promised!Write
    <3>4. ASSUME NEW r \in Recorders,
                 \/ StartAppend(r) \/ ReadHead(r) \/ TakeLink(r) \/ Refuse(r)
                 \/ WriteTmp(r) \/ RenameHead(r) \/ FailAppend(r)
          PROVE  UNCHANGED frames
      BY <3>4 DEF StartAppend, ReadHead, TakeLink, Refuse, WriteTmp, RenameHead, FailAppend,
         diskVars
    <3>5. Promised!Write \/ UNCHANGED frames
      BY <1>2, <3>1, <3>3, <3>4, QuietSteps DEF LogInv, TypeInv, Quiet
    <3> QED
      BY <3>2, <3>5 DEF Promised!Next
  <2>2. ASSUME NEW s \in Shippers,
               \/ ReadPending(s) \/ StopOnVerdict(s) \/ Send(s) \/ TakeAnswer(s) \/ Finish(s)
               \/ StartRun(s) \/ KillRun(s) \/ Unreachable(s)
        PROVE  UNCHANGED <<frames, vault, shipped, wraps>>
    BY <2>2 DEF ReadPending, StopOnVerdict, Send, TakeAnswer, Finish, StartRun, KillRun,
       Unreachable, ShipDrops, logVars, diskVars, vaultVars
  <2>3. ASSUME NEW s \in Shippers, WantsLock(s) \/ OpensLock(s) \/ TakesLock(s)
        PROVE  UNCHANGED shipVars
    BY <2>3 DEF WantsLock, OpensLock, TakesLock
  <2>4. ASSUME NEW s \in Shippers, VaultAnswers(s)
        PROVE  Promised!Replicate \/ UNCHANGED <<frames, vault, shipped, wraps>>
    <3>1. /\ ShipTypeInv /\ ship[s].sent < Len(ship[s].run)
          /\ FromLog(ship[s].run) /\ Linked(ship[s].after, ship[s].run)
      BY <1>2, <2>4 DEF VaultAnswers, ShipInv, RunInv, Pushing
    <3>2. Batch(s) \in Requests /\ Batch(s).index # <<>>
      BY <3>1, BatchIsLinked
    <3>3. VaultTakes(Batch(s)) /\ UNCHANGED <<frames, shipped>>
      BY <2>4 DEF VaultAnswers, logVars, diskVars
    <3> QED
      BY <1>2, <3>2, <3>3, TakenReplicates
  <2>5. ASSUME NEW q \in late, LateArrival(q)
        PROVE  Promised!Replicate \/ UNCHANGED <<frames, vault, shipped, wraps>>
    <3>1. q \in Requests /\ q.index # <<>>
      BY <1>2 DEF ShipInv, ShipTypeInv, VaultInv
    <3>2. VaultTakes(q) /\ UNCHANGED <<frames, shipped>>
      BY <2>5 DEF LateArrival, logVars, diskVars
    <3> QED
      BY <1>2, <3>1, <3>2, TakenReplicates
  <2>6. UNCHANGED vars => UNCHANGED shipVars
    BY DEF vars
  <2> QED
    BY <1>2, <2>1, <2>2, <2>3, <2>4, <2>5, <2>6, ShippedMarks
       DEF ShipNext, RunStep, Promised!Next
<1> QED
  BY <1>1, <1>2, ShipHolds, PTL DEF ShipSpec, ImplementsReplica, Promised!Spec

(* Every batch the vault stores opens with the one key wrapped to the      *)
(* admins when the chain was first seen: read_pending makes a key only     *)
(* where nothing was ever shipped, and finish deletes it only after.       *)
THEOREM OneKeyEver == ShipSpec => []OneKeyPerChain
<1>1. ShipInv => OneKeyPerChain
  BY DEF ShipInv, KeyInv, OneKeyPerChain
<1> QED
  BY <1>1, ShipHolds, PTL

-----------------------------------------------------------------------------
(* The end of a chain.                                                     *)

(* A run that holds the lock sees no append half done: unless one died,    *)
(* `head` names the log's last frame.                                      *)
LEMMA HeadIsTip ==
    ASSUME LogInv, NEW s \in Shippers, pc[s] = "busy", failures = 0
    PROVE  head = HeadAfter(Len(frames))
<1>1. s \in Processes /\ Holds(s) /\ s \notin Verifiers /\ s \notin Recorders
  BY ProcessesAssumption DEF Processes, Holds
<1>2. \A r \in Recorders : ~ Holds(r)
  BY <1>1 DEF LogInv, LockInv, Processes
<1>3. Owed = 0
  BY <1>2 DEF Owed, Written, Holds
<1>4. Len(frames) - (head.seq + 1) <= 0 /\ Len(frames) \in Nat
  BY <1>3, LogIsNumbered DEF LogInv, HeadInv
<1>5. CASE head = NoHead
  BY <1>4, <1>5 DEF NoHead, HeadAfter
<1>6. ASSUME NEW i \in 1 .. Len(frames), head = HeadAt(frames[i])
      PROVE  head = HeadAfter(Len(frames))
  <2>1. head.seq = i - 1
    BY <1>6, LogIsNumbered DEF HeadAt
  <2>2. i = Len(frames)
    BY <1>4, <2>1
  <2> QED
    BY <1>6, <2>2 DEF HeadAfter
<1> QED
  BY <1>5, <1>6 DEF LogInv, HeadInv

(* Only finish deletes a key.                                              *)
LEMMA KeyDeleted ==
    ASSUME [ShipNext]_vars, KeyDeletion
    PROVE  \E s \in Shippers : pc[s] = "busy" /\ Complete /\ EndsSession
<1>1. ~ UNCHANGED key
  BY DEF KeyDeletion
<1>2. ASSUME NEW s \in Shippers, ReadPending(s) PROVE UNCHANGED key
  BY <1>2 DEF ReadPending, UpToDate, PendingFails, PendingFound, KeyDeletion
<1>3. ASSUME NEW s \in Shippers, RunStep(s), ~ ReadPending(s), ~ Finish(s) PROVE UNCHANGED key
  BY <1>3 DEF RunStep, WantsLock, OpensLock, TakesLock, StopOnVerdict, Send, TakeAnswer,
              WriteShipped, Recover, shipVars
<1>4. ASSUME NEW s \in Shippers,
             StartRun(s) \/ KillRun(s) \/ VaultAnswers(s) \/ Unreachable(s)
      PROVE  UNCHANGED key
  BY <1>4 DEF StartRun, KillRun, VaultAnswers, Unreachable
<1>5. ASSUME NEW s \in Shippers, Finish(s)
      PROVE  UNCHANGED key \/ (pc[s] = "busy" /\ Complete /\ EndsSession)
  BY <1>5 DEF Finish
<1>6. ASSUME NEW q \in late, LateArrival(q) PROVE UNCHANGED key
  BY <1>6 DEF LateArrival
<1>7. UNCHANGED vars => UNCHANGED key
  BY DEF vars, shipVars
<1>8. ASSUME NEW s \in Shippers, RunStep(s)
      PROVE  UNCHANGED key \/ (pc[s] = "busy" /\ Complete /\ EndsSession)
  BY <1>2, <1>3, <1>5, <1>8
<1>9. ASSUME LogStep, UNCHANGED shipVars PROVE UNCHANGED key
  BY <1>9 DEF shipVars
<1>10. ShipNext
  BY <1>1, <1>7
<1>11. \/ \E s \in Shippers : \/ StartRun(s) \/ RunStep(s) \/ KillRun(s)
                             \/ VaultAnswers(s) \/ Unreachable(s)
       \/ \E q \in late : LateArrival(q)
  BY <1>1, <1>9, <1>10 DEF ShipNext
<1> QED
  BY <1>1, <1>4, <1>6, <1>8, <1>11

(* chain.key is deleted only when the vault has every frame the session    *)
(* has and the last one is its session_end (finish's `Complete`), however  *)
(* many hooks append and runs push meanwhile, as long as no append died    *)
(* before `head`.                                                          *)
THEOREM KeyOutlivesChain == ShipSpec => ClosesWholeChainUnlessDeath
<1>1. ASSUME LogInv, ShipInv, [ShipNext]_vars, KeyDeletion, failures = 0
      PROVE  vault = frames /\ EndsSession
  <2>1. PICK s \in Shippers : pc[s] = "busy" /\ Complete /\ EndsSession
    BY <1>1, KeyDeleted
  <2>2. shipped = HeadAfter(Len(frames)) /\ shipped # NoHead
    BY <1>1, <2>1, HeadIsTip DEF Complete, KeyDeletion, ShipInv, KeyInv
  <2>3. PICK i \in 1 .. Len(vault) : shipped = HeadAt(vault[i])
    BY <1>1, <2>2 DEF ShipInv, VaultInv, Vaulted
  <2>4. /\ frames \in Seq(Frame) /\ vault \in Seq(Frame) /\ Len(frames) \in Nat
        /\ Len(vault) \in Nat /\ Len(vault) <= Len(frames)
        /\ \A j \in 1 .. Len(vault) : vault[j].seq = j - 1 /\ vault[j] = frames[j]
    BY <1>1, LogIsNumbered, VaultPrefix
  <2>5. shipped.seq = Len(frames) - 1 /\ shipped.seq = i - 1
    <3>1. Len(frames) \in 0 .. Len(frames)
      BY <2>4
    <3>2. HeadAfter(Len(frames)).seq = Len(frames) - 1
      BY <1>1, <3>1, HeadAfterSeq
    <3>3. shipped.seq = vault[i].seq
      BY <2>3 DEF HeadAt
    <3> QED
      BY <2>2, <2>4, <3>2, <3>3
  <2>6. Len(vault) = Len(frames)
    BY <2>3, <2>4, <2>5
  <2>7. vault = frames
    BY <2>4, <2>6
  <2> QED
    BY <2>1, <2>7
<1>2. /\ LogInv /\ ShipInv /\ [ShipNext]_vars
      => [KeyDeletion /\ failures = 0 => vault = frames /\ EndsSession]_vars
  BY <1>1
<1> QED
  BY <1>2, ShipHolds, PTL DEF ShipSpec, ClosesWholeChainUnlessDeath

-----------------------------------------------------------------------------
(* What each step does to the memory of a run.                             *)

LEMMA GoneTo ==
    ASSUME ShipTypeInv, NEW s \in Shippers, NEW stage,
           ship' = [ship EXCEPT ![s].stage = stage]
    PROVE  LET m == ship[s] n == ship'[s]
           IN  /\ n.stage = stage /\ n.recover = m.recover /\ n.after = m.after
               /\ n.run = m.run /\ n.cut = m.cut /\ n.sent = m.sent /\ n.answer = m.answer
               /\ \A t \in Shippers \ {s} : ship'[t] = ship[t]
  BY DEF ShipTypeInv, Memory

LEMMA Refilled ==
    ASSUME ShipTypeInv, NEW s \in Shippers, PendingFound(s)
    PROVE  LET m == ship[s] n == ship'[s]
           IN  /\ n.stage = "send" /\ n.recover = m.recover /\ n.after = shipped
               /\ n.run = Region /\ n.cut = torn /\ n.sent = 0 /\ n.answer = m.answer
               /\ \A t \in Shippers \ {s} : ship'[t] = ship[t]
<1> DEFINE n == [ship[s] EXCEPT !.stage = "send", !.after = shipped, !.run = Region,
                                !.cut = torn, !.key = key', !.sent = 0]
<1>1. ship' = [ship EXCEPT ![s] = n]
  BY DEF PendingFound, ShipTypeInv
<1>2. /\ n.stage = "send" /\ n.after = shipped /\ n.run = Region /\ n.cut = torn
      /\ n.sent = 0 /\ n.answer = ship[s].answer /\ n.recover = ship[s].recover
  BY DEF ShipTypeInv, Memory
<1> HIDE DEF n
<1> QED
  BY <1>1, <1>2 DEF ShipTypeInv

LEMMA Answered ==
    ASSUME ShipTypeInv, NEW s \in Shippers, VaultAnswers(s)
    PROVE  LET m == ship[s] n == ship'[s]
           IN  /\ n.stage = m.stage /\ n.recover = m.recover /\ n.after = m.after
               /\ n.run = m.run /\ n.cut = m.cut /\ n.sent = m.sent
               /\ n.answer.status = Status(Batch(s)) /\ n.answer.head = HeadOf(vault')
               /\ \A t \in Shippers \ {s} : ship'[t] = ship[t]
<1>status. PICK status : status = Status(Batch(s))
  OBVIOUS
<1> DEFINE n == [ship[s] EXCEPT !.answer = [status |-> status, head |-> HeadOf(vault')]]
<1>1. ship' = [ship EXCEPT ![s] = n]
  BY <1>status DEF VaultAnswers, ShipTypeInv
<1>2. /\ n.stage = ship[s].stage /\ n.recover = ship[s].recover /\ n.after = ship[s].after
      /\ n.run = ship[s].run /\ n.cut = ship[s].cut /\ n.sent = ship[s].sent
      /\ n.answer.status = status /\ n.answer.head = HeadOf(vault')
  BY DEF ShipTypeInv, Memory
<1> HIDE DEF n
<1> QED
  BY <1>status, <1>1, <1>2 DEF ShipTypeInv

LEMMA Acked ==
    ASSUME ShipTypeInv, NEW s \in Shippers, WriteShipped(s)
    PROVE  LET m == ship[s] n == ship'[s]
           IN  /\ n.stage = (IF BatchEnd(s) = Len(m.run) THEN "finish" ELSE "send")
               /\ n.recover = m.recover /\ n.after = m.after /\ n.run = m.run
               /\ n.cut = m.cut /\ n.sent = BatchEnd(s) /\ n.answer = NoAnswer
               /\ \A t \in Shippers \ {s} : ship'[t] = ship[t]
<1> DEFINE stage == IF BatchEnd(s) = Len(ship[s].run) THEN "finish" ELSE "send"
           n == [ship[s] EXCEPT !.stage = stage, !.sent = BatchEnd(s), !.answer = NoAnswer]
<1>1. ship' = [ship EXCEPT ![s] = n]
  BY DEF WriteShipped, ShipTypeInv
<1>2. /\ n.stage = stage /\ n.recover = ship[s].recover /\ n.after = ship[s].after
      /\ n.run = ship[s].run /\ n.cut = ship[s].cut /\ n.sent = BatchEnd(s)
      /\ n.answer = NoAnswer
  <2> HIDE DEF stage
  <2> QED
    BY DEF ShipTypeInv, Memory
<1> HIDE DEF n
<1> QED
  BY <1>1, <1>2 DEF ShipTypeInv

-----------------------------------------------------------------------------
(* The vault never finds a break inside a batch.                           *)

NotRejected == \A s \in Shippers : ship[s].answer.status # 422

LEMMA HeldBatch ==
    ASSUME ShipInv, NEW s \in Shippers, ship[s].stage \in {"wait", "ack"}
    PROVE  /\ ship[s].sent < Len(ship[s].run) /\ ship[s].sent \in Nat
           /\ FromLog(ship[s].run) /\ Linked(ship[s].after, ship[s].run)
           /\ BatchEnd(s) \in ship[s].sent + 1 .. Len(ship[s].run)
           /\ Batch(s) \in Requests /\ Batch(s).index # <<>> /\ FromLog(Batch(s).index)
           /\ HeadOf(Batch(s).index) = HeadAt(ship[s].run[BatchEnd(s)])
           /\ Linked(IF ship[s].sent = 0 THEN ship[s].after
                     ELSE HeadAt(ship[s].run[ship[s].sent]), Batch(s).index)
<1>1. /\ ShipTypeInv /\ ship[s].sent < Len(ship[s].run) /\ ship[s].sent \in Nat
      /\ FromLog(ship[s].run) /\ Linked(ship[s].after, ship[s].run)
  BY DEF ShipInv, ShipTypeInv, RunInv, Pushing, Memory
<1> QED
  BY <1>1, BatchIsLinked

(* A run of frames that is linked to something breaks, if at all, where it *)
(* meets what it is asked to continue.                                     *)
LEMMA BreaksFirst ==
    ASSUME NEW x \in Seq(Frame), x # <<>>, NEW at, Linked(at, x),
           NEW h \in Heads, ~ Linked(h, x), at.seq \in Int
    PROVE  FirstBreak(h, x) = 1
<1> DEFINE Fits(i) == SeqFits(h, x, i) /\ PrevFits(h, x, i)
<1>ty. Len(x) \in Nat /\ 1 \in 1 .. Len(x) /\ h.seq \in Int
  BY DEF Heads, NoHead
<1>1. ASSUME NEW i \in 1 .. Len(x), Fits(1) PROVE Fits(i)
  <2>1. x[1].seq = h.seq + 1 /\ x[1].seq = at.seq + 1 /\ x[i].seq = at.seq + i
    BY <1>ty, <1>1 DEF Linked, SeqFits
  <2>2. h.seq = at.seq
    BY <1>ty, <2>1
  <2>3. SeqFits(h, x, i)
    BY <2>1, <2>2 DEF SeqFits
  <2>4. PrevFits(at, x, i)
    BY DEF Linked
  <2>5. CASE i = 1
    BY <1>1, <2>5
  <2>6. CASE i # 1
    BY <2>3, <2>4, <2>6 DEF PrevFits
  <2> QED
    BY <2>5, <2>6
<1>2. ~ Fits(1)
  BY <1>1 DEF Linked
<1> DEFINE First(i) == /\ ~ (SeqFits(h, x, i) /\ PrevFits(h, x, i))
                       /\ \A j \in 1 .. i - 1 : SeqFits(h, x, j) /\ PrevFits(h, x, j)
<1>3. First(1)
  BY <1>2
<1>4. ASSUME NEW i \in 1 .. Len(x), First(i) PROVE i = 1
  <2>1. CASE i # 1
    <3>1. 1 \in 1 .. i - 1
      BY <1>ty, <2>1
    <3> QED
      BY <1>2, <1>4, <3>1
  <2> QED
    BY <2>1
<1>5. FirstBreak(h, x) = CHOOSE i \in 1 .. Len(x) : First(i)
  BY DEF FirstBreak
<1> HIDE DEF First
<1> QED
  BY <1>ty, <1>3, <1>4, <1>5

LEMMA NoRejection ==
    ASSUME ShipInv, NEW s \in Shippers, ship[s].stage = "wait"
    PROVE  Status(Batch(s)) # 422
<1> DEFINE x == Batch(s).index
           at == IF ship[s].sent = 0 THEN ship[s].after ELSE HeadAt(ship[s].run[ship[s].sent])
<1>1. x \in Seq(Frame) /\ x # <<>> /\ Linked(at, x)
  BY HeldBatch DEF Requests
<1>2. vault \in Seq(Frame) /\ HeadOf(vault) \in Heads
  BY HeadOfType DEF ShipInv, ShipTypeInv, Frame
<1>3. at.seq \in Int
  <2>1. /\ ship[s].after \in Heads /\ ship[s].run \in Seq(Frame) /\ ship[s].sent \in Nat
        /\ ship[s].sent < Len(ship[s].run)
    BY HeldBatch DEF ShipInv, ShipTypeInv, Memory
  <2>2. CASE ship[s].sent = 0
    BY <2>1, <2>2 DEF Heads, NoHead
  <2>3. CASE ship[s].sent # 0
    <3>1. ship[s].sent \in 1 .. Len(ship[s].run)
      BY <2>1, <2>3
    <3>2. ship[s].run[ship[s].sent] \in Frame
      BY <2>1, <3>1
    <3> QED
      BY <2>3, <3>2 DEF Frame, FrameOver, HeadAt
  <2> QED
    BY <2>2, <2>3
<1> HIDE DEF x, at
<1>4. ~ Linked(HeadOf(vault), x) => FirstBreak(HeadOf(vault), x) = 1
  BY <1>1, <1>2, <1>3, BreaksFirst
<1> QED
  BY <1>4 DEF Status, Accepts, x

LEMMA NotRejectedStep == LogInv /\ ShipInv /\ NotRejected /\ [ShipNext]_vars => NotRejected'
<1> SUFFICES ASSUME LogInv, ShipInv, NotRejected, [ShipNext]_vars, NEW t \in Shippers
             PROVE  ship'[t].answer.status # 422
  BY DEF NotRejected
<1>ty. ship \in [Shippers -> Memory] /\ ship[t].answer.status # 422
  BY DEF ShipInv, ShipTypeInv, NotRejected
<1>1. CASE UNCHANGED ship
  BY <1>1, <1>ty
<1>2. ASSUME NEW s \in Shippers, NEW m, m.answer = NoAnswer, ship' = [ship EXCEPT ![s] = m]
      PROVE  ship'[t].answer.status # 422
  BY <1>2, <1>ty DEF NoAnswer
<1>3. ASSUME NEW s \in Shippers, NEW stage, ship' = [ship EXCEPT ![s].stage = stage]
      PROVE  ship'[t].answer.status # 422
  <2>1. ship'[t].answer = ship[t].answer
    BY <1>3, <1>ty DEF Memory
  <2> QED
    BY <1>ty, <2>1
<1>off. /\ Off.answer = NoAnswer
        /\ [Off EXCEPT !.stage = "pending", !.recover = TRUE].answer = NoAnswer
        /\ [Off EXCEPT !.stage = "pending"].answer = NoAnswer
  BY DEF Off
<1>4. ASSUME NEW s \in Shippers, VaultAnswers(s) PROVE ship'[t].answer.status # 422
  <2>1. Status(Batch(s)) # 422
    BY <1>4, NoRejection DEF VaultAnswers
  <2>q. PICK status : status = Status(Batch(s))
    OBVIOUS
  <2>2. ship'[s].answer.status = status /\ \A u \in Shippers \ {s} : ship'[u] = ship[u]
    BY <1>4, <2>q, Answered DEF ShipInv
  <2> QED
    BY <1>ty, <2>1, <2>q, <2>2
<1>5. ASSUME NEW s \in Shippers, ReadPending(s) PROVE ship'[t].answer.status # 422
  <2>1. CASE UpToDate(s)
    <3>1. ship' = [ship EXCEPT ![s].stage = "finish"]
      BY <2>1 DEF UpToDate, Goto
    <3>2. ship'[t].answer = ship[t].answer
      BY <1>ty, <3>1 DEF Memory
    <3> QED
      BY <1>ty, <3>2
  <2>2. CASE PendingFails(s)
    BY <1>2, <1>off, <2>2 DEF PendingFails, End
  <2>3. CASE PendingFound(s)
    <3>1. ship'[s].answer = ship[s].answer /\ \A u \in Shippers \ {s} : ship'[u] = ship[u]
      BY <2>3, Refilled DEF ShipInv
    <3>2. ship[s].answer.status # 422
      BY DEF NotRejected
    <3> QED
      BY <1>ty, <3>1, <3>2
  <2> QED
    BY <1>5, <2>1, <2>2, <2>3 DEF ReadPending
<1>6. ASSUME NEW s \in Shippers, WriteShipped(s) PROVE ship'[t].answer.status # 422
  BY <1>6, <1>ty, Acked DEF ShipInv, NoAnswer
<1>7. ASSUME NEW s \in Shippers,
             \/ StartRun(s) \/ StopOnVerdict(s) \/ Unreachable(s) \/ KillRun(s)
             \/ Recover(s) \/ Finish(s)
      PROVE  ship'[t].answer.status # 422
  <2>1. CASE StartRun(s)
    BY <1>2, <1>off, <2>1 DEF StartRun
  <2>2. CASE Recover(s)
    BY <1>2, <1>off, <2>2 DEF Recover
  <2>3. CASE ~ StartRun(s) /\ ~ Recover(s)
    <3>1. ship' = [ship EXCEPT ![s] = Off]
      BY <1>7, <2>3 DEF StopOnVerdict, Unreachable, KillRun, Finish, End
    <3> QED
      BY <1>2, <1>off, <3>1
  <2> QED
    BY <2>1, <2>2, <2>3
<1>8. ASSUME NEW s \in Shippers, Send(s) \/ TakeAnswer(s) PROVE ship'[t].answer.status # 422
  BY <1>2, <1>3, <1>8, <1>off DEF Send, TakeAnswer, Goto, End
<1>9. ASSUME NEW s \in Shippers, WantsLock(s) \/ OpensLock(s) \/ TakesLock(s)
      PROVE  UNCHANGED ship
  BY <1>9 DEF WantsLock, OpensLock, TakesLock, shipVars
<1>10. ASSUME NEW q \in late, LateArrival(q) PROVE UNCHANGED ship
  BY <1>10 DEF LateArrival
<1> QED
  BY <1>1, <1>4, <1>5, <1>6, <1>7, <1>8, <1>9, <1>10 DEF ShipNext, RunStep, vars, shipVars

LEMMA NotRejectedHolds == ShipSpec => [](LogInv /\ ShipInv /\ NotRejected)
<1>1. Init => NotRejected
  BY DEF Init, NotRejected, Off, NoAnswer
<1> QED
  BY <1>1, NotRejectedStep, ShipHolds, PTL DEF ShipSpec

-----------------------------------------------------------------------------
(* Why a run stops.                                                        *)

LEMMA FailuresGrow ==
    ASSUME LogInv, [Next]_logVars
    PROVE  failures' = 0 => failures = 0
<1>ty. failures \in Nat
  BY DEF LogInv, TypeInv, TypeOK
<1>1. ASSUME NEW r \in Recorders, FailAppend(r) PROVE failures' = failures + 1
  BY <1>1 DEF FailAppend
<1>2. ASSUME NEW r \in Recorders,
             \/ StartAppend(r) \/ ReadHead(r) \/ TakeLink(r) \/ Refuse(r)
             \/ WriteFrame(r) \/ WriteTmp(r) \/ RenameHead(r)
      PROVE  UNCHANGED failures
  BY <1>2 DEF StartAppend, ReadHead, TakeLink, Refuse, WriteFrame, WriteTmp, RenameHead,
              recorderVars
<1>3. CASE Quiet
  BY <1>3 DEF Quiet, recorderVars
<1> QED
  BY <1>ty, <1>1, <1>2, <1>3, QuietSteps DEF LogInv, TypeInv

(* What is pending follows `shipped` and verifies, unless a line is torn.  *)
LEMMA VerdictIsSound ==
    ASSUME ShipInv, NEW s \in Shippers, ship[s].stage = "send"
    PROVE  Verdict(s) \in {"ok", "TornTail"}
<1>1. /\ Linked(ship[s].after, ship[s].run) /\ ship[s].run \in Seq(Frame)
      /\ ship[s].sent \in Nat /\ (ship[s].sent < Len(ship[s].run) \/ ship[s].cut)
  BY DEF ShipInv, ShipTypeInv, RunInv, Pushing, Memory
<1>2. ~ ship[s].cut => ship[s].run # <<>>
  BY <1>1
<1> QED
  BY <1>1, <1>2 DEF Verdict, VerifySegment

(* read_pending finds nothing wrong with a session no append died in.      *)
LEMMA RefusalIsSound ==
    ASSUME LogInv, ShipInv, NEW s \in Shippers, pc[s] = "busy", failures = 0,
           ~ NothingPending
    PROVE  Refusal \in {"closed", "none"}
<1>1. PICK m \in 0 .. Len(frames) : shipped = HeadAfter(m)
  BY VaultedInLog DEF ShipInv, VaultInv, AtLog
<1>2. /\ shipped # NoHead => Carrying(shipped.seq) # {}
      /\ Region = SubSeq(frames, m + 1, Len(frames))
  BY <1>1, RegionIsTail
<1>3. Region # <<>>
  <2>1. m # Len(frames)
    BY <1>1, HeadIsTip DEF NothingPending
  <2>2. Len(Region) = Len(frames) - m /\ Len(frames) \in Nat
    BY <1>2, TailLinked, LogIsNumbered
  <2> QED
    BY <2>1, <2>2
<1> QED
  BY <1>2, <1>3 DEF Refusal

LEMMA OutcomeDomain ==
    ASSUME DOMAIN outcome = Shippers, [ShipNext]_vars
    PROVE  DOMAIN outcome' = Shippers
<1>1. ASSUME NEW s, NEW how, End(s, how) PROVE DOMAIN outcome' = Shippers
  BY <1>1 DEF End
<1>2. ASSUME NEW s \in Shippers, RunStep(s) PROVE DOMAIN outcome' = Shippers
  BY <1>1, <1>2 DEF RunStep, WantsLock, OpensLock, TakesLock, shipVars, ReadPending, UpToDate,
     PendingFails, PendingFound, StopOnVerdict, Send, Goto, TakeAnswer, WriteShipped,
     Recover, Finish
<1>3. ASSUME NEW s \in Shippers,
             StartRun(s) \/ KillRun(s) \/ VaultAnswers(s) \/ Unreachable(s)
      PROVE  DOMAIN outcome' = Shippers
  BY <1>1, <1>3 DEF StartRun, KillRun, VaultAnswers, Unreachable
<1>4. ASSUME NEW q \in late, LateArrival(q) PROVE DOMAIN outcome' = Shippers
  BY <1>4 DEF LateArrival
<1> QED
  BY <1>2, <1>3, <1>4 DEF ShipNext, vars, shipVars

(* The stops of a log no append died in are divergences.                   *)
LEMMA StopsAre ==
    ASSUME LogInv, ShipInv, NotRejected, [ShipNext]_vars, failures = 0,
           DOMAIN outcome = Shippers, NEW t \in Shippers
    PROVE  /\ DOMAIN outcome' = Shippers
           /\ \/ outcome'[t] = outcome[t]
              \/ outcome'[t] \notin Stops
              \/ TakeAnswer(t) /\ outcome'[t] = "diverged"
<1> DEFINE Fine == /\ DOMAIN outcome' = Shippers
                   /\ \/ outcome'[t] = outcome[t]
                      \/ outcome'[t] \notin Stops
                      \/ TakeAnswer(t) /\ outcome'[t] = "diverged"
<1>1. UNCHANGED outcome => Fine
  OBVIOUS
<1>2. ASSUME NEW s \in Shippers, NEW how, End(s, how), how \notin Stops PROVE Fine
  BY <1>2 DEF End
<1>3. ASSUME NEW s \in Shippers, ReadPending(s) PROVE Fine
  <2>1. CASE PendingFails(s)
    <3>1. Refusal = "closed" /\ End(s, Refusal)
      BY <1>3, <2>1, RefusalIsSound DEF ReadPending, PendingFails
    <3> QED
      BY <1>2, <3>1 DEF Stops
  <2>2. CASE ~ PendingFails(s)
    BY <1>1, <1>3, <2>2 DEF ReadPending, UpToDate, PendingFound, Goto
  <2> QED
    BY <2>1, <2>2
<1>4. ASSUME NEW s \in Shippers, StopOnVerdict(s) PROVE Fine
  <2>1. Verdict(s) = "TornTail" /\ End(s, Verdict(s))
    BY <1>4, VerdictIsSound DEF StopOnVerdict
  <2> QED
    BY <1>2, <2>1 DEF Stops
<1>5. ASSUME NEW s \in Shippers, TakeAnswer(s) PROVE Fine
  <2>1. CASE UNCHANGED outcome
    BY <1>1, <2>1
  <2>2. CASE outcome' = [outcome EXCEPT ![s] = "diverged"]
    BY <1>5, <2>2
  <2>3. ship[s].answer.status # 422
    BY DEF NotRejected
  <2> DEFINE why == IF ship[s].answer.status = 422 THEN "rejected" ELSE "diverged"
  <2>4. UNCHANGED outcome \/ outcome' = [outcome EXCEPT ![s] = why]
    BY <1>5 DEF TakeAnswer, Goto, End
  <2>5. why = "diverged"
    BY <2>3
  <2> HIDE DEF Fine, why
  <2> QED
    BY <2>1, <2>2, <2>4, <2>5
<1>6. ASSUME NEW s \in Shippers, Unreachable(s) \/ Finish(s) PROVE Fine
  <2>1. \E how \in {"Unreachable", "torn", "Done"} : End(s, how)
    BY <1>6 DEF Unreachable, Finish
  <2> QED
    BY <1>2, <2>1 DEF Stops
<1>7. ASSUME NEW s \in Shippers,
             \/ WantsLock(s) \/ OpensLock(s) \/ TakesLock(s) \/ Send(s) \/ WriteShipped(s)
             \/ Recover(s) \/ StartRun(s) \/ KillRun(s) \/ VaultAnswers(s)
      PROVE  Fine
  BY <1>1, <1>7 DEF WantsLock, OpensLock, TakesLock, shipVars, Send, Goto, WriteShipped,
                    Recover, StartRun, KillRun, VaultAnswers
<1>8. ASSUME NEW q \in late, LateArrival(q) PROVE Fine
  BY <1>1, <1>8 DEF LateArrival
<1>9. ASSUME UNCHANGED shipVars PROVE Fine
  BY <1>1, <1>9 DEF shipVars
<1> HIDE DEF Fine
<1>10. UNCHANGED vars => UNCHANGED shipVars
  BY DEF vars
<1>11. ASSUME NEW s \in Shippers, RunStep(s) PROVE Fine
  BY <1>3, <1>4, <1>5, <1>6, <1>7, <1>11 DEF RunStep
<1>12. Fine
  BY <1>6, <1>7, <1>8, <1>9, <1>10, <1>11 DEF ShipNext
<1> QED
  BY <1>12 DEF Fine

(* A session no append died in stops a run, if at all, by a divergence.    *)
OnlyDiverges ==
    /\ DOMAIN outcome = Shippers
    /\ failures = 0 => \A s \in Shippers : outcome[s] \in Stops => outcome[s] = "diverged"

(* Whatever the network does and however many runs push at once, a run     *)
(* never stops a session for a missing line, inconsistent sidecars, a      *)
(* rejected batch or a chain that does not verify (read_pending,           *)
(* verify_segment, a 422), as long as no append died before `head`.        *)
THEOREM StopsOnlyForDivergence == ShipSpec => []OnlyDiverges
<1>1. Init => OnlyDiverges
  BY DEF Init, OnlyDiverges, Stops
<1>2. ASSUME LogInv, ShipInv, NotRejected, OnlyDiverges, [ShipNext]_vars
      PROVE  OnlyDiverges'
  <2>1. DOMAIN outcome' = Shippers
    BY <1>2, OutcomeDomain DEF OnlyDiverges
  <2>2. ASSUME failures' = 0, NEW t \in Shippers, outcome'[t] \in Stops
        PROVE  outcome'[t] = "diverged"
    <3>1. failures = 0
      BY <1>2, <2>2, ShipStepOfLog, FailuresGrow
    <3> QED
      BY <1>2, <2>2, <3>1, StopsAre DEF OnlyDiverges
  <2> QED
    BY <2>1, <2>2 DEF OnlyDiverges
<1> QED
  BY <1>1, <1>2, NotRejectedHolds, PTL DEF ShipSpec

-----------------------------------------------------------------------------
(* One run at a time.                                                      *)

OneRun == \A s, t \in Shippers : s = t

Tip == HeadOf(vault)
(* Where the batch a run is at begins, and the last frame it will send.    *)
Reached(s) == IF ship[s].sent = 0 THEN ship[s].after ELSE HeadAt(ship[s].run[ship[s].sent])
Reach(s) == ship[s].after.seq + Len(ship[s].run)
(* The batch in hand was taken, or the vault named another head.           *)
Taken(s) == ship[s].stage = "ack" \/ (ship[s].stage = "wait" /\ ship[s].answer.status = 200)
Behind(s) ==
    ship[s].stage = "recover" \/ (ship[s].stage = "wait" /\ ship[s].answer.status \notin {0, 200})

(* A request that may still arrive begins at or before the frame after     *)
(* `shipped`.                                                              *)
LateInv == \A q \in late : q.index[1].seq <= shipped.seq + 1

(* Nobody else moves `shipped` under a run, and the vault holds nothing    *)
(* past what the run read.  When the vault names another head it is ahead  *)
(* of `shipped`, and the run has its one recovery left: once it is spent   *)
(* the two agree, and no late request can part them again.                 *)
AloneInv(s) ==
    /\ ship[s].stage \in Pushing =>
           /\ shipped = Reached(s)
           /\ Tip.seq <= Reach(s)
           /\ \A q \in late : HeadOf(q.index).seq <= Reach(s)
    /\ Behind(s) =>
           /\ ship[s].recover /\ ship[s].answer.status = 409
           /\ ship[s].answer.head = Tip /\ Tip.seq > shipped.seq
    /\ ship[s].stage # "off" /\ ~ ship[s].recover =>
           /\ \A q \in late : q.index[1].seq <= shipped.seq
           /\ Tip = IF Taken(s) THEN HeadAt(ship[s].run[BatchEnd(s)]) ELSE shipped
OneRunInv == LateInv /\ \A s \in Shippers : AloneInv(s)

(* The vault's head is the last of what it holds.                          *)
LEMMA TipIsLast ==
    ASSUME LogInv, ShipInv
    PROVE  /\ Tip \in Heads /\ Tip.seq = Len(vault) - 1 /\ Tip.seq \in Int
           /\ Len(vault) \in Nat /\ Len(frames) \in Nat /\ Tip.seq <= Len(frames) - 1
           /\ \A h : Vaulted(h) => /\ h \in Heads /\ h.seq \in Int /\ h.seq <= Tip.seq
                                   /\ h.seq = Tip.seq => h = Tip
<1>1. /\ vault \in Seq(Frame) /\ Len(vault) \in Nat /\ Len(vault) <= Len(frames)
      /\ \A i \in 1 .. Len(vault) : vault[i].seq = i - 1 /\ vault[i] \in Frame
      /\ Len(frames) \in Nat
  BY VaultPrefix, LogIsNumbered
<1>2. Tip \in Heads
  BY <1>1, HeadOfType DEF Tip, Frame
<1>3. Tip.seq = Len(vault) - 1
  <2>1. CASE vault = <<>>
    BY <2>1 DEF Tip, HeadOf, NoHead
  <2>2. CASE vault # <<>>
    <3>1. Len(vault) \in 1 .. Len(vault)
      BY <1>1, <2>2
    <3> QED
      BY <1>1, <2>2, <3>1 DEF Tip, HeadOf, HeadAt
  <2> QED
    BY <2>1, <2>2
<1>4. ASSUME NEW h, Vaulted(h)
      PROVE  /\ h \in Heads /\ h.seq \in Int /\ h.seq <= Tip.seq
             /\ h.seq = Tip.seq => h = Tip
  <2>1. CASE h = NoHead
    <3>1. h \in Heads /\ h.seq = -1
      BY <2>1 DEF Heads, NoHead
    <3>2. ASSUME Tip.seq = -1 PROVE Tip = NoHead
      BY <1>2, <3>2 DEF Heads
    <3> QED
      BY <1>1, <1>3, <2>1, <3>1, <3>2
  <2>2. ASSUME NEW i \in 1 .. Len(vault), h = HeadAt(vault[i])
        PROVE  /\ h \in Heads /\ h.seq = i - 1
               /\ i = Len(vault) => h = Tip
    <3>1. vault[i] \in Frame /\ vault[i].seq = i - 1 /\ vault # <<>>
      BY <1>1, <2>2
    <3> QED
      BY <2>2, <3>1 DEF Frame, FrameOver, HeadAt, Heads, Tip, HeadOf
  <2> QED
    BY <1>1, <1>3, <1>4, <2>1, <2>2 DEF Vaulted
<1> QED
  BY <1>1, <1>2, <1>3, <1>4

(* The frames of a run are numbered from the one it continues.             *)
LEMMA RunIsNumbered ==
    ASSUME ShipInv, NEW s \in Shippers, ship[s].stage \in Pushing
    PROVE  /\ ship[s].run \in Seq(Frame) /\ Len(ship[s].run) \in Nat
           /\ ship[s].after \in Heads /\ ship[s].after.seq \in Int /\ ship[s].sent \in Nat
           /\ \A i \in 1 .. Len(ship[s].run) :
                  /\ ship[s].run[i] \in Frame /\ ship[s].run[i].seq = ship[s].after.seq + i
                  /\ HeadAt(ship[s].run[i]) \in Heads
                  /\ HeadAt(ship[s].run[i]).seq = ship[s].after.seq + i
<1>1. /\ ship[s].run \in Seq(Frame) /\ ship[s].after \in Heads /\ ship[s].sent \in Nat
      /\ Linked(ship[s].after, ship[s].run)
  BY DEF ShipInv, ShipTypeInv, RunInv, Memory
<1>2. ship[s].after.seq \in Int /\ Len(ship[s].run) \in Nat
  BY <1>1 DEF Heads, NoHead
<1>3. \A i \in 1 .. Len(ship[s].run) :
          ship[s].run[i] \in Frame /\ ship[s].run[i].seq = ship[s].after.seq + i
  BY <1>1 DEF Linked, SeqFits
<1>4. ASSUME NEW f \in Frame PROVE HeadAt(f) \in Heads /\ HeadAt(f).seq = f.seq
  BY DEF Frame, FrameOver, HeadAt, Heads
<1> QED
  BY <1>1, <1>2, <1>3, <1>4

(* The batch in hand begins after `shipped` and ends within reach.         *)
LEMMA BatchInHand ==
    ASSUME ShipInv, NEW s \in Shippers, AloneInv(s), ship[s].stage \in {"wait", "ack"}
    PROVE  LET x == Batch(s).index
               end == HeadAt(ship[s].run[BatchEnd(s)])
           IN  /\ Batch(s) \in Requests /\ x # <<>> /\ HeadOf(x) = end
               /\ Linked(shipped, x) /\ x[1].seq = shipped.seq + 1
               /\ shipped.seq \in Int /\ end \in Heads
               /\ shipped.seq < end.seq /\ end.seq <= Reach(s)
<1>1. /\ ship[s].sent < Len(ship[s].run) /\ BatchEnd(s) \in ship[s].sent + 1 .. Len(ship[s].run)
      /\ Batch(s) \in Requests /\ Batch(s).index # <<>>
      /\ HeadOf(Batch(s).index) = HeadAt(ship[s].run[BatchEnd(s)])
      /\ Linked(Reached(s), Batch(s).index)
  BY HeldBatch DEF Reached
<1>2. shipped = Reached(s)
  BY DEF AloneInv, Pushing
<1>3. /\ ship[s].after.seq \in Int /\ ship[s].sent \in Nat /\ Len(ship[s].run) \in Nat
      /\ \A i \in 1 .. Len(ship[s].run) :
             /\ HeadAt(ship[s].run[i]) \in Heads
             /\ HeadAt(ship[s].run[i]).seq = ship[s].after.seq + i
  BY RunIsNumbered DEF Pushing
<1>4. Reached(s).seq = ship[s].after.seq + ship[s].sent
  <2>1. CASE ship[s].sent = 0
    BY <1>3, <2>1 DEF Reached
  <2>2. CASE ship[s].sent # 0
    <3>1. ship[s].sent \in 1 .. Len(ship[s].run)
      BY <1>1, <1>3, <2>2
    <3>2. HeadAt(ship[s].run[ship[s].sent]).seq = ship[s].after.seq + ship[s].sent
      BY <1>3, <3>1
    <3> QED
      BY <2>2, <3>2 DEF Reached
  <2> QED
    BY <2>1, <2>2
<1>5. BatchEnd(s) \in 1 .. Len(ship[s].run) /\ BatchEnd(s) \in Nat
  BY <1>1, <1>3
<1>6. LET end == HeadAt(ship[s].run[BatchEnd(s)])
      IN  end \in Heads /\ end.seq = ship[s].after.seq + BatchEnd(s)
  BY <1>3, <1>5
<1>7. 1 \in 1 .. Len(Batch(s).index)
  BY <1>1 DEF Requests
<1>8. Batch(s).index[1].seq = shipped.seq + 1
  BY <1>1, <1>2, <1>7 DEF Linked, SeqFits
<1> QED
  BY <1>1, <1>2, <1>3, <1>4, <1>5, <1>6, <1>8, SMTT(30) DEF Reach

(* A run that has nothing in hand, with its recovery left or ended.        *)
LEMMA AloneIdle ==
    ASSUME NEW s \in Shippers, ship'[s].stage \notin Pushing,
           ship'[s].stage = "off" \/ ship'[s].recover
    PROVE  AloneInv(s)'
  BY DEF AloneInv, Pushing, Behind

(* What a run that ends leaves on its way begins after `shipped`.          *)
LEMMA AbandonedIsNext ==
    ASSUME ShipInv, NEW s \in Shippers, AloneInv(s), LateInv, Abandon(s), UNCHANGED shipped
    PROVE  LateInv'
<1>1. shipped.seq \in Int
  BY DEF ShipInv, ShipTypeInv, Heads, NoHead
<1>2. CASE ship[s].stage = "wait"
  <2>1. Batch(s).index[1].seq = shipped.seq + 1
    BY <1>2, BatchInHand
  <2> QED
    BY <1>1, <2>1 DEF Abandon, LateInv
<1>3. CASE ship[s].stage # "wait"
  BY <1>3 DEF Abandon, LateInv
<1> QED
  BY <1>2, <1>3

LEMMA AloneEnds ==
    ASSUME ShipInv, NEW s \in Shippers, AloneInv(s), LateInv,
           StopOnVerdict(s) \/ Unreachable(s) \/ Finish(s) \/ KillRun(s) \/ StartRun(s)
    PROVE  LateInv' /\ AloneInv(s)'
<1>1. LateInv'
  <2>1. CASE Unreachable(s) \/ KillRun(s)
    BY <2>1, AbandonedIsNext DEF Unreachable, KillRun
  <2>2. CASE StopOnVerdict(s) \/ Finish(s) \/ StartRun(s)
    BY <2>2 DEF StopOnVerdict, Finish, StartRun, LateInv
  <2> QED
    BY <2>1, <2>2
<1>2. ship \in [Shippers -> Memory]
  BY DEF ShipInv, ShipTypeInv
<1>3. CASE StartRun(s)
  <2>1. ship'[s] = [Off EXCEPT !.stage = "pending", !.recover = TRUE]
    BY <1>2, <1>3 DEF StartRun
  <2>2. ship'[s].stage = "pending" /\ ship'[s].recover
    BY <2>1 DEF Off
  <2> QED
    BY <1>1, <2>2, AloneIdle DEF Pushing
<1>4. CASE StopOnVerdict(s) \/ Unreachable(s) \/ Finish(s) \/ KillRun(s)
  <2>1. ship'[s] = Off
    BY <1>2, <1>4 DEF StopOnVerdict, Unreachable, Finish, KillRun, End
  <2>2. ship'[s].stage = "off"
    BY <2>1 DEF Off
  <2> QED
    BY <1>1, <2>2, AloneIdle DEF Pushing
<1> QED
  BY <1>3, <1>4

LEMMA AlonePending ==
    ASSUME LogInv, ShipInv, NEW s \in Shippers, AloneInv(s), LateInv, ReadPending(s)
    PROVE  LateInv' /\ AloneInv(s)'
<1>1. UNCHANGED <<frames, shipped, vault, late>>
  BY DEF ReadPending, ShipDrops, diskVars, vaultVars
<1>2. LateInv' /\ Tip' = Tip
  BY <1>1 DEF LateInv, Tip
<1>3. ship \in [Shippers -> Memory] /\ ShipTypeInv
  BY DEF ShipInv, ShipTypeInv
<1>4. ~ ship[s].recover => Tip = shipped /\ \A q \in late : q.index[1].seq <= shipped.seq
  BY DEF ReadPending, AloneInv, Taken
<1>5. CASE UpToDate(s)
  <2>1. ship' = [ship EXCEPT ![s].stage = "finish"]
    BY <1>5 DEF UpToDate, Goto
  <2>2. ship'[s].stage = "finish" /\ ship'[s].recover = ship[s].recover
    BY <1>3, <2>1, GoneTo
  <2> QED
    BY <1>1, <1>2, <1>4, <2>2 DEF AloneInv, Pushing, Behind, Taken
<1>6. CASE PendingFails(s)
  <2>1. ship'[s].stage = "off"
    BY <1>3, <1>6 DEF PendingFails, End, Off
  <2> QED
    BY <1>2, <2>1, AloneIdle DEF Pushing
<1>7. CASE PendingFound(s)
  <2>1. /\ ship'[s].stage = "send" /\ ship'[s].recover = ship[s].recover
        /\ ship'[s].after = shipped /\ ship'[s].run = Region /\ ship'[s].sent = 0
    BY <1>3, <1>7, Refilled
  <2>2. PICK m \in 0 .. Len(frames) : shipped = HeadAfter(m)
    BY VaultedInLog DEF ShipInv, VaultInv, AtLog
  <2>3. shipped.seq = m - 1 /\ Len(Region) = Len(frames) - m /\ Len(frames) \in Nat
    BY <2>2, HeadAfterSeq, RegionIsTail, TailLinked, LogIsNumbered
  <2>4. Reach(s)' = Len(frames) - 1
    BY <2>1, <2>3 DEF Reach
  <2>5. Tip'.seq <= Reach(s)'
    BY <1>2, <2>4, TipIsLast
  <2>6. ASSUME NEW q \in late' PROVE HeadOf(q.index).seq <= Reach(s)'
    <3>1. q.index \in Seq(Frame) /\ q.index # <<>> /\ FromLog(q.index)
      BY <1>1, <2>6 DEF ShipInv, ShipTypeInv, VaultInv, Requests
    <3>2. Len(q.index) \in 1 .. Len(q.index)
      BY <3>1
    <3>3. HeadOf(q.index).seq = q.index[Len(q.index)].seq
      BY <3>1 DEF HeadOf, HeadAt
    <3>4. q.index[Len(q.index)].seq + 1 \in 1 .. Len(frames) /\ q.index[Len(q.index)] \in Frame
      BY <3>1, <3>2 DEF FromLog
    <3>5. q.index[Len(q.index)].seq \in Nat
      BY <3>4 DEF Frame, FrameOver
    <3> QED
      BY <2>3, <2>4, <3>3, <3>4, <3>5
  <2>7. shipped' = Reached(s)'
    BY <1>1, <2>1 DEF Reached
  <2>8. ~ Behind(s)' /\ ~ Taken(s)'
    BY <2>1 DEF Behind, Taken
  <2> QED
    BY <1>1, <1>2, <1>4, <2>1, <2>5, <2>6, <2>7, <2>8 DEF AloneInv
<1> QED
  BY <1>5, <1>6, <1>7 DEF ReadPending

(* Only its stage changes.                                                 *)
LEMMA AloneGoes ==
    ASSUME ShipInv, NEW s \in Shippers, AloneInv(s), LateInv,
           UNCHANGED <<shipped, vault, late>>, NEW stage \in Pushing,
           ship[s].stage \in Pushing, ship' = [ship EXCEPT ![s].stage = stage],
           Behind(s)' => Behind(s), Taken(s)' <=> Taken(s)
    PROVE  LateInv' /\ AloneInv(s)'
<1>1. /\ ship'[s].stage = stage /\ ship'[s].recover = ship[s].recover
      /\ ship'[s].after = ship[s].after /\ ship'[s].run = ship[s].run
      /\ ship'[s].sent = ship[s].sent /\ ship'[s].answer = ship[s].answer
  BY GoneTo DEF ShipInv
<1>2. /\ Reached(s)' = Reached(s) /\ Reach(s)' = Reach(s) /\ BatchEnd(s)' = BatchEnd(s)
      /\ Tip' = Tip /\ LateInv'
  BY <1>1 DEF Reached, Reach, BatchEnd, Tip, LateInv
<1>3. ship[s].stage # "off"
  BY DEF Pushing
<1> QED
  BY <1>1, <1>2, <1>3 DEF AloneInv

LEMMA AloneSends ==
    ASSUME ShipInv, NEW s \in Shippers, AloneInv(s), LateInv, Send(s)
    PROVE  LateInv' /\ AloneInv(s)'
<1>1. /\ UNCHANGED <<shipped, vault, late>> /\ ship[s].stage = "send"
      /\ ship' = [ship EXCEPT ![s].stage = "wait"]
  BY DEF Send, Goto, vaultVars
<1>2. ship[s].answer = NoAnswer
  BY <1>1 DEF ShipInv, RunInv
<1>3. ship'[s].stage = "wait" /\ ship'[s].answer = NoAnswer
  BY <1>1, <1>2, GoneTo DEF ShipInv
<1>4. ~ Behind(s)' /\ ~ Taken(s)' /\ ~ Taken(s)
  BY <1>1, <1>3 DEF Behind, Taken, NoAnswer
<1> QED
  BY <1>1, <1>4, AloneGoes DEF Pushing

LEMMA AloneTakesAnswer ==
    ASSUME ShipInv, NEW s \in Shippers, AloneInv(s), LateInv, TakeAnswer(s)
    PROVE  LateInv' /\ AloneInv(s)'
<1>1. UNCHANGED <<shipped, vault, late>> /\ ship[s].stage = "wait"
  BY DEF TakeAnswer, vaultVars
<1>2. ship \in [Shippers -> Memory] /\ ShipTypeInv
  BY DEF ShipInv, ShipTypeInv
<1>3. ASSUME ship[s].answer.status = 200, ship' = [ship EXCEPT ![s].stage = "ack"]
      PROVE  LateInv' /\ AloneInv(s)'
  <2>1. ship'[s].stage = "ack"
    BY <1>2, <1>3, GoneTo
  <2>2. ~ Behind(s)' /\ Taken(s)' /\ Taken(s)
    BY <1>1, <1>3, <2>1 DEF Behind, Taken
  <2> QED
    BY <1>1, <1>3, <2>2, AloneGoes DEF Pushing
<1>4. ASSUME ship[s].answer.status = 409, ship' = [ship EXCEPT ![s].stage = "recover"]
      PROVE  LateInv' /\ AloneInv(s)'
  <2>1. ship'[s].stage = "recover"
    BY <1>2, <1>4, GoneTo
  <2>2. Behind(s) /\ ~ Taken(s)' /\ ~ Taken(s)
    BY <1>1, <1>4, <2>1 DEF Behind, Taken
  <2> QED
    BY <1>1, <1>4, <2>2, AloneGoes DEF Pushing
<1>5. ASSUME NEW how, End(s, how) PROVE LateInv' /\ AloneInv(s)'
  <2>1. ship'[s].stage = "off"
    BY <1>2, <1>5 DEF End, Off
  <2> QED
    BY <1>1, <2>1, AloneIdle DEF Pushing, LateInv
<1> QED
  BY <1>3, <1>4, <1>5 DEF TakeAnswer, Goto

(* What the vault takes is the new head of what it holds.                  *)
LEMMA TakenIsTip ==
    ASSUME ShipTypeInv, NEW q \in Requests, q.index # <<>>, VaultTakes(q)
    PROVE  /\ Accepts(q) => Tip' = HeadOf(q.index) /\ q.index[1].seq = Tip.seq + 1
           /\ ~ Accepts(q) => Tip' = Tip
<1>1. CASE Accepts(q)
  <2>1. /\ vault \in Seq(Frame) /\ q.index \in Seq(Frame) /\ vault' = vault \o q.index
        /\ Linked(Tip, q.index)
    BY <1>1 DEF ShipTypeInv, Requests, VaultTakes, Accepts, Tip
  <2>2. Len(q.index) \in 1 .. Len(q.index) /\ 1 \in 1 .. Len(q.index)
    BY <2>1
  <2>3. /\ Len(vault') = Len(vault) + Len(q.index) /\ vault' \in Seq(Frame)
        /\ vault'[Len(vault) + Len(q.index)] = q.index[Len(q.index)]
    BY <2>1, <2>2, ConcatProperties
  <2>4. vault' # <<>>
    BY <2>1, <2>2, <2>3
  <2>5. HeadOf(vault') = HeadOf(q.index)
    BY <2>3, <2>4 DEF HeadOf
  <2>6. q.index[1].seq = Tip.seq + 1
    BY <2>1, <2>2 DEF Linked, SeqFits
  <2> QED
    BY <1>1, <2>5, <2>6 DEF Tip
<1>2. CASE ~ Accepts(q)
  BY <1>2 DEF VaultTakes, vaultVars, Tip
<1> QED
  BY <1>1, <1>2

LEMMA AloneAnswered ==
    ASSUME LogInv, ShipInv, NEW s \in Shippers, AloneInv(s), LateInv, VaultAnswers(s)
    PROVE  LateInv' /\ AloneInv(s)'
<1>q. PICK q : q = Batch(s)
  OBVIOUS
<1> DEFINE end == HeadAt(ship[s].run[BatchEnd(s)])
<1>1. /\ UNCHANGED <<shipped, late>> /\ ship[s].stage = "wait" /\ ship[s].answer = NoAnswer
      /\ VaultTakes(q)
  BY <1>q DEF VaultAnswers
<1>2. /\ q \in Requests /\ q.index # <<>> /\ HeadOf(q.index) = end /\ Linked(shipped, q.index)
      /\ end.seq <= Reach(s) /\ shipped.seq \in Int
  BY <1>1, <1>q, BatchInHand
<1>3. /\ ship'[s].stage = "wait" /\ ship'[s].recover = ship[s].recover
      /\ ship'[s].after = ship[s].after /\ ship'[s].run = ship[s].run
      /\ ship'[s].sent = ship[s].sent
      /\ ship'[s].answer.status = Status(q) /\ ship'[s].answer.head = Tip'
  BY <1>1, <1>q, Answered DEF ShipInv, Tip
<1>4. /\ Reached(s)' = Reached(s) /\ Reach(s)' = Reach(s) /\ BatchEnd(s)' = BatchEnd(s)
      /\ HeadAt(ship[s].run[BatchEnd(s)])' = end /\ LateInv'
  BY <1>1, <1>3 DEF Reached, Reach, BatchEnd, LateInv
<1>5. ~ Taken(s) /\ ship[s].stage # "off" /\ ship[s].stage \in Pushing
  BY <1>1 DEF Taken, NoAnswer, Pushing
<1>6. /\ Accepts(q) => Tip' = end
      /\ ~ Accepts(q) => Tip' = Tip
  BY <1>1, <1>2, TakenIsTip DEF ShipInv
<1>7. /\ Tip.seq \in Int /\ shipped.seq <= Tip.seq /\ (shipped.seq = Tip.seq => shipped = Tip)
  BY TipIsLast DEF ShipInv, VaultInv
<1>8. ~ Accepts(q) => Tip.seq > shipped.seq /\ ship[s].recover
  <2>1. ASSUME Tip = shipped PROVE Accepts(q)
    BY <1>2, <2>1 DEF Accepts, Tip
  <2>2. ~ ship[s].recover => Tip = shipped
    BY <1>5 DEF AloneInv
  <2> QED
    BY <1>2, <1>7, <2>1, <2>2
<1>9. Status(q) \in {200, 409} /\ (Accepts(q) => Status(q) = 200)
  <2>1. Status(q) # 422
    BY <1>1, <1>q, NoRejection
  <2> QED
    BY <2>1 DEF Status
<1>10. /\ shipped' = Reached(s)' /\ Tip'.seq <= Reach(s)'
       /\ \A p \in late' : HeadOf(p.index).seq <= Reach(s)'
  <2>1. /\ shipped = Reached(s) /\ Tip.seq <= Reach(s)
        /\ \A p \in late : HeadOf(p.index).seq <= Reach(s)
    BY <1>5 DEF AloneInv
  <2> QED
    BY <1>1, <1>2, <1>4, <1>6, <2>1
<1>11. Behind(s)' => /\ ship'[s].recover /\ ship'[s].answer.status = 409
                     /\ ship'[s].answer.head = Tip' /\ Tip'.seq > shipped'.seq
  <2>1. Behind(s)' => Status(q) = 409 /\ ~ Accepts(q)
    BY <1>3, <1>9 DEF Behind
  <2> QED
    BY <1>1, <1>3, <1>6, <1>8, <2>1
<1>12. ~ ship'[s].recover =>
           /\ \A p \in late' : p.index[1].seq <= shipped'.seq
           /\ Tip' = IF Taken(s)' THEN HeadAt(ship'[s].run[BatchEnd(s)']) ELSE shipped'
  <2>1. ASSUME ~ ship[s].recover PROVE Accepts(q) /\ Taken(s)'
    BY <1>3, <1>8, <1>9, <2>1 DEF Taken
  <2>2. ASSUME ~ ship[s].recover PROVE \A p \in late : p.index[1].seq <= shipped.seq
    BY <1>5, <2>2 DEF AloneInv
  <2> QED
    BY <1>1, <1>3, <1>4, <1>6, <2>1, <2>2
<1>13. AloneInv(s)'
  BY <1>10, <1>11, <1>12 DEF AloneInv
<1> QED
  BY <1>4, <1>13

LEMMA AloneLate ==
    ASSUME LogInv, ShipInv, NEW s \in Shippers, AloneInv(s), LateInv,
           NEW q \in late, LateArrival(q)
    PROVE  LateInv' /\ AloneInv(s)'
<1>1. /\ UNCHANGED <<shipped, ship>> /\ late' = late \ {q} /\ VaultTakes(q)
      /\ q \in Requests /\ q.index # <<>>
  BY DEF LateArrival, ShipInv, ShipTypeInv, VaultInv
<1>2. /\ Reached(s)' = Reached(s) /\ Reach(s)' = Reach(s) /\ BatchEnd(s)' = BatchEnd(s)
      /\ (Taken(s)' <=> Taken(s)) /\ (Behind(s)' <=> Behind(s)) /\ LateInv'
  BY <1>1 DEF Reached, Reach, BatchEnd, Taken, Behind, LateInv
<1>3. /\ Accepts(q) => Tip' = HeadOf(q.index) /\ q.index[1].seq = Tip.seq + 1
      /\ ~ Accepts(q) => Tip' = Tip
  BY <1>1, TakenIsTip DEF ShipInv
<1>4. CASE ~ Accepts(q)
  BY <1>1, <1>2, <1>3, <1>4 DEF AloneInv
<1>5. CASE Accepts(q)
  <2>1. /\ Tip.seq \in Int /\ shipped.seq \in Int /\ shipped.seq <= Tip.seq
    BY TipIsLast DEF ShipInv, VaultInv
  <2>2. Tip.seq = shipped.seq /\ q.index[1].seq = shipped.seq + 1
    BY <1>3, <1>5, <2>1 DEF LateInv
  <2>3. ~ Behind(s) /\ (ship[s].stage = "off" \/ ship[s].recover)
    BY <2>1, <2>2 DEF AloneInv
  <2>4. ship[s].stage \in Pushing =>
            /\ shipped = Reached(s) /\ Tip'.seq <= Reach(s)
            /\ \A p \in late' : HeadOf(p.index).seq <= Reach(s)
    BY <1>1, <1>3, <1>5 DEF AloneInv
  <2> QED
    BY <1>1, <1>2, <2>3, <2>4 DEF AloneInv
<1> QED
  BY <1>4, <1>5

LEMMA AloneAcked ==
    ASSUME LogInv, ShipInv, NEW s \in Shippers, AloneInv(s), LateInv, WriteShipped(s)
    PROVE  LateInv' /\ AloneInv(s)' /\ shipped'.seq >= shipped.seq
<1>1. /\ UNCHANGED <<vault, late>> /\ ship[s].stage = "ack"
      /\ shipped' = HeadAt(ship[s].run[BatchEnd(s)])
  BY DEF WriteShipped, vaultVars
<1>2. /\ ship'[s].stage \in {"send", "finish"} /\ ship'[s].recover = ship[s].recover
      /\ ship'[s].after = ship[s].after /\ ship'[s].run = ship[s].run
      /\ ship'[s].sent = BatchEnd(s)
  BY Acked DEF ShipInv
<1>3. /\ shipped.seq \in Int /\ shipped' \in Heads /\ shipped.seq < shipped'.seq
  BY <1>1, BatchInHand
<1>4. shipped'.seq \in Int
  BY <1>3 DEF Heads, NoHead
<1>5. \A q \in late : q.index[1].seq \in Int
  <2>1. \A q \in late : q.index \in Seq(Frame) /\ q.index # <<>>
    BY DEF ShipInv, ShipTypeInv, VaultInv, Requests
  <2>2. \A q \in late : q.index[1] \in Frame
    BY <2>1
  <2> QED
    BY <2>2 DEF Frame, FrameOver
<1>6. LateInv'
  BY <1>1, <1>3, <1>4, <1>5 DEF LateInv
<1>7. Reached(s)' = shipped' /\ Reach(s)' = Reach(s) /\ Tip' = Tip
  <2>1. BatchEnd(s) # 0
    <3>1. BatchEnd(s) \in ship[s].sent + 1 .. Len(ship[s].run) /\ ship[s].sent \in Nat
      BY <1>1, HeldBatch
    <3> QED
      BY <3>1
  <2> QED
    BY <1>1, <1>2, <2>1 DEF Reached, Reach, Tip
<1>8. ~ Behind(s)' /\ ~ Taken(s)' /\ Taken(s) /\ ship[s].stage # "off"
  BY <1>1, <1>2 DEF Behind, Taken
<1>9. /\ Tip'.seq <= Reach(s)' /\ \A q \in late' : HeadOf(q.index).seq <= Reach(s)'
  BY <1>1, <1>7 DEF AloneInv, Pushing
<1>10. ~ ship'[s].recover => Tip' = shipped' /\ \A q \in late' : q.index[1].seq <= shipped'.seq
  <2>1. ASSUME ~ ship[s].recover
        PROVE  Tip = shipped' /\ \A q \in late : q.index[1].seq <= shipped.seq
    BY <1>1, <1>8, <2>1 DEF AloneInv
  <2> QED
    BY <1>1, <1>2, <1>3, <1>4, <1>5, <1>7, <2>1
<1>11. AloneInv(s)'
  BY <1>7, <1>8, <1>9, <1>10 DEF AloneInv
<1> QED
  BY <1>3, <1>4, <1>6, <1>11

LEMMA AloneRecovers ==
    ASSUME LogInv, ShipInv, NEW s \in Shippers, AloneInv(s), LateInv, Recover(s)
    PROVE  LateInv' /\ AloneInv(s)' /\ shipped'.seq >= shipped.seq
<1>1. /\ UNCHANGED <<vault, late>> /\ ship[s].stage = "recover"
      /\ shipped' = ship[s].answer.head
      /\ ship' = [ship EXCEPT ![s] = [Off EXCEPT !.stage = "pending"]]
  BY DEF Recover, vaultVars
<1>2. shipped' = Tip /\ Tip.seq > shipped.seq /\ Tip' = Tip
  BY <1>1 DEF AloneInv, Behind, Tip
<1>3. Tip.seq \in Int /\ shipped.seq \in Int
  BY TipIsLast DEF ShipInv, VaultInv
<1>4. ship'[s] = [Off EXCEPT !.stage = "pending"]
  BY <1>1 DEF ShipInv, ShipTypeInv
<1>5. ship'[s].stage = "pending"
  BY <1>4 DEF Off
<1>6. \A q \in late : q.index[1].seq \in Int
  <2>1. \A q \in late : q.index \in Seq(Frame) /\ q.index # <<>>
    BY DEF ShipInv, ShipTypeInv, VaultInv, Requests
  <2>2. \A q \in late : q.index[1] \in Frame
    BY <2>1
  <2> QED
    BY <2>2 DEF Frame, FrameOver
<1>7. \A q \in late' : q.index[1].seq <= shipped'.seq
  BY <1>1, <1>2, <1>3, <1>6 DEF LateInv
<1>8. LateInv'
  BY <1>1, <1>2, <1>3, <1>6, <1>7 DEF LateInv
<1>9. AloneInv(s)'
  BY <1>2, <1>5, <1>7 DEF AloneInv, Pushing, Behind, Taken
<1> QED
  BY <1>2, <1>3, <1>8, <1>9

(* A run alone, whose recovery is left, knows the head it is told for one  *)
(* of its own.                                                             *)
LEMMA RecognisesOurs ==
    ASSUME LogInv, ShipInv, NEW s \in Shippers, AloneInv(s),
           ship[s].stage = "wait", ship[s].answer # NoAnswer, ship[s].answer.status # 200
    PROVE  ship[s].answer.status = 409 /\ ship[s].recover /\ Ours(s)
<1>1. ship[s].answer.status # 0
  BY DEF ShipInv, RunInv
<1>2. /\ ship[s].recover /\ ship[s].answer.status = 409
      /\ ship[s].answer.head = Tip /\ Tip.seq > shipped.seq
  BY <1>1 DEF AloneInv, Behind
<1>3. shipped = Reached(s) /\ Tip.seq <= Reach(s)
  BY DEF AloneInv, Pushing
<1>4. /\ ship[s].after.seq \in Int /\ ship[s].sent \in Nat /\ Len(ship[s].run) \in Nat
      /\ ship[s].sent < Len(ship[s].run) /\ FromLog(ship[s].run)
      /\ \A i \in 1 .. Len(ship[s].run) :
             /\ ship[s].run[i].seq = ship[s].after.seq + i
             /\ HeadAt(ship[s].run[i]).seq = ship[s].after.seq + i
  BY HeldBatch, RunIsNumbered DEF Pushing
<1>5. shipped.seq = ship[s].after.seq + ship[s].sent
  <2>1. ship[s].sent # 0 => ship[s].sent \in 1 .. Len(ship[s].run)
    BY <1>4
  <2> QED
    BY <1>3, <1>4, <2>1 DEF Reached
<1>6. /\ Tip.seq = Len(vault) - 1 /\ Len(vault) \in Nat /\ vault \in Seq(Frame)
      /\ \A i \in 1 .. Len(vault) : vault[i] = frames[i]
  BY TipIsLast, VaultPrefix
<1> DEFINE i == Tip.seq - ship[s].after.seq
<1>7. i \in 1 .. Len(ship[s].run) /\ ship[s].after.seq + i = Tip.seq
  BY <1>2, <1>3, <1>4, <1>5, <1>6, SMTT(30) DEF Reach
<1>8. -1 <= ship[s].after.seq
  <2>1. ship[s].after \in Heads
    BY DEF ShipInv, ShipTypeInv, Memory
  <2> QED
    BY <2>1 DEF Heads, NoHead
<1> HIDE DEF i
<1>9. ship[s].run[i] = frames[Len(vault)]
  <2>1. ship[s].run[i].seq + 1 = Len(vault)
    BY <1>4, <1>6, <1>7, SMTT(30)
  <2> QED
    BY <1>4, <1>7, <2>1 DEF FromLog
<1>10. vault # <<>> /\ Len(vault) \in 1 .. Len(vault)
  BY <1>4, <1>6, <1>7, <1>8
<1>11. HeadAt(ship[s].run[i]) = Tip
  BY <1>6, <1>9, <1>10 DEF Tip, HeadOf
<1>12. Tip.seq > ship[s].after.seq
  BY <1>4, <1>6, <1>7
<1> QED
  BY <1>2, <1>7, <1>11, <1>12 DEF Ours

LEMMA OneRunStep ==
    ASSUME OneRun, LogInv, ShipInv, OneRunInv, [ShipNext]_vars
    PROVE  OneRunInv' /\ shipped'.seq >= shipped.seq
<1> DEFINE Good == OneRunInv' /\ shipped'.seq >= shipped.seq
<1>ty. shipped.seq \in Int
  BY DEF ShipInv, ShipTypeInv, Heads, NoHead
<1>1. ASSUME UNCHANGED shipVars PROVE Good
  <2>1. UNCHANGED <<shipped, ship, vault, late>>
    BY <1>1 DEF shipVars, vaultVars
  <2>2. \A s \in Shippers : AloneInv(s) => AloneInv(s)'
    BY <2>1 DEF AloneInv, Reached, Reach, Tip, Behind, Taken, BatchEnd
  <2>3. LateInv'
    BY <2>1 DEF OneRunInv, LateInv
  <2> QED
    BY <1>ty, <2>1, <2>2, <2>3 DEF OneRunInv
<1>2. ASSUME NEW s \in Shippers, LateInv', AloneInv(s)' PROVE OneRunInv'
  <2>1. ASSUME NEW t \in Shippers PROVE AloneInv(t)'
    <3>1. t = s
      BY DEF OneRun
    <3> QED
      BY <1>2, <3>1
  <2> QED
    BY <1>2, <2>1 DEF OneRunInv
<1>3. \A s \in Shippers : AloneInv(s) /\ LateInv
  BY DEF OneRunInv
<1>4. ASSUME NEW s \in Shippers, WriteShipped(s) \/ Recover(s) PROVE Good
  BY <1>2, <1>3, <1>4, AloneAcked, AloneRecovers
<1>5. ASSUME NEW s \in Shippers, UNCHANGED shipped, LateInv', AloneInv(s)' PROVE Good
  BY <1>ty, <1>2, <1>5
<1>6. ASSUME NEW s \in Shippers, ReadPending(s) PROVE Good
  BY <1>3, <1>5, <1>6, AlonePending DEF ReadPending
<1>7. ASSUME NEW s \in Shippers,
             StopOnVerdict(s) \/ Unreachable(s) \/ Finish(s) \/ KillRun(s) \/ StartRun(s)
      PROVE  Good
  <2>1. UNCHANGED shipped
    BY <1>7 DEF StopOnVerdict, Unreachable, Finish, KillRun, StartRun
  <2> QED
    BY <1>3, <1>5, <1>7, <2>1, AloneEnds
<1>8. ASSUME NEW s \in Shippers, Send(s) \/ TakeAnswer(s) \/ VaultAnswers(s) PROVE Good
  <2>1. UNCHANGED shipped
    BY <1>8 DEF Send, TakeAnswer, VaultAnswers
  <2> QED
    BY <1>3, <1>5, <1>8, <2>1, AloneSends, AloneTakesAnswer, AloneAnswered
<1>9. ASSUME NEW q \in late, LateArrival(q) PROVE Good
  <2>1. UNCHANGED shipped
    BY <1>9 DEF LateArrival
  <2>2. \A s \in Shippers : AloneInv(s)'
    BY <1>3, <1>9, AloneLate
  <2>3. LateInv'
    BY <1>9 DEF LateArrival, OneRunInv, LateInv
  <2> QED
    BY <1>ty, <2>1, <2>2, <2>3 DEF OneRunInv
<1>10. ASSUME NEW s \in Shippers, WantsLock(s) \/ OpensLock(s) \/ TakesLock(s) PROVE Good
  BY <1>1, <1>10 DEF WantsLock, OpensLock, TakesLock
<1>11. UNCHANGED vars => UNCHANGED shipVars
  BY DEF vars
<1> HIDE DEF Good
<1>12. ASSUME NEW s \in Shippers, RunStep(s) PROVE Good
  BY <1>4, <1>6, <1>7, <1>8, <1>10, <1>12 DEF RunStep
<1>13. Good
  BY <1>1, <1>7, <1>8, <1>9, <1>11, <1>12 DEF ShipNext
<1> QED
  BY <1>13 DEF Good

LEMMA OneRunInit == Init => OneRunInv
<1> SUFFICES ASSUME Init PROVE OneRunInv
  OBVIOUS
<1>1. late = {} /\ \A s \in Shippers : ship[s].stage = "off"
  BY DEF Init, Off
<1> QED
  BY <1>1 DEF OneRunInv, LateInv, AloneInv, Behind, Pushing

(* `shipped` only moves forward, whatever the network loses, delays or     *)
(* repeats, as long as one run at a time ships a session: the write after  *)
(* a 200 and the recovery after a 409 both name a later frame.             *)
THEOREM OneRunAdvances == OneRun => (ShipSpec => ShippedAdvances)
<1>1. ASSUME OneRun, LogInv, ShipInv, OneRunInv, [ShipNext]_vars
      PROVE  OneRunInv' /\ [shipped'.seq >= shipped.seq]_vars
  BY <1>1, OneRunStep
<1>2. SUFFICES ASSUME OneRun PROVE ShipSpec => ShippedAdvances
  OBVIOUS
<1>3. /\ LogInv /\ ShipInv /\ OneRunInv /\ [ShipNext]_vars
      => OneRunInv' /\ [shipped'.seq >= shipped.seq]_vars
  BY <1>1, <1>2
<1> QED
  BY <1>3, OneRunInit, ShipHolds, PTL DEF ShipSpec, ShippedAdvances

(* One run at a time never stops a session that is whole: a lost answer, a *)
(* death, a late or repeated request is recognised and recovered from      *)
(* within the run (push and its one recovery), as long as no append died   *)
(* before `head`.                                                          *)
THEOREM OneRunNeverStops == OneRun => (ShipSpec => []NoFalseStopUnlessDeath)
<1> DEFINE Fine == /\ DOMAIN outcome = Shippers
                   /\ NoFalseStopUnlessDeath
<1>1. SUFFICES ASSUME OneRun PROVE ShipSpec => []NoFalseStopUnlessDeath
  OBVIOUS
<1>2. Init => Fine
  BY DEF Init, NoFalseStopUnlessDeath, NoFalseStop, Stops
<1>3. LogInv /\ ShipInv /\ OneRunInv /\ [ShipNext]_vars => OneRunInv'
  BY <1>1, OneRunStep
<1>4. ASSUME LogInv, ShipInv, NotRejected, OneRunInv, Fine, [ShipNext]_vars
      PROVE  Fine'
  <2>1. DOMAIN outcome' = Shippers
    BY <1>4, OutcomeDomain
  <2>2. ASSUME failures' = 0, NEW t \in Shippers PROVE outcome'[t] \notin Stops
    <3>1. failures = 0
      BY <1>4, <2>2, ShipStepOfLog, FailuresGrow
    <3>2. outcome[t] \notin Stops
      BY <1>4, <3>1 DEF NoFalseStopUnlessDeath, NoFalseStop
    <3>3. ASSUME TakeAnswer(t) PROVE outcome' = outcome
      <4>1. ship[t].answer.status = 200 \/ (/\ ship[t].answer.status = 409
                                            /\ ship[t].recover /\ Ours(t))
        BY <1>4, <3>3, RecognisesOurs DEF TakeAnswer, OneRunInv
      <4> QED
        BY <3>3, <4>1 DEF TakeAnswer, Goto
    <3> QED
      BY <1>4, <3>1, <3>2, <3>3, StopsAre
  <2> QED
    BY <2>1, <2>2 DEF NoFalseStopUnlessDeath, NoFalseStop
<1>5. Fine => NoFalseStopUnlessDeath
  OBVIOUS
<1> HIDE DEF Fine
<1> QED
  BY <1>2, <1>3, <1>4, <1>5, OneRunInit, NotRejectedHolds, PTL DEF ShipSpec
=============================================================================
