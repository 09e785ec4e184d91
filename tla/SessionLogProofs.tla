-------------------------- MODULE SessionLogProofs --------------------------
(***************************************************************************)
(* What SessionLog promises, for any number of hooks, verifiers and ship   *)
(* runs, any kinds and any bounds.                                         *)
(*                                                                         *)
(* The invariant is built in layers, each proved on top of the ones before *)
(* it: types, the lock, the dense chain; then what follows from that: how  *)
(* far `head` trails the log, that an append which died is repaired, that  *)
(* an event whose append returned Ok is in the log once, what verify says, *)
(* and that the log does what AbstractLog promises.                        *)
(***************************************************************************)
EXTENDS SessionLog, TLAPS

-----------------------------------------------------------------------------
(* Types.                                                                  *)

(* A hook at work has a real event in hand.                                *)
EventInHand ==
    \A r \in Recorders :
        pc[r] # "idle" => event[r] \in [id : Nat \ {0}, kind : Kinds]
TypeInv == TypeOK /\ EventInHand

(* The head of a run of frames is a value `head` can hold.                 *)
LEMMA HeadOfType ==
    ASSUME NEW kinds, NEW s \in Seq(FrameOver(kinds))
    PROVE  HeadOf(s) \in Heads
<1>1. CASE s = <<>>
  BY <1>1 DEF HeadOf, Heads
<1>2. CASE s # <<>>
  <2>1. Len(s) \in Nat /\ Len(s) > 0
    BY <1>2
  <2>2. s[Len(s)] \in FrameOver(kinds)
    BY <2>1
  <2> QED
    BY <1>2, <2>2 DEF HeadOf, HeadAt, Heads, FrameOver
<1> QED
  BY <1>1, <1>2

(* A sealed event is a frame.                                              *)
LEMMA SealType ==
    ASSUME NEW kinds, NEW e \in [id : Nat \ {0}, kind : kinds], NEW at \in Heads
    PROVE  Seal(e, at) \in FrameOver(kinds) /\ HeadAt(Seal(e, at)) \in Heads
  BY DEF Seal, FrameOver, Heads, NoHead, HeadAt, Genesis

(* head_agrees has four answers.                                           *)
LEMMA HeadAgreesType ==
    ASSUME NEW h \in Heads, NEW last \in Heads
    PROVE  HeadAgrees(h, last) \in {"HeadStale", "Truncated", "HeadMismatch", "ok"}
<1>1. h.seq \in Int /\ last.seq \in Int
  BY DEF Heads, NoHead
<1>2. h.seq = last.seq /\ h.hash = last.hash => h = last
  BY DEF Heads, NoHead
<1> QED
  BY <1>1, <1>2 DEF HeadAgrees

(* verify says one of its verdicts.                                        *)
LEMMA WalkVerdictType == WalkVerdict \in Verdicts
<1>1. VerifySegment(NoHead, frames, torn) \in {"ok", "TornTail", "Unsealed", "SeqGap", "PrevMismatch"}
  <2>1. CASE torn
    BY <2>1 DEF VerifySegment
  <2>2. CASE ~torn /\ frames = <<>>
    BY <2>2 DEF VerifySegment
  <2>3. CASE ~torn /\ frames # <<>> /\ Linked(NoHead, frames)
    BY <2>3 DEF VerifySegment
  <2>4. CASE ~torn /\ frames # <<>> /\ ~ Linked(NoHead, frames)
    BY <2>4 DEF VerifySegment
  <2> QED
    BY <2>1, <2>2, <2>3, <2>4
<1> QED
  BY <1>1 DEF WalkVerdict, Verdicts

LEMMA HeadVerdictType ==
    ASSUME head \in Heads, NEW last \in Heads
    PROVE  HeadVerdict(last) \in Verdicts
  BY HeadAgreesType DEF HeadVerdict, Verdicts

(* The three ways to take and leave the lock keep the types: opening it,   *)
(* being granted it, dropping it.                                          *)
LEMMA OpenLockType ==
    ASSUME TypeInv, NEW p \in Processes, OpenLock(p, "flock")
    PROVE  TypeInv'
<1> USE DEF OpenLock, TypeInv, TypeOK, EventInHand, recorderVars, verifierVars
<1>1. lockFile' \in Nat /\ inodes' \in Nat
  OBVIOUS
<1>2. fd' \in [Processes -> Nat]
  BY <1>1
<1>3. pc' \in [Processes -> {"idle", "open", "flock", "events", "busy"} \cup Critical]
  OBVIOUS
<1>4. \A r \in Recorders : pc'[r] # "idle" => pc[r] # "idle"
  BY DEF Processes
<1> QED
  BY <1>1, <1>2, <1>3, <1>4

LEMMA FlockType ==
    ASSUME TypeOK, NEW p \in Processes, NEW mode \in {"exclusive", "shared"},
           Flock(p, mode)
    PROVE  held' \subseteq [by : Processes, on : Nat, mode : {"exclusive", "shared"}]
  BY DEF TypeOK, Flock

LEMMA ReleaseType ==
    ASSUME TypeOK, NEW p \in Processes, Release(p)
    PROVE  held' \subseteq [by : Processes, on : Nat, mode : {"exclusive", "shared"}]
  BY DEF TypeOK, Release

LEMMA EndAppendType ==
    ASSUME TypeInv, NEW r \in Recorders, EndAppend(r),
           UNCHANGED <<dir, lockFile, frames, inodes, events, verifierVars>>,
           tmp' \in Heads, head' \in Heads, torn' \in BOOLEAN,
           acked' \subseteq Nat, failures' \in Nat
    PROVE  TypeInv'
<1> USE DEF EndAppend, TypeInv, TypeOK, EventInHand, verifierVars
<1>1. r \in Processes
  BY DEF Processes
<1>2. held' \subseteq [by : Processes, on : Nat, mode : {"exclusive", "shared"}]
  BY <1>1, ReleaseType
<1>3. event' \in [Recorders -> [id : Nat, kind : Kinds \cup {"none"}]]
  BY DEF NoEvent
<1>4. link' \in [Recorders -> Heads]
  BY DEF Heads
<1>5. pc' \in [Processes -> {"idle", "open", "flock", "events", "busy"} \cup Critical]
  BY <1>1
<1>6. fd' \in [Processes -> Nat]
  BY <1>1 DEF NoFile
<1>7. \A q \in Recorders :
          pc'[q] # "idle" => event'[q] \in [id : Nat \ {0}, kind : Kinds]
  BY <1>1 DEF Processes
<1> QED
  BY <1>2, <1>3, <1>4, <1>5, <1>6, <1>7

LEMMA TypeInit == InitLog => TypeInv
<1> SUFFICES ASSUME InitLog PROVE TypeInv
  OBVIOUS
<1>1. EventInHand
  BY DEF InitLog, EventInHand, Processes
<1>2. TypeOK
  <2>1. <<>> \in Seq(FrameOver(Kinds)) /\ NoHead \in Heads
    BY DEF Heads
  <2>2. NoEvent \in [id : Nat, kind : Kinds \cup {"none"}]
    BY DEF NoEvent
  <2> QED
    BY <2>1, <2>2 DEF InitLog, TypeOK, NoFile
<1> QED
  BY <1>1, <1>2 DEF TypeInv

LEMMA TypeStep == TypeInv /\ [Next]_logVars => TypeInv'
<1> SUFFICES ASSUME TypeInv, [Next]_logVars PROVE TypeInv'
  OBVIOUS
<1> USE DEF diskVars, kernelVars, recorderVars, verifierVars
<1> DEFINE PCs == {"idle", "open", "flock", "events", "busy"} \cup Critical
<1>pcs. {"idle", "open", "flock", "events", "busy", "head", "tail", "write",
         "tmp", "rename"} = PCs
  BY DEF Critical
<1>len. frames \in Seq(FrameOver(Kinds)) /\ HeadOf(frames) \in Heads
  BY HeadOfType DEF TypeInv, TypeOK
<1>1. ASSUME NEW r \in Recorders, StartAppend(r) PROVE TypeInv'
  <2>1. event' \in [Recorders -> [id : Nat, kind : Kinds \cup {"none"}]]
    BY <1>1 DEF StartAppend, TypeInv, TypeOK
  <2>2. pc' \in [Processes -> PCs]
    BY <1>1, <1>pcs DEF StartAppend, TypeInv, TypeOK
  <2>3. EventInHand'
    BY <1>1 DEF StartAppend, TypeInv, TypeOK, EventInHand, Processes
  <2> QED
    BY <1>1, <2>1, <2>2, <2>3 DEF StartAppend, TypeInv, TypeOK
<1>2. ASSUME NEW r \in Recorders, AppendOpens(r) PROVE TypeInv'
  BY <1>2, OpenLockType DEF AppendOpens, Processes
<1>3. ASSUME NEW r \in Recorders, AppendLocks(r) PROVE TypeInv'
  <2>1. r \in Processes
    BY DEF Processes
  <2>2. held' \subseteq [by : Processes, on : Nat, mode : {"exclusive", "shared"}]
    BY <1>3, <2>1, FlockType DEF AppendLocks, TypeInv
  <2>3. pc' \in [Processes -> PCs]
    BY <1>3, <1>pcs DEF AppendLocks, TypeInv, TypeOK
  <2>4. EventInHand'
    BY <1>3, <2>1 DEF AppendLocks, TypeInv, TypeOK, EventInHand, Processes
  <2> QED
    BY <1>3, <2>2, <2>3, <2>4 DEF AppendLocks, TypeInv, TypeOK
<1>4. ASSUME NEW r \in Recorders, ReadHead(r) PROVE TypeInv'
  <2>1. pc' \in [Processes -> PCs]
    BY <1>4, <1>pcs DEF ReadHead, TypeInv, TypeOK
  <2>2. EventInHand'
    BY <1>4 DEF ReadHead, TypeInv, TypeOK, EventInHand, Processes
  <2> QED
    BY <1>4, <2>1, <2>2 DEF ReadHead, TypeInv, TypeOK
<1>5. ASSUME NEW r \in Recorders, TakeLink(r) PROVE TypeInv'
  <2>1. pc' \in [Processes -> PCs]
    BY <1>5, <1>pcs DEF TakeLink, TypeInv, TypeOK
  <2>2. EventInHand'
    BY <1>5 DEF TakeLink, TypeInv, TypeOK, EventInHand, Processes
  <2> QED
    BY <1>5, <1>len, <2>1, <2>2 DEF TakeLink, TypeInv, TypeOK
<1>6. ASSUME NEW r \in Recorders, Refuse(r) PROVE TypeInv'
  BY <1>6, EndAppendType DEF Refuse, TypeInv, TypeOK
<1>7. ASSUME NEW r \in Recorders, WriteFrame(r) PROVE TypeInv'
  <2>1. Seal(event[r], link[r]) \in FrameOver(Kinds)
    BY <1>7, SealType DEF WriteFrame, TypeInv, TypeOK, EventInHand
  <2>2. frames' \in Seq(FrameOver(Kinds))
    BY <1>7, <1>len, <2>1 DEF WriteFrame
  <2>3. pc' \in [Processes -> PCs]
    BY <1>7, <1>pcs DEF WriteFrame, TypeInv, TypeOK
  <2>4. EventInHand'
    BY <1>7 DEF WriteFrame, TypeInv, TypeOK, EventInHand, Processes
  <2> QED
    BY <1>7, <2>2, <2>3, <2>4 DEF WriteFrame, TypeInv, TypeOK
<1>8. ASSUME NEW r \in Recorders, WriteTmp(r) PROVE TypeInv'
  <2>1. tmp' \in Heads
    BY <1>8, SealType DEF WriteTmp, TypeInv, TypeOK, EventInHand
  <2>2. pc' \in [Processes -> PCs]
    BY <1>8, <1>pcs DEF WriteTmp, TypeInv, TypeOK
  <2>3. EventInHand'
    BY <1>8 DEF WriteTmp, TypeInv, TypeOK, EventInHand, Processes
  <2> QED
    BY <1>8, <2>1, <2>2, <2>3 DEF WriteTmp, TypeInv, TypeOK
<1>9. ASSUME NEW r \in Recorders, RenameHead(r) PROVE TypeInv'
  <2>1. acked' \subseteq Nat
    BY <1>9 DEF RenameHead, TypeInv, TypeOK
  <2> QED
    BY <1>9, <2>1, EndAppendType DEF RenameHead, TypeInv, TypeOK, Heads
<1>10. ASSUME NEW r \in Recorders, FailAppend(r) PROVE TypeInv'
  <2>1. torn' \in BOOLEAN
    <3>1. CASE torn' = torn
      BY <3>1 DEF TypeInv, TypeOK
    <3>2. CASE torn' = TRUE
      BY <3>2
    <3> QED
      BY <1>10, <3>1, <3>2, Zenon DEF FailAppend
  <2>2. failures' \in Nat
    BY <1>10 DEF FailAppend, TypeInv, TypeOK
  <2> QED
    BY <1>10, <2>1, <2>2, EndAppendType DEF FailAppend, TypeInv, TypeOK
<1>11. ASSUME NEW v \in Verifiers, StartVerify(v) PROVE TypeInv'
  <2>1. pc' \in [Processes -> PCs]
    BY <1>11, <1>pcs DEF StartVerify, TypeInv, TypeOK
  <2>2. EventInHand'
    BY <1>11, ProcessesAssumption DEF StartVerify, TypeInv, TypeOK, EventInHand, Processes
  <2> QED
    BY <1>11, <2>1, <2>2 DEF StartVerify, TypeInv, TypeOK
<1>12. ASSUME NEW v \in Verifiers, VerifyOpens(v) PROVE TypeInv'
  BY <1>12, OpenLockType DEF VerifyOpens, Processes
<1>13. ASSUME NEW v \in Verifiers, VerifyLocks(v) PROVE TypeInv'
  <2>1. v \in Processes
    BY DEF Processes
  <2>2. held' \subseteq [by : Processes, on : Nat, mode : {"exclusive", "shared"}]
    BY <1>13, <2>1, FlockType DEF VerifyLocks, TypeInv
  <2>3. pc' \in [Processes -> PCs]
    BY <1>13, <1>pcs DEF VerifyLocks, TypeInv, TypeOK
  <2>4. EventInHand'
    BY <1>13, ProcessesAssumption DEF VerifyLocks, TypeInv, TypeOK, EventInHand, Processes
  <2> QED
    BY <1>13, <2>2, <2>3, <2>4 DEF VerifyLocks, TypeInv, TypeOK
<1>ev. ASSUME NEW v \in Verifiers, NEW verdict \in Verdicts, EndVerify(v, verdict),
             UNCHANGED <<diskVars, inodes, recorderVars>>
       PROVE  TypeInv'
  <2>1. v \in Processes
    BY DEF Processes
  <2>2. held' \subseteq [by : Processes, on : Nat, mode : {"exclusive", "shared"}]
    BY <1>ev, <2>1, ReleaseType DEF EndVerify, TypeInv
  <2>3. pc' \in [Processes -> PCs] /\ fd' \in [Processes -> Nat]
    BY <1>ev, <1>pcs DEF EndVerify, TypeInv, TypeOK, NoFile
  <2>4. walk' \in [Verifiers -> Heads] /\ report' \in [Verifiers -> Verdicts \cup {"none"}]
    BY <1>ev DEF EndVerify, TypeInv, TypeOK, Heads
  <2>5. EventInHand'
    BY <1>ev, ProcessesAssumption DEF EndVerify, TypeInv, TypeOK, EventInHand, Processes
  <2> QED
    BY <1>ev, <2>2, <2>3, <2>4, <2>5 DEF TypeInv, TypeOK
<1>14. ASSUME NEW v \in Verifiers, WalkFrames(v) PROVE TypeInv'
  <2>1. CASE WalkVerdict = "ok"
    <3>1. pc' \in [Processes -> PCs]
      BY <1>14, <1>pcs, <2>1 DEF WalkFrames, TypeInv, TypeOK
    <3>2. EventInHand'
      BY <1>14, <2>1, ProcessesAssumption
         DEF WalkFrames, TypeInv, TypeOK, EventInHand, Processes
    <3> QED
      BY <1>14, <1>len, <2>1, <3>1, <3>2 DEF WalkFrames, TypeInv, TypeOK
  <2>2. CASE WalkVerdict # "ok"
    BY <1>14, <1>ev, <2>2, WalkVerdictType DEF WalkFrames
  <2> QED
    BY <2>1, <2>2
<1>15. ASSUME NEW v \in Verifiers, CompareHead(v) PROVE TypeInv'
  <2>1. HeadVerdict(walk[v]) \in Verdicts
    BY HeadVerdictType DEF TypeInv, TypeOK
  <2> QED
    BY <1>15, <1>ev, <2>1 DEF CompareHead
<1>16. ASSUME NEW s \in Shippers, ShipWants(s) PROVE TypeInv'
  <2>1. pc' \in [Processes -> PCs]
    BY <1>16, <1>pcs DEF ShipWants, TypeInv, TypeOK
  <2>2. EventInHand'
    BY <1>16, ProcessesAssumption DEF ShipWants, TypeInv, TypeOK, EventInHand, Processes
  <2> QED
    BY <1>16, <2>1, <2>2 DEF ShipWants, TypeInv, TypeOK
<1>17. ASSUME NEW s \in Shippers, ShipOpens(s) PROVE TypeInv'
  BY <1>17, OpenLockType DEF ShipOpens, Processes
<1>18. ASSUME NEW s \in Shippers, ShipLocks(s) PROVE TypeInv'
  <2>1. s \in Processes
    BY DEF Processes
  <2>2. held' \subseteq [by : Processes, on : Nat, mode : {"exclusive", "shared"}]
    BY <1>18, <2>1, FlockType DEF ShipLocks, TypeInv
  <2>3. pc' \in [Processes -> PCs]
    BY <1>18, <1>pcs DEF ShipLocks, TypeInv, TypeOK
  <2>4. EventInHand'
    BY <1>18, ProcessesAssumption DEF ShipLocks, TypeInv, TypeOK, EventInHand, Processes
  <2> QED
    BY <1>18, <2>2, <2>3, <2>4 DEF ShipLocks, TypeInv, TypeOK
<1>19. ASSUME NEW s \in Shippers, ShipDrops(s) PROVE TypeInv'
  <2>1. s \in Processes
    BY DEF Processes
  <2>2. held' \subseteq [by : Processes, on : Nat, mode : {"exclusive", "shared"}]
    BY <1>19, <2>1, ReleaseType DEF ShipDrops, TypeInv
  <2>3. pc' \in [Processes -> PCs] /\ fd' \in [Processes -> Nat]
    BY <1>19, <1>pcs DEF ShipDrops, TypeInv, TypeOK, NoFile
  <2>4. EventInHand'
    BY <1>19, ProcessesAssumption DEF ShipDrops, TypeInv, TypeOK, EventInHand, Processes
  <2> QED
    BY <1>19, <2>2, <2>3, <2>4 DEF ShipDrops, TypeInv, TypeOK
<1>20. ASSUME UNCHANGED logVars PROVE TypeInv'
  BY <1>20 DEF logVars, TypeInv, TypeOK, EventInHand
<1> QED
  BY <1>1, <1>2, <1>3, <1>4, <1>5, <1>6, <1>7, <1>8, <1>9, <1>10, <1>11, <1>12,
     <1>13, <1>14, <1>15, <1>16, <1>17, <1>18, <1>19, <1>20
     DEF Next, LogStep, RecorderStep, VerifierStep, ShipperStep

LEMMA TypeHolds == Spec => []TypeInv
  BY TypeInit, TypeStep, PTL DEF Spec

(* Every variable stays in its range; a hash is never the genesis value,   *)
(* so a frame's `prev` tells whether it opens the chain (type invariant of *)
(* the whole of append and verify).                                        *)
THEOREM TypeCorrect == Spec => []TypeOK
<1>1. TypeInv => TypeOK
  BY DEF TypeInv
<1> QED
  BY <1>1, TypeHolds, PTL

-----------------------------------------------------------------------------
(* The lock.                                                               *)

Waits == {"idle", "open"}
Holds(p) == pc[p] \notin {"idle", "open", "flock"}
Mode(p) == IF p \in Verifiers THEN "shared" ELSE "exclusive"

(* Everybody past open_lock has the one inode the name `lock` ever gets;   *)
(* who is past flock has its lock; and that excludes all but readers from  *)
(* each other.                                                             *)
LockInv ==
    /\ \A p \in Processes :
           pc[p] \notin Waits => lockFile # NoFile /\ fd[p] = lockFile
    /\ \A p \in Processes :
           Holds(p) => [by |-> p, on |-> lockFile, mode |-> Mode(p)] \in held
    /\ \A p, q \in Processes :
           Holds(p) /\ Holds(q) /\ p # q => p \in Verifiers /\ q \in Verifiers

(* What a step can do to the lock: begin, open it, be granted it, go on    *)
(* working under it, and drop it.                                          *)
Begins(p) ==
    /\ pc[p] = "idle" /\ pc' = [pc EXCEPT ![p] = "open"]
    /\ UNCHANGED <<lockFile, fd, held>>
Granted(p) ==
    /\ pc[p] = "flock" /\ Flock(p, Mode(p))
    /\ \E at \in {"head", "events", "busy"} : pc' = [pc EXCEPT ![p] = at]
    /\ UNCHANGED <<lockFile, fd>>
Works(p) ==
    /\ Holds(p)
    /\ \E at \in Critical : pc' = [pc EXCEPT ![p] = at]
    /\ UNCHANGED <<lockFile, fd, held>>
Drops(p) ==
    /\ Release(p)
    /\ pc' = [pc EXCEPT ![p] = "idle"] /\ fd' = [fd EXCEPT ![p] = NoFile]
    /\ UNCHANGED lockFile
UsesLock(p) ==
    Begins(p) \/ OpenLock(p, "flock") \/ Granted(p) \/ Works(p) \/ Drops(p)

LEMMA StepUsesLock ==
    ASSUME [Next]_logVars
    PROVE  \/ \E p \in Processes : UsesLock(p)
           \/ UNCHANGED <<lockFile, held, pc, fd>>
<1> USE DEF diskVars, kernelVars, Processes
<1>1. ASSUME NEW r \in Recorders, StartAppend(r) PROVE Begins(r)
  BY <1>1 DEF StartAppend, Begins
<1>2. ASSUME NEW r \in Recorders, AppendOpens(r) PROVE OpenLock(r, "flock")
  BY <1>2 DEF AppendOpens
<1>3. ASSUME NEW r \in Recorders, AppendLocks(r) PROVE Granted(r)
  BY <1>3, ProcessesAssumption DEF AppendLocks, Granted, Mode
<1>4. ASSUME NEW r \in Recorders, ReadHead(r) \/ TakeLink(r) \/ WriteFrame(r) \/ WriteTmp(r)
      PROVE  Works(r)
  BY <1>4 DEF ReadHead, TakeLink, WriteFrame, WriteTmp, Works, Holds, Critical
<1>5. ASSUME NEW r \in Recorders, Refuse(r) \/ RenameHead(r) \/ FailAppend(r)
      PROVE  Drops(r)
  BY <1>5 DEF Refuse, RenameHead, FailAppend, EndAppend, Drops
<1>6. ASSUME NEW v \in Verifiers, StartVerify(v) PROVE Begins(v)
  BY <1>6 DEF StartVerify, Begins
<1>7. ASSUME NEW v \in Verifiers, VerifyOpens(v) PROVE OpenLock(v, "flock")
  BY <1>7 DEF VerifyOpens
<1>8. ASSUME NEW v \in Verifiers, VerifyLocks(v) PROVE Granted(v)
  BY <1>8 DEF VerifyLocks, Granted, Mode
<1>9. ASSUME NEW v \in Verifiers, WalkFrames(v) PROVE Works(v) \/ Drops(v)
  <2>1. CASE WalkVerdict = "ok"
    BY <1>9, <2>1 DEF WalkFrames, Works, Holds, Critical
  <2>2. CASE WalkVerdict # "ok"
    BY <1>9, <2>2 DEF WalkFrames, EndVerify, Drops
  <2> QED
    BY <2>1, <2>2
<1>10. ASSUME NEW v \in Verifiers, CompareHead(v) PROVE Drops(v)
  BY <1>10 DEF CompareHead, EndVerify, Drops
<1>11. ASSUME NEW s \in Shippers, ShipWants(s) PROVE Begins(s)
  BY <1>11 DEF ShipWants, Begins
<1>12. ASSUME NEW s \in Shippers, ShipOpens(s) PROVE OpenLock(s, "flock")
  BY <1>12 DEF ShipOpens
<1>13. ASSUME NEW s \in Shippers, ShipLocks(s) PROVE Granted(s)
  BY <1>13, ProcessesAssumption DEF ShipLocks, Granted, Mode
<1>14. ASSUME NEW s \in Shippers, ShipDrops(s) PROVE Drops(s)
  BY <1>14 DEF ShipDrops, Drops
<1>15. ASSUME UNCHANGED logVars PROVE UNCHANGED <<lockFile, held, pc, fd>>
  BY <1>15 DEF logVars
<1> QED
  BY <1>1, <1>2, <1>3, <1>4, <1>5, <1>6, <1>7, <1>8, <1>9, <1>10, <1>11, <1>12,
     <1>13, <1>14, <1>15
     DEF UsesLock, Next, LogStep, RecorderStep, VerifierStep, ShipperStep

LEMMA LockStep ==
    ASSUME TypeOK, LockInv, [Next]_logVars
    PROVE  LockInv'
<1> USE DEF LockInv, Waits, Holds, Mode
<1>ty. /\ pc \in [Processes -> {"idle", "open", "flock", "events", "busy"} \cup Critical]
       /\ fd \in [Processes -> Nat] /\ inodes \in Nat
  BY DEF TypeOK
<1>1. ASSUME NEW p \in Processes, Begins(p) PROVE LockInv'
  BY <1>ty, <1>1 DEF Begins
<1>2. ASSUME NEW p \in Processes, OpenLock(p, "flock") PROVE LockInv'
  BY <1>ty, <1>2 DEF OpenLock, NoFile
<1>3. ASSUME NEW p \in Processes, Granted(p) PROVE LockInv'
  <2>1. \A q \in Processes \ {p} : Holds(q) => p \in Verifiers /\ q \in Verifiers
    BY <1>3 DEF Granted, Flock, CanLock
  <2>2. \A q \in Processes :
            Holds(q)' => [by |-> q, on |-> lockFile, mode |-> Mode(q)] \in held'
    BY <1>ty, <1>3 DEF Granted, Flock
  <2> QED
    BY <1>ty, <1>3, <2>1, <2>2 DEF Granted
<1>4. ASSUME NEW p \in Processes, Works(p) PROVE LockInv'
  BY <1>ty, <1>4 DEF Works
<1>5. ASSUME NEW p \in Processes, Drops(p) PROVE LockInv'
  BY <1>ty, <1>5 DEF Drops, Release
<1>6. ASSUME UNCHANGED <<lockFile, held, pc, fd>> PROVE LockInv'
  BY <1>6
<1> QED
  BY <1>1, <1>2, <1>3, <1>4, <1>5, <1>6, StepUsesLock DEF UsesLock

LEMMA LockInit == InitLog => LockInv
  BY DEF InitLog, LockInv, Waits, Holds

LEMMA LockHolds == Spec => [](TypeInv /\ LockInv)
<1>1. TypeInv /\ LockInv /\ [Next]_logVars => LockInv'
  BY LockStep DEF TypeInv
<1> QED
  BY <1>1, LockInit, TypeHolds, PTL DEF Spec

(* A hook at work under the lock is alone under it.                        *)
LEMMA Alone ==
    ASSUME LockInv, NEW r \in Recorders, Holds(r)
    PROVE  \A p \in Processes \ {r} : ~ Holds(p)
  BY ProcessesAssumption DEF LockInv, Processes

-----------------------------------------------------------------------------
(* The chain.                                                              *)

Written == {"tmp", "rename"}

(* What a hook knows at each step of append, the lock being what keeps it  *)
(* true: the head it read, the frame it links to, the frame it wrote.      *)
LinkInv ==
    \A r \in Recorders :
        /\ pc[r] = "tail" => link[r] = head
        /\ pc[r] = "write" => link[r] = HeadOf(frames)
        /\ pc[r] \in Written =>
               frames # <<>> /\ HeadAt(Seal(event[r], link[r])) = HeadOf(frames)
        /\ pc[r] = "rename" => tmp = HeadOf(frames)
ChainInv == LinkInv /\ DenseChain

(* The steps that leave the log and every hook's memory of it alone.       *)
Quiet ==
    /\ UNCHANGED <<frames, torn, tmp, head, event, link, events, acked, failures>>
    /\ \A r \in Recorders :
           \/ pc'[r] = pc[r]
           \/ pc[r] \in {"open", "flock"} /\ pc'[r] \in {"flock", "head"}

LEMMA QuietSteps ==
    ASSUME TypeOK, [Next]_logVars
    PROVE  \/ Quiet
           \/ \E r \in Recorders :
                  \/ StartAppend(r) \/ ReadHead(r) \/ TakeLink(r) \/ Refuse(r)
                  \/ WriteFrame(r) \/ WriteTmp(r) \/ RenameHead(r) \/ FailAppend(r)
<1> USE DEF Quiet, diskVars, kernelVars, recorderVars
<1>ty. pc \in [Processes -> {"idle", "open", "flock", "events", "busy"} \cup Critical]
  BY DEF TypeOK
<1>1. ASSUME NEW p \in Processes, OpenLock(p, "flock") PROVE Quiet
  BY <1>ty, <1>1 DEF OpenLock, Processes
<1>2. ASSUME NEW r \in Recorders, AppendLocks(r) PROVE Quiet
  BY <1>ty, <1>2 DEF AppendLocks, Processes
<1>3. ASSUME NEW v \in Verifiers, StartVerify(v) \/ VerifyLocks(v) PROVE Quiet
  BY <1>ty, <1>3, ProcessesAssumption DEF StartVerify, VerifyLocks, Processes
<1>4. ASSUME NEW v \in Verifiers, NEW verdict, EndVerify(v, verdict),
             UNCHANGED <<diskVars, recorderVars>>
      PROVE  Quiet
  BY <1>ty, <1>4, ProcessesAssumption DEF EndVerify, Processes
<1>5. ASSUME NEW v \in Verifiers, WalkFrames(v) PROVE Quiet
  <2>1. CASE WalkVerdict = "ok"
    BY <1>ty, <1>5, <2>1, ProcessesAssumption DEF WalkFrames, Processes
  <2>2. CASE WalkVerdict # "ok"
    BY <1>4, <1>5, <2>2 DEF WalkFrames
  <2> QED
    BY <2>1, <2>2
<1>6. ASSUME NEW v \in Verifiers, CompareHead(v) PROVE Quiet
  BY <1>4, <1>6 DEF CompareHead
<1>7. ASSUME NEW s \in Shippers, ShipWants(s) \/ ShipLocks(s) \/ ShipDrops(s) PROVE Quiet
  BY <1>ty, <1>7, ProcessesAssumption DEF ShipWants, ShipLocks, ShipDrops, Processes
<1>8. ASSUME UNCHANGED logVars PROVE Quiet
  BY <1>8 DEF logVars
<1> QED
  BY <1>1, <1>2, <1>3, <1>5, <1>6, <1>7, <1>8
     DEF Next, LogStep, RecorderStep, VerifierStep, ShipperStep,
         AppendOpens, VerifyOpens, ShipOpens, Processes

(* What the last write put into the log is its last frame.                 *)
LEMMA HeadOfAppend ==
    ASSUME NEW kinds, NEW s \in Seq(FrameOver(kinds)), NEW f
    PROVE  Append(s, f) # <<>> /\ HeadOf(Append(s, f)) = HeadAt(f)
<1> DEFINE t == Append(s, f)
<1>1. Len(t) = Len(s) + 1 /\ Len(s) \in Nat /\ t[Len(s) + 1] = f
  OBVIOUS
<1>2. t # <<>> /\ t[Len(t)] = f
  BY <1>1
<1> QED
  BY <1>2 DEF HeadOf

(* A frame sealed onto the end of a dense chain leaves it dense.           *)
LEMMA SealExtends ==
    ASSUME NEW s \in Seq(FrameOver(Kinds)), Linked(NoHead, s), NEW e
    PROVE  Linked(NoHead, Append(s, Seal(e, HeadOf(s))))
<1> DEFINE f == Seal(e, HeadOf(s))
           t == Append(s, f)
<1>1. Len(t) = Len(s) + 1 /\ t[Len(s) + 1] = f /\ Len(s) \in Nat
  OBVIOUS
<1>2. \A i \in 1 .. Len(s) : t[i] = s[i]
  OBVIOUS
<1>3. f.seq = HeadOf(s).seq + 1 /\ f.prev = HeadOf(s).hash
  BY DEF Seal
<1>4. f.seq = Len(s) /\ f.prev = IF s = <<>> THEN Genesis ELSE s[Len(s)].hash
  <2>1. CASE s = <<>>
    BY <1>3, <2>1 DEF HeadOf, NoHead
  <2>2. CASE s # <<>>
    <3>1. Len(s) \in 1 .. Len(s)
      BY <2>2
    <3>2. s[Len(s)].seq = Len(s) - 1
      BY <3>1 DEF Linked, SeqFits, NoHead
    <3> QED
      BY <1>3, <2>2, <3>1, <3>2 DEF HeadOf, HeadAt
  <2> QED
    BY <2>1, <2>2
<1>5. ASSUME NEW i \in 1 .. Len(s)
      PROVE  SeqFits(NoHead, t, i) /\ PrevFits(NoHead, t, i)
  <2>1. SeqFits(NoHead, s, i) /\ PrevFits(NoHead, s, i)
    BY DEF Linked
  <2>2. i > 1 => i - 1 \in 1 .. Len(s)
    OBVIOUS
  <2> QED
    BY <1>2, <2>1, <2>2 DEF SeqFits, PrevFits
<1>6. SeqFits(NoHead, t, Len(s) + 1) /\ PrevFits(NoHead, t, Len(s) + 1)
  BY <1>1, <1>2, <1>4 DEF SeqFits, PrevFits, NoHead, Genesis
<1> HIDE DEF t
<1>7. Linked(NoHead, t)
  BY <1>1, <1>5, <1>6 DEF Linked
<1> QED
  BY <1>7 DEF t

LEMMA LinkStep ==
    ASSUME TypeInv, LockInv, LinkInv, [Next]_logVars
    PROVE  LinkInv'
<1> USE DEF TypeInv, LinkInv, Written
<1>ty. /\ pc \in [Processes -> {"idle", "open", "flock", "events", "busy"} \cup Critical]
       /\ link \in [Recorders -> Heads] /\ Recorders \subseteq Processes
       /\ \A r \in Recorders : r \in Processes
  BY DEF TypeOK, Processes
<1>alone. ASSUME NEW r \in Recorders, pc[r] \in Critical
          PROVE  \A q \in Recorders \ {r} : pc[q] \notin Critical
  BY <1>ty, <1>alone, Alone DEF Holds, Critical
<1>1. CASE Quiet
  BY <1>1 DEF Quiet
<1>2. ASSUME NEW r \in Recorders, StartAppend(r) PROVE LinkInv'
  BY <1>ty, <1>2 DEF StartAppend
<1>3. ASSUME NEW r \in Recorders, ReadHead(r) PROVE LinkInv'
  BY <1>ty, <1>3 DEF ReadHead, diskVars
<1>4. ASSUME NEW r \in Recorders, TakeLink(r) PROVE LinkInv'
  BY <1>ty, <1>4 DEF TakeLink, diskVars
<1>end. ASSUME NEW r \in Recorders, EndAppend(r), UNCHANGED frames,
               UNCHANGED <<tmp, head>> \/ pc[r] \in Critical
        PROVE  LinkInv'
  BY <1>ty, <1>end, <1>alone DEF EndAppend, Critical
<1>5. ASSUME NEW r \in Recorders, Refuse(r) \/ RenameHead(r) \/ FailAppend(r)
      PROVE  LinkInv'
  BY <1>5, <1>end DEF Refuse, RenameHead, FailAppend, diskVars, Critical
<1>6. ASSUME NEW r \in Recorders, WriteFrame(r) PROVE LinkInv'
  <2>1. frames' # <<>> /\ HeadOf(frames)' = HeadAt(Seal(event[r], link[r]))
    BY <1>6, HeadOfAppend DEF WriteFrame, TypeOK, recorderVars
  <2> QED
    BY <1>ty, <1>6, <1>alone, <2>1 DEF WriteFrame, Critical, recorderVars
<1>7. ASSUME NEW r \in Recorders, WriteTmp(r) PROVE LinkInv'
  BY <1>ty, <1>7, <1>alone DEF WriteTmp, Critical, recorderVars
<1> QED
  BY <1>1, <1>2, <1>3, <1>4, <1>5, <1>6, <1>7, QuietSteps

LEMMA DenseStep ==
    ASSUME TypeInv, ChainInv, [Next]_logVars
    PROVE  DenseChain'
<1> USE DEF DenseChain, ChainInv
<1>1. ASSUME NEW r \in Recorders, WriteFrame(r) PROVE DenseChain'
  <2>1. frames' = Append(frames, Seal(event[r], HeadOf(frames)))
    BY <1>1 DEF WriteFrame, LinkInv
  <2> QED
    BY <2>1, SealExtends DEF TypeInv, TypeOK
<1>2. ASSUME UNCHANGED frames PROVE DenseChain'
  BY <1>2
<1> QED
  BY <1>1, <1>2, QuietSteps
     DEF TypeInv, Quiet, StartAppend, ReadHead, TakeLink, Refuse, WriteTmp,
         RenameHead, FailAppend, diskVars

LEMMA ChainInit == InitLog => ChainInv
  BY DEF InitLog, ChainInv, LinkInv, Written, DenseChain, Linked, Processes

LEMMA ChainHolds == Spec => [](TypeInv /\ LockInv /\ ChainInv)
<1>1. TypeInv /\ LockInv /\ ChainInv /\ [Next]_logVars => ChainInv'
  BY LinkStep, DenseStep DEF ChainInv
<1> QED
  BY <1>1, ChainInit, LockHolds, PTL DEF Spec

(* However many hooks fire at once and wherever they die, sequence numbers *)
(* are dense and every frame links to the one before it (append's advisory *)
(* lock).                                                                  *)
THEOREM ChainIsDense == Spec => []DenseChain
<1>1. ChainInv => DenseChain
  BY DEF ChainInv
<1> QED
  BY <1>1, ChainHolds, PTL

-----------------------------------------------------------------------------
(* head.                                                                   *)

(* The frame a hook has written and not yet put into `head`.               *)
Owed == IF \E r \in Recorders : pc[r] \in Written THEN 1 ELSE 0

HeadInv ==
    /\ head = NoHead \/ \E i \in 1 .. Len(frames) : head = HeadAt(frames[i])
    /\ Len(frames) - (head.seq + 1) <= failures + Owed

(* The last frame of a dense chain is numbered by the chain's length.      *)
LEMMA LastSeq ==
    ASSUME NEW s \in Seq(FrameOver(Kinds)), Linked(NoHead, s)
    PROVE  /\ \A i \in 1 .. Len(s) : s[i].seq = i - 1
           /\ HeadOf(s).seq = Len(s) - 1
<1>1. \A i \in 1 .. Len(s) : s[i].seq = i - 1
  BY DEF Linked, SeqFits, NoHead
<1>2. CASE s = <<>>
  BY <1>1, <1>2 DEF HeadOf, NoHead
<1>3. CASE s # <<>>
  <2>1. Len(s) \in 1 .. Len(s)
    BY <1>3
  <2> QED
    BY <1>1, <1>3, <2>1 DEF HeadOf, HeadAt
<1> QED
  BY <1>1, <1>2, <1>3

LEMMA HeadStep ==
    ASSUME TypeInv, LockInv, ChainInv, HeadInv, [Next]_logVars
    PROVE  HeadInv'
<1> USE DEF HeadInv
<1>ty. /\ pc \in [Processes -> {"idle", "open", "flock", "events", "busy"} \cup Critical]
       /\ \A r \in Recorders : r \in Processes
       /\ failures \in Nat /\ Len(frames) \in Nat /\ head.seq \in Int
       /\ frames \in Seq(FrameOver(Kinds))
  BY DEF TypeInv, TypeOK, Processes, Heads, NoHead
<1>owed. Owed \in {0, 1} /\ Owed' \in {0, 1}
  BY DEF Owed
<1>alone. ASSUME NEW r \in Recorders, pc[r] \in Critical
          PROVE  \A q \in Recorders \ {r} : pc[q] \notin Critical
  BY <1>ty, <1>alone, Alone DEF Holds, Critical
<1>same. ASSUME UNCHANGED <<frames, head, failures>>,
                \A q \in Recorders : pc'[q] \in Written <=> pc[q] \in Written
         PROVE  HeadInv'
  <2>1. Owed' = Owed
    BY <1>same DEF Owed
  <2> QED
    BY <1>same, <2>1
<1>1. CASE Quiet
  BY <1>1, <1>same DEF Quiet, Written
<1>2. ASSUME NEW r \in Recorders, StartAppend(r) PROVE HeadInv'
  BY <1>ty, <1>2, <1>same DEF StartAppend, Written
<1>3. ASSUME NEW r \in Recorders, ReadHead(r) PROVE HeadInv'
  BY <1>ty, <1>3, <1>same DEF ReadHead, Written, diskVars
<1>4. ASSUME NEW r \in Recorders, TakeLink(r) PROVE HeadInv'
  BY <1>ty, <1>4, <1>same DEF TakeLink, Written, diskVars
<1>5. ASSUME NEW r \in Recorders, Refuse(r) PROVE HeadInv'
  BY <1>ty, <1>5, <1>same DEF Refuse, EndAppend, Written, diskVars
<1>6. ASSUME NEW r \in Recorders, WriteTmp(r) PROVE HeadInv'
  BY <1>ty, <1>6, <1>same DEF WriteTmp, Written, recorderVars
<1>7. ASSUME NEW r \in Recorders, WriteFrame(r) PROVE HeadInv'
  <2>1. Owed = 0
    BY <1>7, <1>alone DEF WriteFrame, Owed, Written, Critical
  <2>2. Owed' = 1
    BY <1>ty, <1>7 DEF WriteFrame, Owed, Written
  <2>3. Len(frames') = Len(frames) + 1 /\ \A i \in 1 .. Len(frames) : frames'[i] = frames[i]
    BY <1>ty, <1>7 DEF WriteFrame
  <2>4. UNCHANGED <<head, failures>>
    BY <1>7 DEF WriteFrame, recorderVars
  <2>5. head' = NoHead \/ \E i \in 1 .. Len(frames') : head' = HeadAt(frames'[i])
    BY <1>ty, <2>3, <2>4
  <2> QED
    BY <1>ty, <2>1, <2>2, <2>3, <2>4, <2>5
<1>8. ASSUME NEW r \in Recorders, RenameHead(r) PROVE HeadInv'
  <2>1. head' = HeadOf(frames) /\ frames # <<>> /\ UNCHANGED <<frames, failures>>
    BY <1>8 DEF RenameHead, ChainInv, LinkInv, Written
  <2>2. head' = HeadAt(frames[Len(frames)]) /\ Len(frames) \in 1 .. Len(frames)
    BY <1>ty, <2>1 DEF HeadOf
  <2>3. head'.seq = Len(frames) - 1
    BY <1>ty, <2>1, LastSeq DEF ChainInv, DenseChain
  <2>4. \E i \in 1 .. Len(frames') : head' = HeadAt(frames'[i])
    BY <2>1, <2>2
  <2>5. Len(frames') - (head'.seq + 1) <= failures' + Owed'
    <3>1. Len(frames') - (head'.seq + 1) = 0
      BY <1>ty, <2>1, <2>3
    <3>2. failures' \in Nat /\ Owed' \in Nat
      BY <1>ty, <1>owed, <2>1
    <3> QED
      BY <3>1, <3>2
  <2> QED
    BY <2>4, <2>5
<1>9. ASSUME NEW r \in Recorders, FailAppend(r) PROVE HeadInv'
  <2>1. failures' = failures + 1 /\ UNCHANGED <<frames, head>>
    BY <1>9 DEF FailAppend
  <2> QED
    BY <1>ty, <1>owed, <2>1
<1> QED
  BY <1>1, <1>2, <1>3, <1>4, <1>5, <1>6, <1>7, <1>8, <1>9, QuietSteps DEF TypeInv

LEMMA HeadInit == InitLog => HeadInv
  BY DEF InitLog, HeadInv, Owed, Written, NoHead, Processes

LEMMA HeadHolds == Spec => [](TypeInv /\ LockInv /\ ChainInv /\ HeadInv)
<1>1. TypeInv /\ LockInv /\ ChainInv /\ HeadInv /\ [Next]_logVars => HeadInv'
  BY HeadStep
<1> QED
  BY <1>1, HeadInit, ChainHolds, PTL DEF Spec

(* Outside an append `head` names a frame of the log and trails its end by *)
(* no more frames than processes died in append: never ahead, so a log cut *)
(* back behind it is always seen as truncated.                             *)
THEOREM HeadIsBounded == Spec => []HeadTrailsLog
<1>1. TypeInv /\ HeadInv => HeadTrailsLog
  BY DEF TypeInv, TypeOK, HeadInv, HeadTrailsLog, Owed, Appending, Written, Critical
<1> QED
  BY <1>1, HeadHolds, PTL

(* An append that died between its frame and `head` is repaired by the     *)
(* next one: with one death at most, and unless the write itself was cut   *)
(* short, the log always takes another append (next_link's two repairs).   *)
THEOREM OneDeathIsHealed == Spec => []OneDeathHeals
<1>1. ASSUME TypeInv, ChainInv, HeadInv, failures <= 1, ~ Appending
      PROVE  NextLink(head, frames) = "ok"
  <2>1. frames \in Seq(FrameOver(Kinds)) /\ failures \in Nat /\ head \in Heads
    BY <1>1 DEF TypeInv, TypeOK
  <2>2. Linked(NoHead, frames)
    BY <1>1 DEF ChainInv, DenseChain
  <2>3. Len(frames) - (head.seq + 1) <= 1
    BY <1>1, <2>1 DEF HeadInv, Owed, Appending, Written, Critical, Heads, NoHead
  <2>4. CASE frames = <<>>
    BY <1>1, <2>4 DEF HeadInv, NextLink
  <2>5. CASE frames # <<>> /\ head = NoHead
    BY <2>5 DEF NextLink, Repairable
  <2>6. ASSUME frames # <<>>, NEW i \in 1 .. Len(frames), head = HeadAt(frames[i])
        PROVE  NextLink(head, frames) = "ok"
    <3>1. head.seq = i - 1
      BY <2>1, <2>2, <2>6, LastSeq DEF HeadAt
    <3>2. CASE i = Len(frames)
      <4>1. head = HeadOf(frames)
        BY <2>6, <3>2 DEF HeadOf
      <4>2. HeadAgrees(head, HeadOf(frames)) = "ok"
        BY <2>1, <4>1 DEF HeadAgrees, Heads, NoHead
      <4> QED
        BY <2>6, <4>2 DEF NextLink
    <3>3. CASE i = Len(frames) - 1
      <4>1. Len(frames) \in 1 .. Len(frames) /\ Len(frames) # 1
        BY <2>1, <3>3
      <4>2. frames[Len(frames)].seq - 1 = head.seq
        BY <2>1, <2>2, <3>1, <3>3, <4>1, LastSeq
      <4>3. frames[Len(frames)].prev = head.hash
        BY <2>2, <2>6, <3>3, <4>1 DEF Linked, PrevFits, HeadAt
      <4>4. Repairable(head, frames)
        BY <2>6, <4>2, <4>3 DEF Repairable, HeadAt
      <4> QED
        BY <2>6, <4>4 DEF NextLink
    <3> QED
      BY <2>1, <2>3, <3>1, <3>2, <3>3
  <2> QED
    BY <1>1, <2>4, <2>5, <2>6 DEF HeadInv
<1>2. TypeInv /\ ChainInv /\ HeadInv => OneDeathHeals
  BY <1>1 DEF OneDeathHeals, CanAppend
<1> QED
  BY <1>2, HeadHolds, PTL

-----------------------------------------------------------------------------
(* Events.                                                                 *)

Sealed(e) == \E i \in 1 .. Len(frames) : frames[i].hash = e

(* Every call has an event of its own, in the log from its write on.       *)
InHandInv ==
    /\ \A r \in Recorders :
           pc[r] # "idle" => /\ event[r].id <= events /\ event[r].id \notin acked
                             /\ pc[r] \notin Written => ~ Sealed(event[r].id)
    /\ \A r, q \in Recorders :
           pc[r] # "idle" /\ pc[q] # "idle" /\ r # q => event[r].id # event[q].id
(* The log holds each event once.                                          *)
OnceInv ==
    /\ \A i \in 1 .. Len(frames) : frames[i].hash <= events
    /\ \A i, j \in 1 .. Len(frames) : frames[i].hash = frames[j].hash => i = j
(* `head` is at or past every event whose append returned Ok.              *)
AckedInv ==
    \A e \in acked : \E i \in 1 .. Len(frames) :
        frames[i].hash = e /\ frames[i].seq <= head.seq
EventInv == InHandInv /\ OnceInv /\ AckedInv

(* What a write and a rename do to the log.                                *)
LEMMA WriteExtends ==
    ASSUME TypeInv, ChainInv, NEW r \in Recorders, WriteFrame(r)
    PROVE  /\ Len(frames') = Len(frames) + 1 /\ Len(frames) \in Nat
           /\ \A i \in 1 .. Len(frames) : frames'[i] = frames[i]
           /\ frames'[Len(frames) + 1] = Seal(event[r], HeadOf(frames))
           /\ frames'[Len(frames) + 1].hash = event[r].id
<1>1. frames \in Seq(FrameOver(Kinds)) /\ link[r] = HeadOf(frames)
  BY DEF TypeInv, TypeOK, ChainInv, LinkInv, WriteFrame
<1>2. frames' = Append(frames, Seal(event[r], HeadOf(frames)))
  BY <1>1 DEF WriteFrame
<1>3. Seal(event[r], HeadOf(frames)).hash = event[r].id
  BY DEF Seal
<1>4. /\ Len(frames') = Len(frames) + 1 /\ Len(frames) \in Nat
      /\ \A i \in 1 .. Len(frames) : frames'[i] = frames[i]
      /\ frames'[Len(frames) + 1] = Seal(event[r], HeadOf(frames))
  BY <1>1, <1>2
<1> QED
  BY <1>3, <1>4

LEMMA RenameCatchesUp ==
    ASSUME TypeInv, ChainInv, NEW r \in Recorders, RenameHead(r)
    PROVE  /\ Len(frames) \in 1 .. Len(frames)
           /\ frames[Len(frames)].hash = event[r].id
           /\ \A i \in 1 .. Len(frames) : frames[i].seq <= head'.seq
<1>1. frames \in Seq(FrameOver(Kinds))
  BY DEF TypeInv, TypeOK
<1>2. frames # <<>> /\ HeadAt(Seal(event[r], link[r])) = HeadOf(frames) /\ head' = HeadOf(frames)
  BY DEF RenameHead, ChainInv, LinkInv, Written
<1>3. Len(frames) \in 1 .. Len(frames)
  BY <1>1, <1>2
<1>4. frames[Len(frames)].hash = event[r].id
  BY <1>2 DEF HeadOf, HeadAt, Seal
<1>5. \A i \in 1 .. Len(frames) : frames[i].seq <= head'.seq
  BY <1>1, <1>2, LastSeq DEF ChainInv, DenseChain
<1> QED
  BY <1>3, <1>4, <1>5

LEMMA EventStep ==
    ASSUME TypeInv, LockInv, ChainInv, EventInv, [Next]_logVars
    PROVE  EventInv'
<1> USE DEF EventInv
<1>ty. /\ pc \in [Processes -> {"idle", "open", "flock", "events", "busy"} \cup Critical]
       /\ event \in [Recorders -> [id : Nat, kind : Kinds \cup {"none"}]]
       /\ \A r \in Recorders : r \in Processes
       /\ events \in Nat /\ Len(frames) \in Nat /\ frames \in Seq(FrameOver(Kinds))
       /\ \A i \in 1 .. Len(frames) : frames[i].hash \in Nat /\ frames[i].seq \in Nat
       /\ \A r \in Recorders : pc[r] # "idle" => event[r].id \in Nat \ {0}
  <2>1. frames \in Seq(FrameOver(Kinds))
    BY DEF TypeInv, TypeOK
  <2>2. \A i \in 1 .. Len(frames) : frames[i] \in FrameOver(Kinds)
    BY <2>1
  <2> QED
    BY <2>1, <2>2 DEF TypeInv, TypeOK, Processes, FrameOver, EventInHand
<1>log. ASSUME UNCHANGED <<frames, head, acked>>, events' \in Nat, events' >= events
        PROVE  OnceInv' /\ AckedInv'
  <2>1. OnceInv'
    <3>1. \A i \in 1 .. Len(frames) : frames[i].hash <= events'
      BY <1>ty, <1>log DEF OnceInv
    <3> QED
      BY <1>log, <3>1 DEF OnceInv
  <2>2. AckedInv'
    BY <1>log DEF AckedInv
  <2> QED
    BY <2>1, <2>2
<1>hand. ASSUME UNCHANGED <<frames, event, events, acked>>,
                \A r \in Recorders : pc'[r] # "idle" => pc[r] # "idle",
                \A r \in Recorders : pc[r] \in Written => pc'[r] \in Written
         PROVE  InHandInv'
  BY <1>ty, <1>hand DEF InHandInv, Sealed
<1>end. ASSUME NEW r \in Recorders, pc[r] # "idle", EndAppend(r),
               UNCHANGED <<frames, events>>, \A e \in acked' : e \in acked \/ e = event[r].id
        PROVE  InHandInv'
  BY <1>ty, <1>end DEF InHandInv, Sealed, EndAppend
<1>1. CASE Quiet
  <2>1. OnceInv' /\ AckedInv'
    BY <1>ty, <1>1, <1>log DEF Quiet
  <2>2. InHandInv'
    BY <1>1, <1>hand DEF Quiet, Written
  <2> QED
    BY <2>1, <2>2
<1>2. ASSUME NEW r \in Recorders, StartAppend(r) PROVE EventInv'
  <2>1. PICK k \in Kinds : event' = [event EXCEPT ![r] = [id |-> events + 1, kind |-> k]]
    BY <1>2 DEF StartAppend
  <2>2. event'[r].id = events + 1 /\ \A q \in Recorders \ {r} : event'[q] = event[q]
    BY <1>ty, <2>1
  <2>3. ~ Sealed(events + 1) /\ events + 1 \notin acked
    BY <1>ty, SMTT(30) DEF Sealed, OnceInv, AckedInv
  <2>4. InHandInv'
    BY <1>ty, <1>2, <2>2, <2>3 DEF StartAppend, InHandInv, Sealed
  <2> QED
    BY <1>ty, <1>2, <1>log, <2>4 DEF StartAppend
<1>3. ASSUME NEW r \in Recorders, ReadHead(r) \/ TakeLink(r) PROVE EventInv'
  BY <1>ty, <1>3, <1>log, <1>hand DEF ReadHead, TakeLink, Written, diskVars
<1>4. ASSUME NEW r \in Recorders, WriteTmp(r) PROVE EventInv'
  BY <1>ty, <1>4, <1>log, <1>hand DEF WriteTmp, Written, recorderVars
<1>5. ASSUME NEW r \in Recorders, Refuse(r) \/ FailAppend(r) PROVE EventInv'
  BY <1>ty, <1>5, <1>log, <1>end DEF Refuse, FailAppend, diskVars
<1>6. ASSUME NEW r \in Recorders, WriteFrame(r) PROVE EventInv'
  <2>1. UNCHANGED <<event, events, acked, head>> /\ pc[r] = "write"
    BY <1>6 DEF WriteFrame, recorderVars
  <2>2. pc' = [pc EXCEPT ![r] = "tmp"]
    BY <1>6 DEF WriteFrame
  <2>3. ~ Sealed(event[r].id) /\ event[r].id <= events
    BY <2>1 DEF InHandInv, Written
  <2>4. \A e : Sealed(e)' => Sealed(e) \/ e = event[r].id
    BY <1>ty, <1>6, WriteExtends DEF Sealed
  <2>5. InHandInv'
    BY <1>ty, <2>1, <2>2, <2>4 DEF InHandInv, Written
  <2>6. OnceInv'
    <3>1. \A i \in 1 .. Len(frames') :
              \/ i \in 1 .. Len(frames) /\ frames'[i] = frames[i]
              \/ i = Len(frames) + 1 /\ frames'[i].hash = event[r].id
      BY <1>ty, <1>6, WriteExtends
    <3>2. \A i \in 1 .. Len(frames) : frames[i].hash # event[r].id
      BY <2>3 DEF Sealed
    <3> QED
      BY <2>1, <2>3, <3>1, <3>2 DEF OnceInv
  <2>7. AckedInv'
    BY <1>ty, <1>6, <2>1, WriteExtends DEF AckedInv
  <2> QED
    BY <2>5, <2>6, <2>7
<1>7. ASSUME NEW r \in Recorders, RenameHead(r) PROVE EventInv'
  <2>1. UNCHANGED <<frames, events>> /\ acked' = acked \cup {event[r].id}
    BY <1>7 DEF RenameHead
  <2>2. InHandInv'
    BY <1>7, <1>end DEF RenameHead
  <2>3. OnceInv'
    BY <2>1 DEF OnceInv
  <2>4. AckedInv'
    BY <1>7, <2>1, RenameCatchesUp DEF AckedInv
  <2> QED
    BY <2>2, <2>3, <2>4
<1> QED
  BY <1>1, <1>2, <1>3, <1>4, <1>5, <1>6, <1>7, QuietSteps DEF TypeInv

LEMMA EventInit == InitLog => EventInv
  BY DEF InitLog, EventInv, InHandInv, OnceInv, AckedInv, Processes

LEMMA EventHolds == Spec => [](TypeInv /\ LockInv /\ ChainInv /\ EventInv)
<1>1. TypeInv /\ LockInv /\ ChainInv /\ EventInv /\ [Next]_logVars => EventInv'
  BY EventStep
<1> QED
  BY <1>1, EventInit, ChainHolds, PTL DEF Spec

(* An append that returned Ok is in the log exactly once, and `head` is at *)
(* or past it: cutting the log back behind an acknowledged event is always *)
(* something `verify` sees.                                                *)
THEOREM AckedAreCovered == Spec => []AckedIsCovered
<1>1. EventInv => AckedIsCovered
  BY DEF EventInv, OnceInv, AckedInv, AckedIsCovered
<1> QED
  BY <1>1, EventHolds, PTL

-----------------------------------------------------------------------------
(* The abstract log.                                                       *)

LEMMA EntersChain ==
    ASSUME TypeInv, ChainInv, EventInv, NEW r \in Recorders, WriteFrame(r)
    PROVE  Promise!Enter
<1> DEFINE f == Seal(event[r], HeadOf(frames))
<1>1. frames \in Seq(FrameOver(Kinds)) /\ pc[r] = "write"
  BY DEF WriteFrame, TypeInv, TypeOK
<1>2. frames' = Append(frames, f)
  BY DEF WriteFrame, ChainInv, LinkInv
<1>3. f \in FrameOver(Kinds)
  BY <1>1, HeadOfType, SealType DEF TypeInv, EventInHand
<1>4. f.hash \notin Promise!Held
  BY <1>1 DEF EventInv, InHandInv, Sealed, Seal, Written, Promise!Held
<1>5. frames' # <<>> /\ frames'[Len(frames')] = f
  BY <1>1, <1>2
<1>6. f.seq = HeadOf(frames).seq + 1 /\ f.prev = HeadOf(frames).hash
  BY DEF Seal
<1>7. UNCHANGED acked
  BY DEF WriteFrame, recorderVars
<1>8. /\ Promise!FrameOver(Kinds) = FrameOver(Kinds)
      /\ Promise!HeadOf(frames) = HeadOf(frames)
  BY DEF Promise!FrameOver, FrameOver, Promise!HeadOf, HeadOf, Promise!HeadAt, HeadAt,
         Promise!NoHead, NoHead, Promise!Genesis, Genesis
<1> HIDE DEF f
<1> QED
  BY <1>2, <1>3, <1>4, <1>5, <1>6, <1>7, <1>8 DEF Promise!Enter

LEMMA ReturnsHeld ==
    ASSUME TypeInv, ChainInv, EventInv, NEW r \in Recorders, RenameHead(r)
    PROVE  Promise!Return
<1>1. event[r].id \notin acked /\ acked' = acked \cup {event[r].id} /\ UNCHANGED frames
  BY DEF RenameHead, EventInv, InHandInv
<1>2. event[r].id \in Promise!Held
  BY RenameCatchesUp DEF Promise!Held
<1> QED
  BY <1>1, <1>2 DEF Promise!Return

(* append does what AbstractLog promises its callers: one chain that grows *)
(* a linked frame at a time, each event at most once, and Ok only for an   *)
(* event the chain already holds.                                          *)
THEOREM AppendKeepsPromise == Spec => ImplementsAbstractLog
<1>1. InitLog => Promise!Init
  BY DEF InitLog, Promise!Init
<1>2. ASSUME TypeInv, LockInv, ChainInv, EventInv, [Next]_logVars
      PROVE  [Promise!Next]_<<frames, acked>>
  <2>1. CASE Quiet
    BY <2>1 DEF Quiet
  <2>2. ASSUME NEW r \in Recorders,
               \/ StartAppend(r) \/ ReadHead(r) \/ TakeLink(r) \/ Refuse(r)
               \/ WriteTmp(r) \/ FailAppend(r)
        PROVE  UNCHANGED <<frames, acked>>
    BY <2>2 DEF StartAppend, ReadHead, TakeLink, Refuse, WriteTmp, FailAppend,
                diskVars, recorderVars
  <2>3. ASSUME NEW r \in Recorders, WriteFrame(r) PROVE Promise!Next
    BY <1>2, <2>3, EntersChain DEF Promise!Next
  <2>4. ASSUME NEW r \in Recorders, RenameHead(r) PROVE Promise!Next
    BY <1>2, <2>4, ReturnsHeld DEF Promise!Next
  <2> QED
    BY <1>2, <2>1, <2>2, <2>3, <2>4, QuietSteps DEF TypeInv
<1> QED
  BY <1>1, <1>2, EventHolds, PTL DEF Spec, ImplementsAbstractLog, Promise!Spec

-----------------------------------------------------------------------------
(* verify.                                                                 *)

(* A verifier between its two reads has seen the log there is, and a torn  *)
(* log is a death's doing.                                                 *)
WalkInv ==
    /\ \A v \in Verifiers : pc[v] = "head" => walk[v] = HeadOf(frames)
    /\ torn => failures > 0
AlarmInv == WalkInv /\ NoFalseAlarm

(* Nobody is appending while a verifier holds the lock.                    *)
LEMMA NoWriterBeside ==
    ASSUME LockInv, NEW v \in Verifiers, Holds(v)
    PROVE  Owed = 0 /\ \A r \in Recorders : ~ Holds(r)
<1>1. \A r \in Recorders : ~ Holds(r)
  BY ProcessesAssumption DEF LockInv, Processes
<1> QED
  BY <1>1 DEF Owed, Written, Holds

(* What verify can say of a dense log and a head that trails it.           *)
LEMMA WalkIsSound ==
    ASSUME DenseChain, WalkVerdict # "ok"
    PROVE  WalkVerdict = "TornTail" /\ torn
<1>1. torn
  BY DEF WalkVerdict, VerifySegment, DenseChain
<1> QED
  BY <1>1 DEF WalkVerdict, VerifySegment

LEMMA HeadIsSound ==
    ASSUME TypeInv, DenseChain, HeadInv, Owed = 0
    PROVE  /\ HeadVerdict(HeadOf(frames)) \in {"ok", "HeadMissing", "HeadStale"}
           /\ failures = 0 => HeadVerdict(HeadOf(frames)) = "ok"
<1>1. frames \in Seq(FrameOver(Kinds)) /\ failures \in Nat /\ Len(frames) \in Nat
  BY DEF TypeInv, TypeOK
<1>2. Len(frames) - (head.seq + 1) <= failures /\ Linked(NoHead, frames)
  BY <1>1 DEF HeadInv, DenseChain
<1>3. CASE head = NoHead
  <2>1. failures = 0 => frames = <<>>
    BY <1>1, <1>2, <1>3 DEF NoHead
  <2> QED
    BY <1>3, <2>1 DEF HeadVerdict, HeadOf
<1>4. ASSUME NEW i \in 1 .. Len(frames), head = HeadAt(frames[i])
      PROVE  /\ HeadVerdict(HeadOf(frames)) \in {"ok", "HeadStale"}
             /\ failures = 0 => HeadVerdict(HeadOf(frames)) = "ok"
  <2>1. head.seq = i - 1 /\ HeadOf(frames).seq = Len(frames) - 1
    BY <1>1, <1>2, <1>4, LastSeq DEF HeadAt
  <2>2. CASE i = Len(frames)
    <3>1. head = HeadOf(frames)
      BY <1>4, <2>2 DEF HeadOf
    <3> QED
      BY <3>1 DEF HeadVerdict
  <2>3. CASE i < Len(frames)
    <3>1. head.seq < HeadOf(frames).seq /\ head # HeadOf(frames) /\ head # NoHead
      BY <1>1, <2>1, <2>3 DEF NoHead
    <3>2. HeadVerdict(HeadOf(frames)) = HeadAgrees(head, HeadOf(frames))
      BY <3>1 DEF HeadVerdict
    <3>3. HeadAgrees(head, HeadOf(frames)) = "HeadStale"
      BY <1>1, <2>1, <3>1 DEF HeadAgrees
    <3> QED
      BY <1>1, <1>2, <2>1, <2>3, <3>2, <3>3
  <2> QED
    BY <1>1, <2>2, <2>3
<1> QED
  BY <1>3, <1>4 DEF HeadInv

LEMMA AlarmStep ==
    ASSUME TypeInv, LockInv, ChainInv, HeadInv, AlarmInv, [Next]_logVars
    PROVE  AlarmInv'
<1> USE DEF AlarmInv
<1>ty. /\ pc \in [Processes -> {"idle", "open", "flock", "events", "busy"} \cup Critical]
       /\ walk \in [Verifiers -> Heads]
       /\ report \in [Verifiers -> Verdicts \cup {"none"}]
       /\ failures \in Nat
       /\ \A v \in Verifiers : v \in Processes
  BY DEF TypeInv, TypeOK, Processes
<1>log. ASSUME UNCHANGED <<frames, walk, report, torn>>, failures' >= failures, failures' \in Nat,
               \A v \in Verifiers : pc'[v] = "head" => pc[v] = "head"
        PROVE  AlarmInv'
  BY <1>ty, <1>log DEF WalkInv, NoFalseAlarm
<1>1. ASSUME NEW r \in Recorders,
             \/ StartAppend(r) \/ AppendOpens(r) \/ AppendLocks(r) \/ ReadHead(r) \/ TakeLink(r)
             \/ Refuse(r) \/ WriteTmp(r) \/ RenameHead(r)
      PROVE  AlarmInv'
  <2>1. UNCHANGED <<frames, torn, failures, verifierVars>>
    BY <1>1 DEF StartAppend, AppendOpens, OpenLock, AppendLocks, ReadHead, TakeLink, Refuse,
                WriteTmp, RenameHead, diskVars, recorderVars
  <2>2. \A v \in Verifiers : pc'[v] = pc[v]
    BY <1>ty, <1>1, ProcessesAssumption
       DEF StartAppend, AppendOpens, OpenLock, AppendLocks, ReadHead, TakeLink, Refuse,
           WriteTmp, RenameHead, EndAppend, Processes
  <2> QED
    BY <1>ty, <1>log, <2>1, <2>2 DEF verifierVars
<1>2. ASSUME NEW r \in Recorders, WriteFrame(r) PROVE AlarmInv'
  <2>1. UNCHANGED <<torn, failures, walk, report>>
    BY <1>2 DEF WriteFrame, recorderVars, verifierVars
  <2>2. \A v \in Verifiers : ~ Holds(v)
    BY <1>2, NoWriterBeside DEF WriteFrame, Holds
  <2>3. \A v \in Verifiers : pc'[v] # "head"
    BY <1>ty, <1>2, <2>2, ProcessesAssumption DEF WriteFrame, Holds, Processes
  <2> QED
    BY <2>1, <2>3 DEF WalkInv, NoFalseAlarm
<1>3. ASSUME NEW r \in Recorders, FailAppend(r) PROVE AlarmInv'
  <2>1. UNCHANGED <<frames, walk, report>> /\ failures' = failures + 1
    BY <1>3 DEF FailAppend, verifierVars
  <2>2. \A v \in Verifiers : pc'[v] = pc[v]
    BY <1>ty, <1>3, ProcessesAssumption DEF FailAppend, EndAppend, Processes
  <2> QED
    BY <1>ty, <2>1, <2>2 DEF WalkInv, NoFalseAlarm
<1>4. ASSUME NEW v \in Verifiers, StartVerify(v) \/ VerifyOpens(v) \/ VerifyLocks(v)
      PROVE  AlarmInv'
  <2>1. UNCHANGED <<frames, torn, failures, walk, report>>
    BY <1>4 DEF StartVerify, VerifyOpens, VerifyLocks, OpenLock, diskVars, recorderVars, verifierVars
  <2>2. \A w \in Verifiers : pc'[w] = "head" => pc[w] = "head"
    BY <1>ty, <1>4 DEF StartVerify, VerifyOpens, VerifyLocks, OpenLock
  <2> QED
    BY <1>ty, <1>log, <2>1, <2>2
<1>end. ASSUME NEW v \in Verifiers, NEW verdict, EndVerify(v, verdict), UNCHANGED diskVars,
               UNCHANGED failures, verdict \in {"ok", "TornTail", "HeadMissing", "HeadStale"},
               failures = 0 => verdict = "ok"
        PROVE  AlarmInv'
  <2>1. NoFalseAlarm'
    BY <1>ty, <1>end DEF EndVerify, NoFalseAlarm
  <2>2. WalkInv'
    BY <1>ty, <1>end DEF EndVerify, WalkInv, diskVars
  <2> QED
    BY <2>1, <2>2
<1>5. ASSUME NEW v \in Verifiers, WalkFrames(v) PROVE AlarmInv'
  <2>1. CASE WalkVerdict = "ok"
    <3>1. UNCHANGED <<frames, torn, failures, report>>
      BY <1>5, <2>1 DEF WalkFrames, diskVars, recorderVars
    <3>2. pc' = [pc EXCEPT ![v] = "head"] /\ walk' = [walk EXCEPT ![v] = HeadOf(frames)]
      BY <1>5, <2>1 DEF WalkFrames
    <3> QED
      BY <1>ty, <3>1, <3>2 DEF WalkInv, NoFalseAlarm
  <2>2. CASE WalkVerdict # "ok"
    <3>1. WalkVerdict = "TornTail" /\ failures # 0
      BY <1>ty, <2>2, WalkIsSound DEF ChainInv, WalkInv
    <3> QED
      BY <1>5, <1>end, <2>2, <3>1 DEF WalkFrames, recorderVars
  <2> QED
    BY <2>1, <2>2
<1>6. ASSUME NEW v \in Verifiers, CompareHead(v) PROVE AlarmInv'
  <2>1. Owed = 0 /\ walk[v] = HeadOf(frames)
    BY <1>6, NoWriterBeside DEF CompareHead, Holds, WalkInv
  <2> QED
    BY <1>6, <1>end, <2>1, HeadIsSound DEF CompareHead, ChainInv, recorderVars
<1>7. ASSUME NEW s \in Shippers, ShipWants(s) \/ ShipOpens(s) \/ ShipLocks(s) \/ ShipDrops(s)
      PROVE  AlarmInv'
  <2>1. UNCHANGED <<frames, torn, failures, walk, report>>
    BY <1>7 DEF ShipWants, ShipOpens, ShipLocks, ShipDrops, OpenLock, diskVars, recorderVars,
                verifierVars
  <2>2. \A v \in Verifiers : pc'[v] = pc[v]
    BY <1>ty, <1>7, ProcessesAssumption
       DEF ShipWants, ShipOpens, ShipLocks, ShipDrops, OpenLock, Processes
  <2> QED
    BY <1>ty, <1>log, <2>1, <2>2
<1>8. CASE UNCHANGED logVars
  BY <1>ty, <1>8, <1>log DEF logVars, diskVars, recorderVars, verifierVars
<1> QED
  BY <1>1, <1>2, <1>3, <1>4, <1>5, <1>6, <1>7, <1>8
     DEF Next, LogStep, RecorderStep, VerifierStep, ShipperStep

LEMMA AlarmInit == InitLog => AlarmInv
  BY DEF InitLog, AlarmInv, WalkInv, NoFalseAlarm, Processes

(* verify never calls what concurrent appends did damage: it reports a     *)
(* clean log while no append has died, and afterwards only what a death    *)
(* leaves behind, never a rewritten or shortened log.                      *)
THEOREM VerifyIsSound == Spec => []NoFalseAlarm
<1>1. /\ TypeInv /\ LockInv /\ ChainInv /\ HeadInv /\ AlarmInv /\ [Next]_logVars
      => AlarmInv'
  BY AlarmStep
<1>2. AlarmInv => NoFalseAlarm
  BY DEF AlarmInv
<1> QED
  BY <1>1, <1>2, AlarmInit, HeadHolds, PTL DEF Spec
=============================================================================
