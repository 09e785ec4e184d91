------------------------------- MODULE Chain -------------------------------
(***************************************************************************)
(* The hash chain of one session as the functions that judge it see it:    *)
(* the writer (next_link), the reader (verify_segment, head_agrees) and    *)
(* the vault (verify_linkage).                                             *)
(*                                                                         *)
(* A frame is one sealed NDJSON line.  Of its bytes only the chain fields  *)
(* and the kind are kept.  BLAKE3 is abstracted to a name: the hash of a   *)
(* frame is the number of the event it seals, so two frames have the same  *)
(* hash exactly when they are the same frame.  Genesis is the value of     *)
(* `prev` at seq 0, BLAKE3 of the session id.                              *)
(***************************************************************************)
EXTENDS Integers, Sequences

Genesis == 0

(* What `head` and `shipped` hold: a frame's seq and hash.  NoHead stands  *)
(* for a sidecar that is not on disk; its fields are the ones a chain's    *)
(* first frame links to, so that "the frame after NoHead" is seq 0.        *)
NoHead == [seq |-> -1, hash |-> Genesis]
Heads == [seq : Nat, hash : Nat] \cup {NoHead}

FrameOver(kinds) ==
    [seq : Nat, prev : Nat, hash : Nat \ {Genesis}, kind : kinds]

HeadAt(f) == [seq |-> f.seq, hash |-> f.hash]
HeadOf(s) == IF s = <<>> THEN NoHead ELSE HeadAt(s[Len(s)])

(* The frame that seals an event after the frame `at` names.               *)
Seal(event, at) ==
    [seq |-> at.seq + 1, prev |-> at.hash, hash |-> event.id, kind |-> event.kind]

(* Position i of a run of frames continues the one before it, the first    *)
(* one continuing `after`.                                                 *)
SeqFits(after, s, i) == s[i].seq = after.seq + i
PrevFits(after, s, i) ==
    s[i].prev = IF i = 1 THEN after.hash ELSE s[i - 1].hash
Linked(after, s) ==
    \A i \in 1 .. Len(s) : SeqFits(after, s, i) /\ PrevFits(after, s, i)

FirstBreak(after, s) ==
    CHOOSE i \in 1 .. Len(s) :
        /\ ~ (SeqFits(after, s, i) /\ PrevFits(after, s, i))
        /\ \A j \in 1 .. i - 1 : SeqFits(after, s, j) /\ PrevFits(after, s, j)

(* head_agrees: whether a head still names the last frame.                 *)
HeadAgrees(head, last) ==
    CASE head.seq < last.seq -> "HeadStale"
      [] head.seq > last.seq -> "Truncated"
      [] head.seq = last.seq /\ head.hash # last.hash -> "HeadMismatch"
      [] head = last -> "ok"

(* verify_segment over frames whose bytes are the writer's own.            *)
VerifySegment(after, s, torn) ==
    CASE torn -> "TornTail"
      [] ~torn /\ s = <<>> -> IF after = NoHead THEN "Unsealed" ELSE "ok"
      [] ~torn /\ s # <<>> /\ Linked(after, s) -> "ok"
      [] OTHER -> IF SeqFits(after, s, FirstBreak(after, s))
                  THEN "PrevMismatch" ELSE "SeqGap"

(* Slip: only a missing head is repaired.                                  *)
RepairableIfMissing(head, s) == s # <<>> /\ head = NoHead

(* next_link's two repairs: frames with no head, and a head that names the *)
(* frame the last one links to.                                            *)
Repairable(head, s) ==
    /\ s # <<>>
    /\ \/ head = NoHead
       \/ head = [seq |-> s[Len(s)].seq - 1, hash |-> s[Len(s)].prev]

(* next_link: whether an append may continue from the log's tail.          *)
NextLink(head, s) ==
    CASE s = <<>> -> IF head = NoHead THEN "ok" ELSE "Truncated"
      [] s # <<>> /\ Repairable(head, s) -> "ok"
      [] OTHER -> HeadAgrees(head, HeadOf(s))
=============================================================================
