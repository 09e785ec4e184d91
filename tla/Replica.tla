------------------------------ MODULE Replica ------------------------------
(***************************************************************************)
(* What `nd7 ship` and the vault promise together, without runs, locks,    *)
(* requests or answers: the vault's copy of a chain is at every moment     *)
(* what the log once was, it only grows, under the one key that was        *)
(* wrapped to the admins with its first frame; and the local mark says at  *)
(* most what the copy has.                                                 *)
(***************************************************************************)
EXTENDS Chain

NoKey == 0

VARIABLES
    log,   \* the session's frames
    copy,  \* the vault's
    mark,  \* what is locally known to be in the copy
    wrap   \* the key that opens the copy

Init == log = <<>> /\ copy = <<>> /\ mark = NoHead /\ wrap = NoKey

(* A hook appends, whatever the copy is at.                                *)
Write ==
    /\ log' # <<>> /\ log' = Append(log, log'[Len(log')])
    /\ UNCHANGED <<copy, mark, wrap>>

(* The copy catches up with part of the log, or with all of it.            *)
Replicate ==
    /\ \E n \in Len(copy) + 1 .. Len(log) : copy' = SubSeq(log, 1, n)
    /\ IF copy = <<>> THEN wrap' # NoKey ELSE UNCHANGED wrap
    /\ UNCHANGED <<log, mark>>

(* One of its frames is marked as held.                                    *)
Mark ==
    /\ \E n \in 1 .. Len(copy) : mark' = HeadAt(copy[n])
    /\ UNCHANGED <<log, copy, wrap>>

Next == Write \/ Replicate \/ Mark

Spec == Init /\ [][Next]_<<log, copy, mark, wrap>>
=============================================================================
