---------------------------- MODULE AbstractLog ----------------------------
(***************************************************************************)
(* What SessionLog::append promises its callers: one chain per session     *)
(* that only grows, one whole frame at a time and each linked to the frame *)
(* before it; an event is sealed into it at most once; and a call returns  *)
(* Ok only for an event the chain holds.                                   *)
(***************************************************************************)
EXTENDS Chain

CONSTANT Kinds

VARIABLES
    chain,  \* the session's frames
    done    \* the events whose append returned Ok

Held == {chain[i].hash : i \in 1 .. Len(chain)}

Init == chain = <<>> /\ done = {}

(* The event enters the chain, before its caller hears of it and even if   *)
(* its caller never does.                                                  *)
Enter ==
    /\ chain' # <<>>
    /\ LET f == chain'[Len(chain')] IN
           /\ f \in FrameOver(Kinds) /\ f.hash \notin Held
           /\ f.seq = HeadOf(chain).seq + 1 /\ f.prev = HeadOf(chain).hash
           /\ chain' = Append(chain, f)
    /\ UNCHANGED done

(* A call returns Ok.                                                      *)
Return ==
    /\ \E e \in Held \ done : done' = done \cup {e}
    /\ UNCHANGED chain

Next == Enter \/ Return

Spec == Init /\ [][Next]_<<chain, done>>
=============================================================================
