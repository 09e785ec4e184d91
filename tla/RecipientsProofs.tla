-------------------------- MODULE RecipientsProofs --------------------------
(***************************************************************************)
(* What Recipients promises for any admins, strangers, enrolments, ship    *)
(* runs and chains, and any bounds: only admins the organisation vouched   *)
(* for are ever pinned or wrapped to, a key on disk is never without its   *)
(* id and its set, a set goes back and a pair of key and id breaks only in *)
(* the ways Recipients names, and a set is refused only by a machine that  *)
(* has missed a change.                                                    *)
(*                                                                         *)
(* The invariant is built in layers: types, what the sets and the files    *)
(* are, what a process that runs alone knows, and which pairs the vault    *)
(* has.                                                                    *)
(***************************************************************************)
EXTENDS Recipients, SequenceTheorems, TLAPS

Signers == Admins \cup Strangers
Sets == [by : Signers, admins : SUBSET Signers, version : Nat]
EnrollStages == {"off", "post", "check", "id", "recipients", "key"}
ShipStages == {"off", "id", "recipients", "fetch", "check", "push"}
EnrollMemory ==
    [stage : EnrollStages, rotate : BOOLEAN, token : SUBSET Signers, key : Nat, id : Nat,
     set : Sets, stale : BOOLEAN]
ShipMemory ==
    [stage : ShipStages, key : Nat, id : Nat, pinned : Sets, fetched : Sets,
     stale : BOOLEAN, todo : SUBSET Chains, ended : {"done", "stopped", "unreachable"}]
Directory == [id : Nat, recipients : Sets, key : Nat]

TypeInv ==
    /\ disk \in Directory
    /\ enroll \in [Enrollers -> EnrollMemory]
    /\ ship \in [Shippers -> ShipMemory]
    /\ sets \in Seq(Sets) /\ sets # <<>>
    /\ machines \in Seq(Nat)
    /\ wraps \in [Chains -> SUBSET Signers]
    /\ alone \in SUBSET Procs /\ mixed \in BOOLEAN
    /\ keys \in Nat /\ failures \in Nat

-----------------------------------------------------------------------------
(* Types, and what each step does to what its process holds.               *)

LEMMA SetTypes ==
    /\ NoSet \in Sets
    /\ Signed(Founder, {Founder}, 1) \in Sets
    /\ EnrollOff \in EnrollMemory
    /\ ShipOff \in ShipMemory
<1>1. NoSet \in Sets /\ Signed(Founder, {Founder}, 1) \in Sets
  BY RecipientsAssumption DEF NoSet, Signed, Sets, Signers
<1>2. NoKey \in Nat /\ NoId \in Nat
  BY DEF NoKey, NoId
<1>3. EnrollOff \in EnrollMemory
  BY <1>1, <1>2 DEF EnrollOff, EnrollMemory, EnrollStages
<1>4. ShipOff \in ShipMemory
  BY <1>1, <1>2 DEF ShipOff, ShipMemory, ShipStages
<1> QED
  BY <1>1, <1>3, <1>4

LEMMA CurrentType ==
    ASSUME TypeInv
    PROVE  /\ Len(sets) \in 1 .. Len(sets) /\ Len(sets) \in Nat /\ Current \in Sets
           /\ \A set \in HandsOut :
                  /\ set \in Sets /\ Outdated(set) \in BOOLEAN
                  /\ \/ \E i \in DOMAIN sets : set = sets[i]
                     \/ \E x \in Strangers : set = Signed(x, {x}, Len(sets) + 1)
<1>1. Len(sets) \in 1 .. Len(sets) /\ Len(sets) \in Nat /\ Current \in Sets
  BY DEF TypeInv, Current
<1>3. ASSUME NEW set \in Sets PROVE Outdated(set) \in BOOLEAN
  BY DEF Outdated
<1>4. \A i \in DOMAIN sets : sets[i] \in Sets
  BY DEF TypeInv
<1>2. \A x \in Strangers : Signed(x, {x}, Len(sets) + 1) \in Sets
  BY <1>1 DEF Signed, Sets, Signers
<1> QED
  BY <1>1, <1>2, <1>3, <1>4 DEF HandsOut, Substitutes

(* An enrolment that changes what it holds.                                *)
LEMMA EnrollHolds ==
    ASSUME TypeInv, NEW e \in Enrollers, NEW m \in EnrollMemory,
           enroll' = [enroll EXCEPT ![e] = m]
    PROVE  /\ enroll' \in [Enrollers -> EnrollMemory] /\ enroll'[e] = m
           /\ \A f \in Enrollers \ {e} : enroll'[f] = enroll[f]
  BY DEF TypeInv

LEMMA ShipHolds ==
    ASSUME TypeInv, NEW s \in Shippers, NEW m \in ShipMemory,
           ship' = [ship EXCEPT ![s] = m]
    PROVE  /\ ship' \in [Shippers -> ShipMemory] /\ ship'[s] = m
           /\ \A t \in Shippers \ {s} : ship'[t] = ship[t]
  BY DEF TypeInv

OthersEnroll(e) == \A f \in Enrollers \ {e} : enroll'[f] = enroll[f]
OthersShip(s) == \A t \in Shippers \ {s} : ship'[t] = ship[t]

LEMMA Started ==
    ASSUME TypeInv, NEW e \in Enrollers, NEW rotate \in BOOLEAN, NEW token \in SUBSET Signers,
           StartEnroll(e, rotate, token)
    PROVE  /\ enroll' \in [Enrollers -> EnrollMemory] /\ OthersEnroll(e) /\ keys' \in Nat
           /\ enroll'[e].stage = "post" /\ enroll'[e].token = token
<1> DEFINE m == [enroll[e] EXCEPT !.stage = "post", !.rotate = rotate, !.token = token,
                                  !.key = keys']
<1>ty. enroll \in [Enrollers -> EnrollMemory] /\ keys' \in Nat
  BY DEF StartEnroll, TypeInv
<1>1. enroll' = [enroll EXCEPT ![e] = m]
  BY <1>ty DEF StartEnroll
<1>2. ASSUME NEW n \in EnrollMemory, NEW k \in Nat
      PROVE  [n EXCEPT !.token = token, !.key = k] \in EnrollMemory
  BY DEF EnrollMemory
<1>3. [enroll[e] EXCEPT !.stage = "post", !.rotate = rotate] \in EnrollMemory
  BY DEF TypeInv, EnrollMemory, EnrollStages
<1>4. m \in EnrollMemory
  BY <1>ty, <1>2, <1>3
<1>5. m.stage = "post" /\ m.token = token
  BY DEF TypeInv, EnrollMemory
<1> HIDE DEF m
<1> QED
  BY <1>ty, <1>1, <1>4, <1>5, EnrollHolds DEF OthersEnroll

LEMMA Registers ==
    ASSUME TypeInv, NEW e \in Enrollers, VaultEnrolls(e)
    PROVE  /\ enroll' \in [Enrollers -> EnrollMemory] /\ OthersEnroll(e)
           /\ machines' \in Seq(Nat) /\ Len(machines') \in Nat \ {0}
           /\ enroll'[e].stage = "check" /\ enroll'[e].id = Len(machines')
           /\ enroll'[e].key = enroll[e].key /\ enroll'[e].token = enroll[e].token
           /\ enroll'[e].set \in HandsOut
           /\ enroll'[e].stale = Outdated(enroll'[e].set)
<1>1. enroll[e] \in EnrollMemory /\ enroll[e].key \in Nat /\ machines \in Seq(Nat)
  BY DEF TypeInv, EnrollMemory
<1>2. machines' \in Seq(Nat) /\ Len(machines') \in Nat \ {0}
  <2>1. CASE machines' = Append(machines, enroll[e].key)
    BY <1>1, <2>1
  <2>2. CASE /\ machines # <<>>
             /\ machines' = [machines EXCEPT ![Len(machines)] = enroll[e].key]
    BY <1>1, <2>2
  <2> QED
    BY <2>1, <2>2 DEF VaultEnrolls, Register
<1>3. PICK set \in HandsOut :
          enroll' = [enroll EXCEPT ![e].stage = "check", ![e].id = Len(machines'),
                                   ![e].set = set, ![e].stale = Outdated(set),
                                   ![e].rotate = FALSE]
  BY DEF VaultEnrolls
<1> DEFINE m == [enroll[e] EXCEPT !.stage = "check", !.id = Len(machines'), !.set = set,
                                  !.stale = Outdated(set), !.rotate = FALSE]
<1>4. enroll' = [enroll EXCEPT ![e] = m]
  BY <1>3 DEF TypeInv
<1>5. m \in EnrollMemory
  <2>1. set \in Sets /\ "check" \in EnrollStages /\ Outdated(set) \in BOOLEAN
    BY CurrentType DEF EnrollStages
  <2>2. ASSUME NEW n \in Nat, NEW b \in BOOLEAN
        PROVE  [enroll[e] EXCEPT !.stage = "check", !.id = n, !.set = set, !.stale = b,
                                 !.rotate = FALSE] \in EnrollMemory
    BY <1>1, <2>1 DEF EnrollMemory
  <2> QED
    BY <1>2, <2>1, <2>2
<1>6. /\ m.stage = "check" /\ m.id = Len(machines') /\ m.set = set /\ m.stale = Outdated(set)
      /\ m.key = enroll[e].key /\ m.token = enroll[e].token
  BY <1>1 DEF EnrollMemory
<1> HIDE DEF m
<1> QED
  BY <1>2, <1>4, <1>5, <1>6, EnrollHolds DEF OthersEnroll

(* It goes on to another stage, or ends.                                   *)
LEMMA EnrollGoes ==
    ASSUME TypeInv, NEW e \in Enrollers, NEW stage \in EnrollStages,
           enroll' = [enroll EXCEPT ![e].stage = stage]
    PROVE  /\ enroll' \in [Enrollers -> EnrollMemory] /\ OthersEnroll(e)
           /\ enroll'[e].stage = stage /\ enroll'[e].token = enroll[e].token
           /\ enroll'[e].id = enroll[e].id /\ enroll'[e].set = enroll[e].set
           /\ enroll'[e].key = enroll[e].key /\ enroll'[e].stale = enroll[e].stale
  BY DEF TypeInv, EnrollMemory, OthersEnroll

LEMMA EnrollEnds ==
    ASSUME TypeInv, NEW e \in Enrollers, EndEnroll(e)
    PROVE  /\ enroll' \in [Enrollers -> EnrollMemory] /\ OthersEnroll(e)
           /\ enroll'[e].stage = "off"
<1>1. enroll'[e] = EnrollOff /\ enroll' \in [Enrollers -> EnrollMemory] /\ OthersEnroll(e)
  BY SetTypes, EnrollHolds DEF EndEnroll, OthersEnroll
<1> QED
  BY <1>1 DEF EnrollOff

LEMMA RunEnds ==
    ASSUME TypeInv, NEW s \in Shippers, EndShip(s)
    PROVE  /\ ship' \in [Shippers -> ShipMemory] /\ OthersShip(s)
           /\ ship'[s].stage = "off" /\ ship'[s].pinned = NoSet
<1>1. ship'[s] = ShipOff /\ ship' \in [Shippers -> ShipMemory] /\ OthersShip(s)
  BY SetTypes, ShipHolds DEF EndShip, OthersShip
<1> QED
  BY <1>1 DEF ShipOff

LEMMA KeyLoaded ==
    ASSUME TypeInv, NEW s \in Shippers, LoadKey(s)
    PROVE  /\ ship' \in [Shippers -> ShipMemory] /\ OthersShip(s)
           /\ ship'[s].stage = "id" /\ ship'[s].pinned = NoSet
<1> DEFINE m == [ShipOff EXCEPT !.stage = "id", !.key = disk.key]
<1>1. ship' = [ship EXCEPT ![s] = m] /\ disk.key \in Nat
  BY DEF LoadKey, TypeInv, Directory
<1>2. m \in ShipMemory
  BY <1>1, SetTypes DEF ShipMemory, ShipStages
<1>3. m.stage = "id" /\ m.pinned = NoSet
  BY DEF ShipOff
<1> HIDE DEF m
<1> QED
  BY <1>1, <1>2, <1>3, ShipHolds DEF OthersShip

LEMMA IdLoaded ==
    ASSUME TypeInv, NEW s \in Shippers, LoadId(s)
    PROVE  /\ ship' \in [Shippers -> ShipMemory] /\ OthersShip(s)
           /\ \/ ship'[s].stage = "off" /\ ship'[s].pinned = NoSet
              \/ ship'[s].stage = "recipients" /\ ship'[s].pinned = ship[s].pinned
<1>1. ship[s] \in ShipMemory /\ disk.id \in Nat
  BY DEF TypeInv, Directory
<1>2. CASE disk.id = NoId
  <2>1. EndShip(s)
    BY <1>2 DEF LoadId, EndShip
  <2> QED
    BY <2>1, RunEnds
<1>3. CASE disk.id # NoId
  <2> DEFINE m == [ship[s] EXCEPT !.stage = "recipients", !.id = disk.id]
  <2>1. ship' = [ship EXCEPT ![s] = m]
    BY <1>3 DEF LoadId
  <2>2. m \in ShipMemory /\ m.stage = "recipients" /\ m.pinned = ship[s].pinned
    BY <1>1 DEF ShipMemory, ShipStages
  <2> HIDE DEF m
  <2> QED
    BY <2>1, <2>2, ShipHolds DEF OthersShip
<1> QED
  BY <1>2, <1>3

LEMMA SetLoaded ==
    ASSUME TypeInv, NEW s \in Shippers, LoadRecipients(s)
    PROVE  /\ ship' \in [Shippers -> ShipMemory] /\ OthersShip(s)
           /\ \/ ship'[s].stage = "off" /\ ship'[s].pinned = NoSet
              \/ /\ ship'[s].stage = "fetch" /\ ship'[s].pinned = disk.recipients
                 /\ disk.recipients # NoSet
<1>1. ship[s] \in ShipMemory /\ disk.recipients \in Sets
  BY DEF TypeInv, Directory
<1>2. CASE disk.recipients = NoSet
  <2>1. EndShip(s)
    BY <1>2 DEF LoadRecipients, EndShip
  <2> QED
    BY <2>1, RunEnds
<1>3. CASE disk.recipients # NoSet
  <2> DEFINE m == [ship[s] EXCEPT !.stage = "fetch", !.pinned = disk.recipients]
  <2>1. ship' = [ship EXCEPT ![s] = m]
    BY <1>3 DEF LoadRecipients
  <2>2. m \in ShipMemory /\ m.stage = "fetch" /\ m.pinned = disk.recipients
    BY <1>1 DEF ShipMemory, ShipStages
  <2> HIDE DEF m
  <2> QED
    BY <1>3, <2>1, <2>2, ShipHolds DEF OthersShip
<1> QED
  BY <1>2, <1>3

LEMMA SetFetched ==
    ASSUME TypeInv, NEW s \in Shippers, VaultAnswersSet(s)
    PROVE  /\ ship' \in [Shippers -> ShipMemory] /\ OthersShip(s)
           /\ ship'[s].stage = "check" /\ ship'[s].pinned = ship[s].pinned
           /\ ship'[s].fetched \in HandsOut
           /\ ship'[s].stale = Outdated(ship'[s].fetched)
<1>1. ship[s] \in ShipMemory /\ ship \in [Shippers -> ShipMemory]
  BY DEF TypeInv
<1>2. PICK set \in HandsOut :
          ship' = [ship EXCEPT ![s].stage = "check", ![s].fetched = set,
                               ![s].stale = Outdated(set)]
  BY DEF VaultAnswersSet
<1> DEFINE m == [ship[s] EXCEPT !.stage = "check", !.fetched = set, !.stale = Outdated(set)]
<1>3. ship' = [ship EXCEPT ![s] = m]
  BY <1>1, <1>2
<1>4. set \in Sets /\ Outdated(set) \in BOOLEAN
  BY CurrentType
<1>5. /\ m \in ShipMemory /\ m.stage = "check" /\ m.fetched = set
      /\ m.pinned = ship[s].pinned /\ m.stale = Outdated(set)
  BY <1>1, <1>4 DEF ShipMemory, ShipStages
<1> HIDE DEF m
<1> QED
  BY <1>3, <1>5, ShipHolds DEF OthersShip

LEMMA Pinned ==
    ASSUME TypeInv, NEW s \in Shippers, Pin(s)
    PROVE  /\ ship' \in [Shippers -> ShipMemory] /\ OthersShip(s)
           /\ ship'[s].stage = "push" /\ ship'[s].pinned = ship[s].fetched
           /\ disk' \in Directory /\ disk'.recipients = ship[s].fetched
           /\ disk'.id = disk.id /\ disk'.key = disk.key
<1>1. ship[s] \in ShipMemory /\ ship \in [Shippers -> ShipMemory] /\ ship[s].fetched \in Sets
  BY DEF TypeInv, ShipMemory
<1> DEFINE m == [ship[s] EXCEPT !.stage = "push", !.pinned = ship[s].fetched,
                                !.stale = FALSE, !.todo = Chains \ shipped]
<1>2. ship' = [ship EXCEPT ![s] = m]
  BY <1>1 DEF Pin
<1>3. Chains \ shipped \in SUBSET Chains
  OBVIOUS
<1>4. m \in ShipMemory /\ m.stage = "push" /\ m.pinned = ship[s].fetched
  BY <1>1, <1>3 DEF ShipMemory, ShipStages
<1>5. disk' = [disk EXCEPT !.recipients = ship[s].fetched] /\ disk \in Directory
  BY DEF Pin, TypeInv
<1>6. /\ disk' \in Directory /\ disk'.recipients = ship[s].fetched
      /\ disk'.id = disk.id /\ disk'.key = disk.key
  BY <1>1, <1>5 DEF Directory
<1> HIDE DEF m
<1> QED
  BY <1>2, <1>4, <1>6, ShipHolds DEF OthersShip

LEMMA Pushed ==
    ASSUME TypeInv, NEW s \in Shippers, NEW c \in Chains, Push(s, c) \/ PushLost(s, c)
    PROVE  /\ ship' \in [Shippers -> ShipMemory] /\ OthersShip(s)
           /\ ship'[s].stage = ship[s].stage /\ ship'[s].pinned = ship[s].pinned
           /\ wraps' \in [Chains -> SUBSET Signers]
           /\ \A d \in Chains : wraps'[d] = wraps[d] \/ wraps'[d] = ship[s].pinned.admins
<1>1. /\ ship[s] \in ShipMemory /\ ship \in [Shippers -> ShipMemory]
      /\ wraps \in [Chains -> SUBSET Signers]
  BY DEF TypeInv
<1>2. ship[s].pinned.admins \in SUBSET Signers
  BY <1>1 DEF ShipMemory, Sets
<1>3. VaultStores(s, c) \/ UNCHANGED wraps
  BY DEF Push, PushLost
<1>4. /\ wraps' \in [Chains -> SUBSET Signers]
      /\ \A d \in Chains : wraps'[d] = wraps[d] \/ wraps'[d] = ship[s].pinned.admins
  BY <1>1, <1>2, <1>3 DEF VaultStores
<1>5. PICK how \in {"done", "stopped", "unreachable"} : After(s, c, how)
  BY DEF Push, PushLost
<1> DEFINE m == [ship[s] EXCEPT !.todo = @ \ {c}, !.ended = Worse(@, how)]
<1>6. ship' = [ship EXCEPT ![s] = m]
  BY <1>1, <1>5 DEF After
<1>7. /\ ship[s].todo \ {c} \in SUBSET Chains
      /\ Worse(ship[s].ended, how) \in {"done", "stopped", "unreachable"}
  BY <1>1 DEF ShipMemory, Worse
<1>8. m \in ShipMemory /\ m.stage = ship[s].stage /\ m.pinned = ship[s].pinned
  BY <1>1, <1>7 DEF ShipMemory
<1> HIDE DEF m
<1> QED
  BY <1>4, <1>6, <1>8, ShipHolds DEF OthersShip

(* One file after another.                                                 *)
LEMMA Wrote ==
    ASSUME TypeInv, NEW e \in Enrollers, WriteEnrolment(e)
    PROVE  /\ enroll' \in [Enrollers -> EnrollMemory] /\ OthersEnroll(e)
           /\ disk' \in Directory
           /\ \/ /\ enroll[e].stage = "id" /\ enroll'[e].stage = "recipients"
                 /\ enroll'[e].token = enroll[e].token /\ enroll'[e].id = enroll[e].id
                 /\ enroll'[e].set = enroll[e].set /\ enroll'[e].key = enroll[e].key
                 /\ enroll'[e].stale = enroll[e].stale
                 /\ disk'.id = enroll[e].id /\ disk'.recipients = disk.recipients
                 /\ disk'.key = disk.key /\ UNCHANGED mixed
              \/ /\ enroll[e].stage = "recipients" /\ enroll'[e].stage = "key"
                 /\ enroll'[e].token = enroll[e].token /\ enroll'[e].id = enroll[e].id
                 /\ enroll'[e].set = enroll[e].set /\ enroll'[e].key = enroll[e].key
                 /\ disk'.id = disk.id /\ disk'.recipients = enroll[e].set
                 /\ disk'.key = disk.key /\ UNCHANGED mixed
              \/ /\ enroll[e].stage = "key" /\ enroll'[e].stage = "off"
                 /\ disk'.id = disk.id /\ disk'.recipients = disk.recipients
                 /\ disk'.key = enroll[e].key /\ mixed' = (mixed /\ e \notin alone)
<1>1. /\ enroll[e].id \in Nat /\ enroll[e].set \in Sets /\ enroll[e].key \in Nat
      /\ disk \in Directory
  BY DEF TypeInv, EnrollMemory
<1>2. CASE enroll[e].stage = "id"
  <2>1. /\ disk' = [disk EXCEPT !.id = enroll[e].id] /\ UNCHANGED mixed
        /\ enroll' = [enroll EXCEPT ![e].stage = "recipients"]
    BY <1>2 DEF WriteEnrolment, Written
  <2>2. /\ disk' \in Directory /\ disk'.id = enroll[e].id
        /\ disk'.recipients = disk.recipients /\ disk'.key = disk.key
    BY <1>1, <2>1 DEF Directory
  <2> QED
    BY <1>2, <2>1, <2>2, EnrollGoes DEF EnrollStages
<1>3. CASE enroll[e].stage = "recipients"
  <2>1. /\ disk' = [disk EXCEPT !.recipients = enroll[e].set] /\ UNCHANGED mixed
        /\ enroll' = [enroll EXCEPT ![e].stage = "key"]
    BY <1>3 DEF WriteEnrolment, Written
  <2>2. /\ disk' \in Directory /\ disk'.recipients = enroll[e].set
        /\ disk'.id = disk.id /\ disk'.key = disk.key
    BY <1>1, <2>1 DEF Directory
  <2> QED
    BY <1>3, <2>1, <2>2, EnrollGoes DEF EnrollStages
<1>4. CASE enroll[e].stage = "key"
  <2>1. /\ disk' = [disk EXCEPT !.key = enroll[e].key] /\ EndEnroll(e)
        /\ mixed' = (mixed /\ e \notin alone)
    BY <1>4 DEF WriteEnrolment, Written
  <2>2. /\ disk' \in Directory /\ disk'.key = enroll[e].key
        /\ disk'.id = disk.id /\ disk'.recipients = disk.recipients
    BY <1>1, <2>1 DEF Directory
  <2> QED
    BY <1>4, <2>1, <2>2, EnrollEnds
<1> QED
  BY <1>2, <1>3, <1>4 DEF WriteEnrolment, Writing

(* A change of the set adds one to those there have been.                  *)
LEMMA SetPublished ==
    ASSUME TypeInv, NEW by \in Admins, NEW a \in Admins, AddAdmin(by, a) \/ RemoveAdmin(by, a)
    PROVE  /\ sets' \in Seq(Sets) /\ Len(sets') = Len(sets) + 1
           /\ \A i \in DOMAIN sets : i \in DOMAIN sets' /\ sets'[i] = sets[i]
           /\ by \in Current.admins
           /\ LET set == sets'[Len(sets) + 1]
              IN  /\ set.by = by /\ set.version = Len(sets) + 1
                  /\ by \in set.admins /\ set.admins \subseteq Current.admins \cup {a}
           /\ UNCHANGED <<disk, enroll, ship, shipped, machines, wraps, alone, mixed,
                          keys, failures>>
<1>1. by \in Current.admins /\ Current \in Sets /\ Len(sets) \in Nat /\ sets \in Seq(Sets)
  BY CurrentType DEF AddAdmin, RemoveAdmin, TypeInv
<1>2. PICK x : /\ x \in {Current.admins \cup {a}, Current.admins \ {a}}
               /\ by \in x /\ Publish(by, x)
  BY <1>1 DEF AddAdmin, RemoveAdmin
<1>3. x \subseteq Current.admins \cup {a} /\ x \in SUBSET Signers
  BY <1>1, <1>2 DEF Sets, Signers
<1> DEFINE set == Signed(by, x, Len(sets) + 1)
<1>4. set \in Sets /\ set.by = by /\ set.version = Len(sets) + 1 /\ set.admins = x
  BY <1>1, <1>3 DEF Signed, Sets, Signers
<1>5. sets' = Append(sets, set)
  BY <1>2 DEF Publish
<1> HIDE DEF set
<1>6. /\ sets' \in Seq(Sets) /\ Len(sets') = Len(sets) + 1
      /\ \A i \in DOMAIN sets : i \in DOMAIN sets' /\ sets'[i] = sets[i]
      /\ sets'[Len(sets) + 1] = set
  BY <1>1, <1>4, <1>5
<1> QED
  BY <1>1, <1>2, <1>3, <1>4, <1>6 DEF Publish

LEMMA TypeInit == Init => TypeInv
<1> SUFFICES ASSUME Init PROVE TypeInv
  OBVIOUS
<1>1. disk \in Directory
  BY SetTypes DEF Init, Directory, NoId, NoKey
<1>2. enroll \in [Enrollers -> EnrollMemory] /\ ship \in [Shippers -> ShipMemory]
  BY SetTypes DEF Init
<1>3. sets \in Seq(Sets) /\ sets # <<>>
  <2>1. ASSUME NEW set \in Sets PROVE <<set>> \in Seq(Sets) /\ <<set>> # <<>>
    OBVIOUS
  <2> QED
    BY <2>1, SetTypes DEF Init
<1>4. machines \in Seq(Nat)
  <2>1. <<>> \in Seq(Nat) /\ machines = <<>>
    BY DEF Init
  <2> QED
    BY <2>1
<1>6. alone \in SUBSET Procs /\ mixed \in BOOLEAN /\ keys \in Nat /\ failures \in Nat
  BY DEF Init
<1>5. wraps \in [Chains -> SUBSET Signers]
  BY DEF Init, NoChain
<1> QED
  BY <1>1, <1>2, <1>3, <1>4, <1>5, <1>6 DEF TypeInv

LEMMA TypeStep == TypeInv /\ [Next]_vars => TypeInv'
<1> SUFFICES ASSUME TypeInv, [Next]_vars PROVE TypeInv'
  OBVIOUS
<1> USE DEF vaultVars
<1>1. CASE AdminStep
  <2>1. PICK by \in Admins, a \in Admins : AddAdmin(by, a) \/ RemoveAdmin(by, a)
    BY <1>1 DEF AdminStep
  <2>2. sets' \in Seq(Sets) /\ Len(sets') = Len(sets) + 1 /\ Len(sets) \in Nat
    BY <2>1, SetPublished, CurrentType
  <2>3. sets' # <<>>
    BY <2>2
  <2>4. UNCHANGED <<disk, enroll, ship, machines, wraps, alone, mixed, keys, failures>>
    BY <2>1, SetPublished
  <2> QED
    BY <2>2, <2>3, <2>4 DEF TypeInv
<1>alone. ASSUME NEW p \in Procs, Starts(p) PROVE alone' \in SUBSET Procs
  BY <1>alone DEF Starts
<1>2. ASSUME NEW e \in Enrollers, NEW rotate \in BOOLEAN, NEW i \in DOMAIN sets,
             StartEnroll(e, rotate, sets[i].admins)
      PROVE  TypeInv'
  <2>1. sets[i].admins \in SUBSET Signers
    <3>1. sets[i] \in Sets
      BY DEF TypeInv
    <3> QED
      BY <3>1 DEF Sets
  <2> QED
    BY <1>2, <1>alone, <2>1, Started DEF StartEnroll, TypeInv, Procs
<1>mixed. ASSUME NEW e \in Enrollers, CutOff(e) \/ UNCHANGED mixed PROVE mixed' \in BOOLEAN
  BY <1>mixed DEF CutOff, TypeInv
<1>fail. Fail => failures' \in Nat
  BY DEF Fail, TypeInv
<1>3. ASSUME NEW e \in Enrollers, VaultEnrolls(e) PROVE TypeInv'
  <2>1. mixed' \in BOOLEAN
    BY <1>3 DEF VaultEnrolls, TypeInv
  <2> QED
    BY <1>3, <2>1, Registers DEF VaultEnrolls, TypeInv
<1>4. ASSUME NEW e \in Enrollers, VaultRefuses(e) \/ EnrollFails(e) PROVE TypeInv'
  BY <1>4, <1>mixed, <1>fail, EnrollEnds DEF VaultRefuses, EnrollFails, TypeInv
<1>5. ASSUME NEW e \in Enrollers, CheckFingerprint(e) PROVE TypeInv'
  <2>1. mixed' \in BOOLEAN
    BY <1>5, <1>mixed DEF CheckFingerprint
  <2>2. enroll' \in [Enrollers -> EnrollMemory]
    BY <1>5, EnrollGoes, EnrollEnds DEF CheckFingerprint, EnrollStages
  <2> QED
    BY <1>5, <2>1, <2>2 DEF CheckFingerprint, TypeInv
<1>6. ASSUME NEW e \in Enrollers, WriteEnrolment(e) PROVE TypeInv'
  <2>1. mixed' \in BOOLEAN
    BY <1>6, Wrote DEF TypeInv
  <2> QED
    BY <1>6, <2>1, Wrote DEF WriteEnrolment, TypeInv
<1>7. ASSUME NEW s \in Shippers, LoadKey(s) PROVE TypeInv'
  BY <1>7, <1>alone, KeyLoaded DEF LoadKey, TypeInv, Procs
<1>8. ASSUME NEW s \in Shippers, LoadId(s) \/ LoadRecipients(s) \/ VaultAnswersSet(s)
      PROVE  TypeInv'
  <2>1. ship' \in [Shippers -> ShipMemory]
    BY <1>8, IdLoaded, SetLoaded, SetFetched
  <2> QED
    BY <1>8, <2>1 DEF LoadId, LoadRecipients, VaultAnswersSet, TypeInv
<1>9. ASSUME NEW s \in Shippers, Unauthorized(s) \/ RefuseSet(s) \/ EndRun(s) \/ ShipFails(s)
      PROVE  TypeInv'
  <2>1. ship' \in [Shippers -> ShipMemory]
    BY <1>9, RunEnds DEF Unauthorized, RefuseSet, EndRun, ShipFails
  <2> QED
    BY <1>9, <1>fail, <2>1 DEF Unauthorized, RefuseSet, EndRun, ShipFails, TypeInv
<1>10. ASSUME NEW s \in Shippers, Pin(s) PROVE TypeInv'
  BY <1>10, Pinned DEF Pin, TypeInv
<1>11. ASSUME NEW s \in Shippers, NEW c \in Chains, Push(s, c) \/ PushLost(s, c)
       PROVE  TypeInv'
  BY <1>11, <1>fail, Pushed DEF Push, PushLost, TypeInv
<1>12. CASE UNCHANGED vars
  BY <1>12 DEF vars, TypeInv
<1> QED
  BY <1>1, <1>2, <1>3, <1>4, <1>5, <1>6, <1>7, <1>8, <1>9, <1>10, <1>11, <1>12
     DEF Next, EnrollStep, ShipStep

LEMMA TypeHolds == Spec => []TypeInv
  BY TypeInit, TypeStep, PTL DEF Spec

-----------------------------------------------------------------------------
(* Who signed what, and what the files and the processes hold of it.       *)

Published(set) == \E i \in DOMAIN sets : set = sets[i]
Foreign(set) == \E x \in Strangers : set.by = x /\ set.admins = {x}

(* The organisation's sets: each is signed by one of its own admins, who   *)
(* was one before.                                                         *)
SetsInv ==
    \A i \in DOMAIN sets :
        /\ sets[i].version = i
        /\ sets[i].by \in sets[i].admins /\ sets[i].admins \subseteq Admins
        /\ i > 1 => sets[i].by \in sets[i - 1].admins

DiskInv ==
    /\ disk.recipients = NoSet \/ Published(disk.recipients)
    /\ disk.key # NoKey => disk.id # NoId /\ disk.recipients # NoSet

(* The token vouches for what is written; the vault's answer alone does    *)
(* not.  Each file is there before the next.                               *)
EnrollInv(e) ==
    /\ enroll[e].stage # "off" => enroll[e].token \subseteq Admins
    /\ enroll[e].stage \in {"check", "id", "recipients", "key"} => enroll[e].id # NoId
    /\ enroll[e].stage = "check" => Published(enroll[e].set) \/ Foreign(enroll[e].set)
    /\ enroll[e].stage \in {"id", "recipients", "key"} => Published(enroll[e].set)
    /\ enroll[e].stage \in InWrites => disk.id # NoId
    /\ enroll[e].stage = "key" => disk.recipients # NoSet

(* A run holds a set of the organisation's; one it fetched is as late, or  *)
(* the admins had replaced it by then, or nobody among them signed it.     *)
RunInv(s) ==
    /\ ship[s].pinned = NoSet \/ Published(ship[s].pinned)
    /\ ship[s].stage \in {"fetch", "check"} => Published(ship[s].pinned)
    /\ ship[s].stage = "check" =>
           \/ /\ Published(ship[s].fetched)
              /\ ship[s].stale \/ ship[s].pinned.version <= ship[s].fetched.version
           \/ Foreign(ship[s].fetched)
    /\ ship[s].stage \in {"id", "recipients"} => disk.id # NoId /\ disk.recipients # NoSet

VouchedInv ==
    /\ SetsInv /\ DiskInv
    /\ \A e \in Enrollers : EnrollInv(e)
    /\ \A s \in Shippers : RunInv(s)
    /\ \A c \in Chains : wraps[c] \subseteq Admins

LEMMA PublishedIs ==
    ASSUME TypeInv, SetsInv, NEW set, Published(set)
    PROVE  /\ set.by \in Admins /\ set.by \in set.admins /\ set.admins \subseteq Admins
           /\ set.version \in 1 .. Len(sets) /\ set # NoSet /\ set = sets[set.version]
<1>1. PICK i \in DOMAIN sets : set = sets[i]
  BY DEF Published
<1>2. i \in 1 .. Len(sets) /\ set.version = i
  BY <1>1 DEF TypeInv, SetsInv
<1>3. NoSet.version = 0
  BY DEF NoSet, Signed
<1> QED
  BY <1>1, <1>2, <1>3 DEF SetsInv

LEMMA ForeignIs ==
    ASSUME NEW set, Foreign(set)
    PROVE  /\ set.by \notin Admins /\ ~ (set.admins \subseteq Admins)
  BY RecipientsAssumption DEF Foreign

LEMMA HandedOut ==
    ASSUME TypeInv, SetsInv, NEW set \in HandsOut
    PROVE  \/ Published(set) /\ (Outdated(set) \/ set.version = Len(sets))
           \/ Foreign(set)
<1>1. ASSUME NEW i \in DOMAIN sets, set = sets[i]
      PROVE  Published(set) /\ (Outdated(set) \/ set.version = Len(sets))
  <2>1. /\ Len(sets) \in Nat /\ DOMAIN sets = 1 .. Len(sets) /\ Len(sets) \in 1 .. Len(sets)
        /\ set.version = i /\ Current.version = Len(sets)
    BY <1>1, CurrentType DEF TypeInv, Current, SetsInv
  <2> QED
    BY <1>1, <2>1 DEF Published, Outdated
<1>2. ASSUME NEW x \in Strangers, set = Signed(x, {x}, Len(sets) + 1) PROVE Foreign(set)
  BY <1>2 DEF Signed, Foreign
<1> QED
  BY <1>1, <1>2, CurrentType

(* What is published stays so, and only the admins publish.                *)
LEMMA SetsStay ==
    ASSUME TypeInv, [Next]_vars
    PROVE  /\ UNCHANGED sets \/ AdminStep
           /\ \A set : Published(set) => Published(set)'
<1> USE DEF vaultVars
<1>1. UNCHANGED sets \/ AdminStep
  <2>1. ASSUME NEW e \in Enrollers, EnrollStep(e) PROVE UNCHANGED sets
    BY <2>1 DEF EnrollStep, StartEnroll, VaultEnrolls, VaultRefuses, CheckFingerprint,
                WriteEnrolment, EnrollFails
  <2>2. ASSUME NEW s \in Shippers, ShipStep(s) PROVE UNCHANGED sets
    BY <2>2 DEF ShipStep, LoadKey, LoadId, LoadRecipients, VaultAnswersSet, Unauthorized,
                RefuseSet, Pin, Push, PushLost, EndRun, ShipFails
  <2>3. CASE UNCHANGED vars
    BY <2>3 DEF vars
  <2> QED
    BY <2>1, <2>2, <2>3 DEF Next
<1>2. AdminStep => \A i \in DOMAIN sets : i \in DOMAIN sets' /\ sets'[i] = sets[i]
  BY SetPublished DEF AdminStep
<1> QED
  BY <1>1, <1>2 DEF Published

LEMMA SetsStep == TypeInv /\ SetsInv /\ [Next]_vars => SetsInv'
<1> SUFFICES ASSUME TypeInv, SetsInv, [Next]_vars PROVE SetsInv'
  OBVIOUS
<1>1. CASE UNCHANGED sets
  BY <1>1 DEF SetsInv
<1>2. CASE AdminStep
  <2>1. PICK by \in Admins, a \in Admins : AddAdmin(by, a) \/ RemoveAdmin(by, a)
    BY <1>2 DEF AdminStep
  <2>2. /\ sets' \in Seq(Sets) /\ Len(sets') = Len(sets) + 1
        /\ \A i \in DOMAIN sets : sets'[i] = sets[i]
        /\ by \in Current.admins
        /\ sets'[Len(sets) + 1].by = by /\ sets'[Len(sets) + 1].version = Len(sets) + 1
        /\ by \in sets'[Len(sets) + 1].admins
        /\ sets'[Len(sets) + 1].admins \subseteq Current.admins \cup {a}
    BY <2>1, SetPublished
  <2>3. Len(sets) \in DOMAIN sets /\ DOMAIN sets = 1 .. Len(sets) /\ Len(sets) \in Nat
    BY CurrentType DEF TypeInv
  <2>4. Current.admins \subseteq Admins /\ Current = sets'[Len(sets)]
    BY <2>2, <2>3 DEF SetsInv, Current
  <2>5. ASSUME NEW i \in DOMAIN sets'
        PROVE  /\ sets'[i].version = i
               /\ sets'[i].by \in sets'[i].admins /\ sets'[i].admins \subseteq Admins
               /\ i > 1 => sets'[i].by \in sets'[i - 1].admins
    <3>1. i \in 1 .. Len(sets) + 1
      BY <2>2
    <3>2. CASE i \in DOMAIN sets
      <4>1. i > 1 => i - 1 \in DOMAIN sets
        BY <2>3, <3>2
      <4>2. sets'[i] = sets[i] /\ (i > 1 => sets'[i - 1] = sets[i - 1])
        BY <2>2, <3>2, <4>1
      <4>3. /\ sets[i].version = i
            /\ sets[i].by \in sets[i].admins /\ sets[i].admins \subseteq Admins
            /\ i > 1 => sets[i].by \in sets[i - 1].admins
        BY <3>2 DEF SetsInv
      <4> QED
        BY <4>2, <4>3
    <3>3. CASE i = Len(sets) + 1
      <4>1. i - 1 = Len(sets)
        BY <2>3, <3>3
      <4> QED
        BY <2>2, <2>4, <3>3, <4>1
    <3> QED
      BY <2>3, <3>1, <3>2, <3>3
  <2> QED
    BY <2>5 DEF SetsInv
<1> QED
  BY <1>1, <1>2, SetsStay

(* What a process holds stays so while it does not move itself.            *)
LEMMA EnrollKept ==
    ASSUME NEW e \in Enrollers, EnrollInv(e), enroll'[e] = enroll[e],
           \A set : Published(set) => Published(set)',
           disk.id # NoId => disk'.id # NoId,
           disk.recipients # NoSet => disk'.recipients # NoSet
    PROVE  EnrollInv(e)'
  BY DEF EnrollInv, Foreign

LEMMA RunKept ==
    ASSUME NEW s \in Shippers, RunInv(s), ship'[s] = ship[s],
           \A set : Published(set) => Published(set)',
           disk.id # NoId => disk'.id # NoId,
           disk.recipients # NoSet => disk'.recipients # NoSet
    PROVE  RunInv(s)'
  BY DEF RunInv, Foreign

LEMMA VouchedInit == Init => VouchedInv
<1> SUFFICES ASSUME Init PROVE VouchedInv
  OBVIOUS
<1> DEFINE first == Signed(Founder, {Founder}, 1)
<1>1. sets = <<first>>
  BY DEF Init
<1>2. first.by = Founder /\ first.admins = {Founder} /\ first.version = 1
  BY DEF Signed
<1> HIDE DEF first
<1>3. SetsInv
  <2>1. DOMAIN sets = {1} /\ sets[1] = first
    BY <1>1
  <2> QED
    BY <1>2, <2>1, RecipientsAssumption DEF SetsInv
<1>4. disk.recipients = NoSet /\ disk.key = NoKey
  BY DEF Init
<1>5. ASSUME NEW e \in Enrollers PROVE enroll[e].stage = "off"
  BY DEF Init, EnrollOff
<1>6. ASSUME NEW s \in Shippers PROVE ship[s].stage = "off" /\ ship[s].pinned = NoSet
  BY DEF Init, ShipOff
<1>7. \A c \in Chains : wraps[c] = {}
  BY DEF Init, NoChain
<1>8. DiskInv
  BY <1>4 DEF DiskInv
<1>9. \A e \in Enrollers : EnrollInv(e)
  BY <1>5 DEF EnrollInv, InWrites
<1>10. \A s \in Shippers : RunInv(s)
  BY <1>6 DEF RunInv
<1> QED
  BY <1>3, <1>7, <1>8, <1>9, <1>10 DEF VouchedInv

(* A step that changes one enrolment, and perhaps the files.               *)
LEMMA VouchedEnroll ==
    ASSUME TypeInv, VouchedInv, [Next]_vars, NEW e \in Enrollers, OthersEnroll(e),
           UNCHANGED <<ship, wraps>>, EnrollInv(e)', DiskInv',
           disk.id # NoId => disk'.id # NoId,
           disk.recipients # NoSet => disk'.recipients # NoSet
    PROVE  VouchedInv'
<1>1. SetsInv' /\ \A set : Published(set) => Published(set)'
  BY SetsStep, SetsStay DEF VouchedInv
<1>2. ASSUME NEW f \in Enrollers PROVE EnrollInv(f)'
  BY <1>1, EnrollKept DEF VouchedInv, OthersEnroll
<1>3. ASSUME NEW s \in Shippers PROVE RunInv(s)'
  BY <1>1, RunKept DEF VouchedInv
<1> QED
  BY <1>1, <1>2, <1>3 DEF VouchedInv

(* A step that changes one run, and perhaps the files and the wraps.       *)
LEMMA VouchedShip ==
    ASSUME TypeInv, VouchedInv, [Next]_vars, NEW s \in Shippers, OthersShip(s),
           UNCHANGED enroll, RunInv(s)', DiskInv', \A c \in Chains : wraps'[c] \subseteq Admins,
           disk.id # NoId => disk'.id # NoId,
           disk.recipients # NoSet => disk'.recipients # NoSet
    PROVE  VouchedInv'
<1>1. SetsInv' /\ \A set : Published(set) => Published(set)'
  BY SetsStep, SetsStay DEF VouchedInv
<1>2. ASSUME NEW e \in Enrollers PROVE EnrollInv(e)'
  BY <1>1, EnrollKept DEF VouchedInv
<1>3. ASSUME NEW t \in Shippers PROVE RunInv(t)'
  BY <1>1, RunKept DEF VouchedInv, OthersShip
<1> QED
  BY <1>1, <1>2, <1>3 DEF VouchedInv

LEMMA VouchedStep == TypeInv /\ VouchedInv /\ [Next]_vars => VouchedInv'
<1> SUFFICES ASSUME TypeInv, VouchedInv, [Next]_vars PROVE VouchedInv'
  OBVIOUS
<1> USE DEF vaultVars
<1>sets. SetsInv /\ SetsInv' /\ \A set : Published(set) => Published(set)'
  BY SetsStep, SetsStay DEF VouchedInv
<1>disk. DiskInv /\ \A c \in Chains : wraps[c] \subseteq Admins
  BY DEF VouchedInv
<1>kept. UNCHANGED disk => DiskInv'
  BY <1>sets, <1>disk DEF DiskInv
<1>1. ASSUME UNCHANGED <<disk, enroll, ship, wraps>> PROVE VouchedInv'
  <2>1. \A e \in Enrollers : EnrollInv(e)'
    BY <1>sets, <1>1, EnrollKept DEF VouchedInv
  <2>2. \A s \in Shippers : RunInv(s)'
    BY <1>sets, <1>1, RunKept DEF VouchedInv
  <2> QED
    BY <1>sets, <1>disk, <1>kept, <1>1, <2>1, <2>2 DEF VouchedInv
<1>2. AdminStep => UNCHANGED <<disk, enroll, ship, wraps>>
  BY SetPublished DEF AdminStep
<1>3. UNCHANGED vars => UNCHANGED <<disk, enroll, ship, wraps>>
  BY DEF vars
<1>4. ASSUME NEW e \in Enrollers, EnrollStep(e) PROVE VouchedInv'
  <2>inv. EnrollInv(e)
    BY DEF VouchedInv
  <2>1. ASSUME NEW rotate \in BOOLEAN, NEW i \in DOMAIN sets,
               StartEnroll(e, rotate, sets[i].admins)
        PROVE  VouchedInv'
    <3>1. sets[i].admins \subseteq Admins /\ sets[i].admins \in SUBSET Signers
      BY <1>sets DEF SetsInv, Signers
    <3>2. OthersEnroll(e) /\ enroll'[e].stage = "post" /\ enroll'[e].token = sets[i].admins
      BY <2>1, <3>1, Started
    <3>3. EnrollInv(e)'
      BY <3>1, <3>2 DEF EnrollInv, InWrites
    <3> QED
      BY <1>kept, <2>1, <3>2, <3>3, VouchedEnroll DEF StartEnroll
  <2>2. ASSUME VaultEnrolls(e) PROVE VouchedInv'
    <3>1. /\ OthersEnroll(e) /\ enroll'[e].stage = "check"
          /\ enroll'[e].token = enroll[e].token /\ enroll'[e].set \in HandsOut
          /\ enroll'[e].id # NoId
      BY <2>2, Registers DEF NoId
    <3>2. Published(enroll'[e].set) \/ Foreign(enroll'[e].set)
      BY <1>sets, <3>1, HandedOut
    <3>3. Published(enroll[e].set)' \/ Foreign(enroll[e].set)'
      BY <1>sets, <3>2, <2>2 DEF Foreign, Published, VaultEnrolls
    <3>4. enroll[e].token \subseteq Admins
      BY <2>inv, <2>2 DEF EnrollInv, VaultEnrolls
    <3>5. EnrollInv(e)'
      BY <3>1, <3>3, <3>4 DEF EnrollInv, InWrites
    <3> QED
      BY <1>kept, <2>2, <3>1, <3>5, VouchedEnroll DEF VaultEnrolls
  <2>3. ASSUME VaultRefuses(e) \/ EnrollFails(e) \/ (CheckFingerprint(e) /\ ~ FingerprintFits(e))
        PROVE  VouchedInv'
    <3>1. EndEnroll(e) /\ UNCHANGED <<disk, ship, wraps>>
      BY <2>3 DEF VaultRefuses, EnrollFails, CheckFingerprint
    <3>2. OthersEnroll(e) /\ enroll'[e].stage = "off"
      BY <3>1, EnrollEnds
    <3>3. EnrollInv(e)'
      BY <3>2 DEF EnrollInv, InWrites
    <3> QED
      BY <1>kept, <3>1, <3>2, <3>3, VouchedEnroll
  <2>4. ASSUME CheckFingerprint(e), FingerprintFits(e) PROVE VouchedInv'
    <3>1. /\ enroll[e].stage = "check" /\ enroll' = [enroll EXCEPT ![e].stage = "id"]
          /\ UNCHANGED <<disk, ship, wraps>>
      BY <2>4 DEF CheckFingerprint
    <3>2. /\ OthersEnroll(e) /\ enroll'[e].stage = "id" /\ enroll'[e].token = enroll[e].token
          /\ enroll'[e].set = enroll[e].set /\ enroll'[e].id = enroll[e].id
      BY <3>1, EnrollGoes DEF EnrollStages
    <3>3. enroll[e].set.admins \subseteq Admins
      BY <2>4, <2>inv, <3>1 DEF FingerprintFits, EnrollInv
    <3>4. Published(enroll[e].set)
      BY <2>inv, <3>1, <3>3, ForeignIs DEF EnrollInv
    <3>5. EnrollInv(e)'
      BY <1>sets, <2>inv, <3>1, <3>2, <3>4 DEF EnrollInv, InWrites
    <3> QED
      BY <1>kept, <3>1, <3>2, <3>5, VouchedEnroll
  <2>5. ASSUME WriteEnrolment(e) PROVE VouchedInv'
    <3>1. OthersEnroll(e) /\ UNCHANGED <<ship, wraps>> /\ Writing(e)
      BY <2>5, Wrote DEF WriteEnrolment
    <3>2. /\ Published(enroll[e].set) /\ enroll[e].id # NoId /\ enroll[e].token \subseteq Admins
          /\ enroll[e].set # NoSet
      BY <1>sets, <2>inv, <3>1, PublishedIs DEF EnrollInv, Writing
    <3>3. CASE enroll[e].stage = "id"
      <4>1. /\ disk'.id = enroll[e].id /\ disk'.recipients = disk.recipients
            /\ disk'.key = disk.key
            /\ enroll'[e].stage = "recipients" /\ enroll'[e].token = enroll[e].token
            /\ enroll'[e].id = enroll[e].id /\ enroll'[e].set = enroll[e].set
        BY <2>5, <3>3, Wrote
      <4>2. EnrollInv(e)' /\ DiskInv'
        BY <1>sets, <1>disk, <3>2, <4>1 DEF EnrollInv, DiskInv, InWrites
      <4> QED
        BY <3>1, <3>2, <4>1, <4>2, VouchedEnroll
    <3>4. CASE enroll[e].stage = "recipients"
      <4>1. /\ disk'.id = disk.id /\ disk'.recipients = enroll[e].set
            /\ disk'.key = disk.key
            /\ enroll'[e].stage = "key" /\ enroll'[e].token = enroll[e].token
            /\ enroll'[e].id = enroll[e].id /\ enroll'[e].set = enroll[e].set
        BY <2>5, <3>4, Wrote
      <4>2. EnrollInv(e)' /\ DiskInv'
        BY <1>sets, <1>disk, <2>inv, <3>2, <3>4, <4>1 DEF EnrollInv, DiskInv, InWrites
      <4> QED
        BY <3>1, <3>2, <4>1, <4>2, VouchedEnroll
    <3>5. CASE enroll[e].stage = "key"
      <4>1. /\ disk'.id = disk.id /\ disk'.recipients = disk.recipients
            /\ enroll'[e].stage = "off"
        BY <2>5, <3>5, Wrote
      <4>2. EnrollInv(e)' /\ DiskInv'
        BY <1>sets, <1>disk, <2>inv, <3>2, <3>5, <4>1 DEF EnrollInv, DiskInv, InWrites
      <4> QED
        BY <3>1, <4>1, <4>2, VouchedEnroll
    <3> QED
      BY <3>1, <3>3, <3>4, <3>5 DEF Writing
  <2> QED
    BY <1>4, <2>1, <2>2, <2>3, <2>4, <2>5 DEF EnrollStep
<1>5. ASSUME NEW s \in Shippers, ShipStep(s) PROVE VouchedInv'
  <2>inv. RunInv(s)
    BY DEF VouchedInv
  <2>1. ASSUME LoadKey(s) PROVE VouchedInv'
    <3>1. OthersShip(s) /\ ship'[s].stage = "id" /\ ship'[s].pinned = NoSet
      BY <2>1, KeyLoaded
    <3>2. disk.id # NoId /\ disk.recipients # NoSet /\ UNCHANGED <<disk, enroll, wraps>>
      BY <1>disk, <2>1 DEF LoadKey, DiskInv
    <3>3. RunInv(s)'
      BY <3>1, <3>2 DEF RunInv
    <3> QED
      BY <1>disk, <1>kept, <3>1, <3>2, <3>3, VouchedShip
  <2>2. ASSUME \/ LoadId(s) \/ LoadRecipients(s) \/ Unauthorized(s) \/ RefuseSet(s)
               \/ EndRun(s) \/ ShipFails(s)
        PROVE  VouchedInv'
    <3>1. UNCHANGED <<disk, enroll, wraps>>
      BY <2>2 DEF LoadId, LoadRecipients, Unauthorized, RefuseSet, EndRun, ShipFails
    <3>2. /\ OthersShip(s)
          /\ \/ ship'[s].stage = "off" /\ ship'[s].pinned = NoSet
             \/ /\ ship[s].stage = "id" /\ ship'[s].stage = "recipients"
                /\ ship'[s].pinned = ship[s].pinned
             \/ /\ ship'[s].stage = "fetch" /\ ship'[s].pinned = disk.recipients
                /\ disk.recipients # NoSet
      <4>1. CASE LoadId(s)
        BY <4>1, IdLoaded DEF LoadId
      <4>2. CASE LoadRecipients(s)
        BY <4>2, SetLoaded
      <4>3. CASE Unauthorized(s) \/ RefuseSet(s) \/ EndRun(s) \/ ShipFails(s)
        BY <4>3, RunEnds DEF Unauthorized, RefuseSet, EndRun, ShipFails
      <4> QED
        BY <2>2, <4>1, <4>2, <4>3
    <3>3. RunInv(s)'
      BY <1>sets, <1>disk, <2>inv, <3>1, <3>2 DEF RunInv, DiskInv
    <3> QED
      BY <1>disk, <1>kept, <3>1, <3>2, <3>3, VouchedShip
  <2>3. ASSUME VaultAnswersSet(s) PROVE VouchedInv'
    <3>1. /\ OthersShip(s) /\ ship'[s].stage = "check" /\ ship'[s].pinned = ship[s].pinned
          /\ ship'[s].fetched \in HandsOut
          /\ ship'[s].stale = Outdated(ship'[s].fetched)
      BY <2>3, SetFetched
    <3>2. /\ ship[s].stage = "fetch" /\ UNCHANGED <<disk, enroll, wraps, sets>>
          /\ Published(ship[s].pinned)
      BY <2>inv, <2>3 DEF VaultAnswersSet, RunInv
    <3>3. ship[s].pinned.version \in 1 .. Len(sets)
      BY <1>sets, <3>2, PublishedIs
    <3>4. \/ /\ Published(ship'[s].fetched)
             /\ \/ ship'[s].stale
                \/ ship[s].pinned.version <= ship'[s].fetched.version
          \/ Foreign(ship'[s].fetched)
      BY <1>sets, <3>1, <3>3, HandedOut
    <3>5. /\ Published(ship[s].pinned)'
          /\ Published(ship'[s].fetched) => Published(ship[s].fetched)'
          /\ Foreign(ship'[s].fetched) => Foreign(ship[s].fetched)'
      BY <3>1, <3>2 DEF Published, Foreign
    <3>6. RunInv(s)'
      BY <3>1, <3>4, <3>5 DEF RunInv
    <3> QED
      BY <1>disk, <1>kept, <3>1, <3>2, <3>6, VouchedShip
  <2>4. ASSUME Pin(s) PROVE VouchedInv'
    <3>1. /\ OthersShip(s) /\ ship'[s].stage = "push" /\ ship'[s].pinned = ship[s].fetched
          /\ disk'.recipients = ship[s].fetched /\ disk'.id = disk.id /\ disk'.key = disk.key
          /\ UNCHANGED <<enroll, wraps>>
      BY <2>4, Pinned DEF Pin
    <3>2. ship[s].stage = "check" /\ ship[s].fetched.by \in ship[s].pinned.admins
      BY <2>4 DEF Pin, VerifyAgainst
    <3>3. ship[s].pinned.admins \subseteq Admins
      BY <1>sets, <2>inv, <3>2, PublishedIs DEF RunInv
    <3>4. Published(ship[s].fetched) /\ ship[s].fetched # NoSet
      BY <1>sets, <2>inv, <3>2, <3>3, ForeignIs, PublishedIs DEF RunInv
    <3>5. Published(ship[s].pinned)' /\ Published(disk.recipients)'
      BY <1>sets, <3>1, <3>4 DEF Published
    <3>6. RunInv(s)' /\ DiskInv'
      BY <1>disk, <3>1, <3>4, <3>5 DEF RunInv, DiskInv
    <3> QED
      BY <1>disk, <3>1, <3>4, <3>6, VouchedShip
  <2>5. ASSUME NEW c \in Chains, Push(s, c) \/ PushLost(s, c) PROVE VouchedInv'
    <3>1. /\ OthersShip(s) /\ ship'[s].stage = ship[s].stage
          /\ ship'[s].pinned = ship[s].pinned
          /\ \A d \in Chains : wraps'[d] = wraps[d] \/ wraps'[d] = ship[s].pinned.admins
      BY <2>5, Pushed
    <3>2. UNCHANGED <<disk, enroll>> /\ ship[s].stage = "push"
      BY <2>5 DEF Push, PushLost
    <3>3. ship[s].pinned.admins \subseteq Admins
      BY <1>sets, <2>inv, PublishedIs DEF RunInv, NoSet, Signed
    <3>4. \A d \in Chains : wraps'[d] \subseteq Admins
      BY <1>disk, <3>1, <3>3
    <3>5. RunInv(s)'
      BY <1>sets, <2>inv, <3>1, <3>2 DEF RunInv
    <3> QED
      BY <1>kept, <3>1, <3>2, <3>4, <3>5, VouchedShip
  <2> QED
    BY <1>5, <2>1, <2>2, <2>3, <2>4, <2>5 DEF ShipStep
<1> QED
  BY <1>1, <1>2, <1>3, <1>4, <1>5 DEF Next

LEMMA VouchedHolds == Spec => [](TypeInv /\ VouchedInv)
<1>1. Init => TypeInv /\ VouchedInv
  BY TypeInit, VouchedInit
<1>2. (TypeInv /\ VouchedInv) /\ [Next]_vars => (TypeInv /\ VouchedInv)'
  BY TypeStep, VouchedStep
<1> QED
  BY <1>1, <1>2, PTL DEF Spec

(* However often the set changes and whatever the vault hands out, nothing *)
(* but an admin of the organisation is ever pinned on disk, held by a run  *)
(* or wrapped to: the fingerprint of the token (enroll) and the signer of  *)
(* each next set (verify_against) keep everyone else out.                  *)
THEOREM OnlyTheOrganisation == Spec => []OnlyVouchedAdmins
<1>1. TypeInv /\ VouchedInv => OnlyVouchedAdmins
  <2> SUFFICES ASSUME TypeInv, VouchedInv PROVE OnlyVouchedAdmins
    OBVIOUS
  <2>1. ASSUME NEW set, set = NoSet \/ Published(set) PROVE set.admins \subseteq Admins
    BY <2>1, PublishedIs DEF VouchedInv, NoSet, Signed
  <2>2. disk.recipients.admins \subseteq Admins
    BY <2>1 DEF VouchedInv, DiskInv
  <2>3. ASSUME NEW s \in Shippers PROVE ship[s].pinned.admins \subseteq Admins
    BY <2>1 DEF VouchedInv, RunInv
  <2> QED
    BY <2>2, <2>3, RecipientsAssumption DEF VouchedInv, OnlyVouchedAdmins
<1> QED
  BY <1>1, VouchedHolds, PTL

(* Wherever enrolments, first ones and rotations, are cut off or overlap,  *)
(* a machine with a key on disk has its id and its recipient set, so no    *)
(* ship run loads a half-enrolled machine.                                 *)
THEOREM NoHalfEnrolment == Spec => []EnrolmentIsWhole
<1>1. TypeInv /\ VouchedInv => EnrolmentIsWhole
  BY DEF VouchedInv, DiskInv, RunInv, EnrolmentIsWhole
<1> QED
  BY <1>1, VouchedHolds, PTL

(* A run refuses a set the organisation's own admins signed only when two  *)
(* changes were made since the set it holds, or the set is an older one:   *)
(* each set is signed by an admin of it and of the one before.             *)
THEOREM RefusedIsBehind == Spec => RefusesOnlyWhenBehind
<1>1. ASSUME TypeInv, VouchedInv, NEW s \in Shippers, RefuseSet(s),
             ship[s].fetched.by \in Admins
      PROVE  \/ ship[s].fetched.version >= ship[s].pinned.version + 2
             \/ ship[s].fetched.version < ship[s].pinned.version
  <2> DEFINE new == ship[s].fetched
             old == ship[s].pinned
  <2>1. /\ ship[s].stage = "check" /\ new.by \notin old.admins
        /\ SetsInv /\ Published(old)
        /\ Published(new) \/ Foreign(new)
    BY <1>1 DEF RefuseSet, VerifyAgainst, VouchedInv, RunInv
  <2>2. Published(new)
    BY <1>1, <2>1, ForeignIs
  <2>3. /\ new.version \in 1 .. Len(sets) /\ new = sets[new.version] /\ new.by \in new.admins
        /\ old.version \in 1 .. Len(sets) /\ old = sets[old.version]
    BY <1>1, <2>1, <2>2, PublishedIs
  <2> HIDE DEF new, old
  <2>4. Len(sets) \in Nat /\ DOMAIN sets = 1 .. Len(sets)
    BY <1>1 DEF TypeInv
  <2>5. new.version # old.version
    BY <2>1, <2>3
  <2>6. new.version # old.version + 1
    <3>1. SUFFICES ASSUME new.version = old.version + 1 PROVE FALSE
      OBVIOUS
    <3>2. new.version > 1 /\ new.version - 1 = old.version
      BY <2>3, <2>4, <3>1
    <3>3. sets[new.version].by \in sets[new.version - 1].admins
      BY <2>1, <2>3, <2>4, <3>2 DEF SetsInv
    <3> QED
      BY <2>1, <2>3, <3>2, <3>3
  <2>7. new.version >= old.version + 2 \/ new.version < old.version
    BY <2>3, <2>4, <2>5, <2>6
  <2> QED
    BY <2>7 DEF new, old
<1>2. TypeInv /\ VouchedInv /\ [Next]_vars =>
          [\A s \in Shippers :
               RefuseSet(s) /\ ship[s].fetched.by \in Admins
                   => \/ ship[s].fetched.version >= ship[s].pinned.version + 2
                      \/ ship[s].fetched.version < ship[s].pinned.version]_vars
  BY <1>1
<1> QED
  BY <1>2, VouchedHolds, PTL DEF Spec, RefusesOnlyWhenBehind

-----------------------------------------------------------------------------
(* A process that has run alone since it started.                          *)

Lone == \A p \in alone, q \in Active : q = p

(* The set on disk is the one a lone run has loaded, and no newer than the *)
(* one a lone enrolment was given, unless that was replaced by then.       *)
LoneRun(s) ==
    s \in alone /\ ship[s].stage \in {"fetch", "check"} => ship[s].pinned = disk.recipients
LoneEnroll(e) ==
    e \in alone /\ enroll[e].stage \in {"check", "id", "recipients"} =>
        \/ Foreign(enroll[e].set) \/ enroll[e].stale
        \/ disk.recipients.version <= enroll[e].set.version

AloneInv ==
    /\ Lone
    /\ \A s \in Shippers : LoneRun(s)
    /\ \A e \in Enrollers : LoneEnroll(e)

(* A step of a process starts it, or finds it started; the others stay as  *)
(* they are.                                                               *)
LEMMA EnrollMoves ==
    ASSUME TypeInv, NEW e \in Enrollers, EnrollStep(e)
    PROVE  /\ OthersEnroll(e) /\ UNCHANGED ship
           /\ Starts(e) \/ (e \in Active /\ UNCHANGED alone)
<1>1. ASSUME NEW rotate \in BOOLEAN, NEW i \in DOMAIN sets, StartEnroll(e, rotate, sets[i].admins)
      PROVE  OthersEnroll(e) /\ UNCHANGED ship /\ Starts(e)
  <2>1. sets[i] \in Sets
    BY DEF TypeInv
  <2>2. sets[i].admins \in SUBSET Signers
    BY <2>1 DEF Sets
  <2> QED
    BY <1>1, <2>2, Started DEF StartEnroll
<1>2. ASSUME VaultEnrolls(e) \/ WriteEnrolment(e)
      PROVE  OthersEnroll(e) /\ UNCHANGED <<ship, alone>> /\ e \in Active
  BY <1>2, Registers, Wrote DEF VaultEnrolls, WriteEnrolment, Writing, Active
<1>3. ASSUME VaultRefuses(e) \/ CheckFingerprint(e) \/ EnrollFails(e)
      PROVE  OthersEnroll(e) /\ UNCHANGED <<ship, alone>> /\ e \in Active
  <2>1. UNCHANGED <<ship, alone>> /\ e \in Active
    BY <1>3 DEF VaultRefuses, CheckFingerprint, EnrollFails, Active
  <2>2. EndEnroll(e) \/ enroll' = [enroll EXCEPT ![e].stage = "id"]
    BY <1>3 DEF VaultRefuses, CheckFingerprint, EnrollFails
  <2> QED
    BY <2>1, <2>2, EnrollGoes, EnrollEnds DEF EnrollStages
<1> QED
  BY <1>1, <1>2, <1>3 DEF EnrollStep

LEMMA ShipMoves ==
    ASSUME TypeInv, NEW s \in Shippers, ShipStep(s)
    PROVE  /\ OthersShip(s) /\ UNCHANGED enroll
           /\ Starts(s) \/ (s \in Active /\ UNCHANGED alone)
<1>1. CASE LoadKey(s)
  BY <1>1, KeyLoaded DEF LoadKey
<1>2. ASSUME LoadId(s) \/ LoadRecipients(s) \/ VaultAnswersSet(s) \/ Pin(s)
      PROVE  OthersShip(s) /\ UNCHANGED <<enroll, alone>> /\ s \in Active
  BY <1>2, IdLoaded, SetLoaded, SetFetched, Pinned
     DEF LoadId, LoadRecipients, VaultAnswersSet, Pin, Active
<1>3. ASSUME Unauthorized(s) \/ RefuseSet(s) \/ EndRun(s) \/ ShipFails(s)
      PROVE  OthersShip(s) /\ UNCHANGED <<enroll, alone>> /\ s \in Active
  BY <1>3, RunEnds DEF Unauthorized, RefuseSet, EndRun, ShipFails, Active
<1>4. ASSUME NEW c \in Chains, Push(s, c) \/ PushLost(s, c)
      PROVE  OthersShip(s) /\ UNCHANGED <<enroll, alone>> /\ s \in Active
  BY <1>4, Pushed DEF Push, PushLost, Active
<1> QED
  BY <1>1, <1>2, <1>3, <1>4 DEF ShipStep

(* After it, it is the only one that may be alone.                         *)
LEMMA LoneMoves ==
    ASSUME Lone, NEW p, Starts(p) \/ (p \in Active /\ UNCHANGED alone),
           Active' \subseteq Active \cup {p}
    PROVE  Lone' /\ \A q \in alone' : q = p
  BY DEF Lone, Starts

LEMMA AloneEnroll ==
    ASSUME TypeInv, Lone, NEW e \in Enrollers, EnrollStep(e)
    PROVE  Lone' /\ \A q \in alone' : q = e
<1>1. Active' \subseteq Active \cup {e}
  BY EnrollMoves DEF Active, OthersEnroll
<1> QED
  BY <1>1, EnrollMoves, LoneMoves

LEMMA AloneShip ==
    ASSUME TypeInv, Lone, NEW s \in Shippers, ShipStep(s)
    PROVE  Lone' /\ \A q \in alone' : q = s
<1>1. Active' \subseteq Active \cup {s}
  BY ShipMoves DEF Active, OthersShip
<1> QED
  BY <1>1, ShipMoves, LoneMoves

LEMMA AloneInit == Init => AloneInv
  BY DEF Init, AloneInv, Lone, LoneRun, LoneEnroll

LEMMA AloneStep == TypeInv /\ VouchedInv /\ AloneInv /\ [Next]_vars => AloneInv'
<1> SUFFICES ASSUME TypeInv, VouchedInv, AloneInv, [Next]_vars PROVE AloneInv'
  OBVIOUS
<1> USE DEF vaultVars
<1>1. ASSUME UNCHANGED <<disk, enroll, ship, alone>> PROVE AloneInv'
  BY <1>1 DEF AloneInv, Lone, LoneRun, LoneEnroll, Active, Foreign
<1>2. AdminStep => UNCHANGED <<disk, enroll, ship, alone>>
  BY SetPublished DEF AdminStep
<1>3. UNCHANGED vars => UNCHANGED <<disk, enroll, ship, alone>>
  BY DEF vars
<1>4. ASSUME NEW e \in Enrollers, EnrollStep(e) PROVE AloneInv'
  <2>1. Lone' /\ \A q \in alone' : q = e
    BY <1>4, AloneEnroll DEF AloneInv
  <2>inv. LoneEnroll(e)
    BY DEF AloneInv
  <2>2. ASSUME NEW rotate \in BOOLEAN, NEW i \in DOMAIN sets,
               StartEnroll(e, rotate, sets[i].admins)
        PROVE  LoneEnroll(e)'
    <3>1. sets[i] \in Sets
      BY DEF TypeInv
    <3>2. sets[i].admins \in SUBSET Signers
      BY <3>1 DEF Sets
    <3> QED
      BY <2>2, <3>2, Started DEF LoneEnroll
  <2>3. ASSUME VaultEnrolls(e) PROVE LoneEnroll(e)'
    <3>1. /\ enroll'[e].set \in HandsOut /\ disk' = disk
          /\ enroll'[e].stale = Outdated(enroll'[e].set)
      BY <2>3, Registers DEF VaultEnrolls
    <3>2. \/ Foreign(enroll'[e].set) \/ enroll'[e].stale
          \/ enroll'[e].set.version = Len(sets)
      BY <3>1, HandedOut DEF VouchedInv
    <3>3. disk.recipients.version <= Len(sets)
      <4>1. CASE disk.recipients = NoSet
        BY <4>1, CurrentType DEF NoSet, Signed
      <4>2. CASE Published(disk.recipients)
        BY <4>2, CurrentType, PublishedIs DEF VouchedInv
      <4> QED
        BY <4>1, <4>2 DEF VouchedInv, DiskInv
    <3> QED
      BY <3>1, <3>2, <3>3 DEF LoneEnroll, Foreign
  <2>4. ASSUME EndEnroll(e) PROVE LoneEnroll(e)'
    BY <2>4, EnrollEnds DEF LoneEnroll
  <2>5. ASSUME CheckFingerprint(e), FingerprintFits(e) PROVE LoneEnroll(e)'
    <3>1. /\ enroll[e].stage = "check" /\ enroll' = [enroll EXCEPT ![e].stage = "id"]
          /\ UNCHANGED <<disk, alone>>
      BY <2>5 DEF CheckFingerprint
    <3>2. enroll'[e].set = enroll[e].set /\ enroll'[e].stale = enroll[e].stale
      BY <3>1, EnrollGoes DEF EnrollStages
    <3> QED
      BY <2>inv, <3>1, <3>2 DEF LoneEnroll, Foreign
  <2>6. ASSUME WriteEnrolment(e) PROVE LoneEnroll(e)'
    <3>1. alone' = alone
      BY <2>6 DEF WriteEnrolment
    <3>2. \/ /\ enroll[e].stage = "id" /\ enroll'[e].set = enroll[e].set
             /\ enroll'[e].stale = enroll[e].stale
             /\ disk'.recipients = disk.recipients
          \/ enroll'[e].stage \in {"key", "off"}
      BY <2>6, Wrote
    <3> QED
      BY <2>inv, <3>1, <3>2 DEF LoneEnroll, Foreign
  <2>7. LoneEnroll(e)'
    BY <1>4, <2>2, <2>3, <2>4, <2>5, <2>6
       DEF EnrollStep, VaultRefuses, EnrollFails, CheckFingerprint
  <2>8. ASSUME NEW f \in Enrollers PROVE LoneEnroll(f)'
    BY <2>1, <2>7 DEF LoneEnroll
  <2>9. ASSUME NEW s \in Shippers PROVE LoneRun(s)'
    BY <2>1, RecipientsAssumption DEF LoneRun
  <2> QED
    BY <2>1, <2>8, <2>9 DEF AloneInv
<1>5. ASSUME NEW s \in Shippers, ShipStep(s) PROVE AloneInv'
  <2>1. Lone' /\ \A q \in alone' : q = s
    BY <1>5, AloneShip DEF AloneInv
  <2>2. ASSUME NEW c \in Chains, Push(s, c) \/ PushLost(s, c) PROVE LoneRun(s)'
    BY <2>2, Pushed DEF LoneRun, Push, PushLost
  <2>3. LoneRun(s)'
    <3>1. ASSUME \/ LoadKey(s) \/ LoadId(s) \/ LoadRecipients(s) \/ VaultAnswersSet(s)
                 \/ Unauthorized(s) \/ RefuseSet(s) \/ EndRun(s) \/ ShipFails(s) \/ Pin(s)
          PROVE  LoneRun(s)'
      <4>1. CASE LoadKey(s)
        BY <4>1, KeyLoaded DEF LoneRun
      <4>2. CASE LoadId(s)
        BY <4>2, IdLoaded DEF LoneRun
      <4>3. CASE LoadRecipients(s)
        BY <4>3, SetLoaded DEF LoneRun, LoadRecipients
      <4>4. CASE VaultAnswersSet(s)
        BY <4>4, SetFetched DEF AloneInv, LoneRun, VaultAnswersSet
      <4>5. CASE Unauthorized(s) \/ RefuseSet(s) \/ EndRun(s) \/ ShipFails(s)
        BY <4>5, RunEnds DEF LoneRun, Unauthorized, RefuseSet, EndRun, ShipFails
      <4>6. CASE Pin(s)
        BY <4>6, Pinned DEF LoneRun
      <4> QED
        BY <3>1, <4>1, <4>2, <4>3, <4>4, <4>5, <4>6
    <3> QED
      BY <1>5, <2>2, <3>1 DEF ShipStep
  <2>4. ASSUME NEW t \in Shippers PROVE LoneRun(t)'
    BY <2>1, <2>3 DEF LoneRun
  <2>5. ASSUME NEW e \in Enrollers PROVE LoneEnroll(e)'
    BY <2>1, RecipientsAssumption DEF LoneEnroll
  <2> QED
    BY <2>1, <2>4, <2>5 DEF AloneInv
<1> QED
  BY <1>1, <1>2, <1>3, <1>4, <1>5 DEF Next

LEMMA AloneHolds == Spec => [](TypeInv /\ VouchedInv /\ AloneInv)
<1>1. Init => TypeInv /\ VouchedInv /\ AloneInv
  BY TypeInit, VouchedInit, AloneInit
<1>2. (TypeInv /\ VouchedInv /\ AloneInv) /\ [Next]_vars
          => (TypeInv /\ VouchedInv /\ AloneInv)'
  BY TypeStep, VouchedStep, AloneStep
<1> QED
  BY <1>1, <1>2, PTL DEF Spec

(* The set on disk goes back to an older version only in a step of a run   *)
(* or of an enrolment that overlapped with another, or that the vault      *)
(* handed a set the admins had replaced: one that runs alone holds the set *)
(* that is on disk, and is handed the current one or shows it was not.     *)
THEOREM BackHasCause == Spec => SetGoesBackHasCause
<1>1. ASSUME TypeInv, VouchedInv, AloneInv, [Next]_vars,
             disk'.recipients.version < disk.recipients.version
      PROVE  \E p \in Active : p \notin alone \/ GivenStale(p)
  <2> USE DEF vaultVars
  <2>type. disk.recipients \in Sets /\ disk.recipients.version \in Nat
    BY <1>1 DEF TypeInv, Directory, Sets
  <2>same. disk'.recipients # disk.recipients
    BY <1>1, <2>type
  <2>1. ASSUME NEW e \in Enrollers, EnrollStep(e)
        PROVE  \E p \in Active : p \notin alone \/ GivenStale(p)
    <3>1. WriteEnrolment(e)
      BY <2>1, <2>same DEF EnrollStep, StartEnroll, VaultEnrolls, VaultRefuses,
                           CheckFingerprint, EnrollFails
    <3>2. enroll[e].stage = "recipients" /\ disk'.recipients = enroll[e].set
      BY <1>1, <2>same, <3>1, Wrote
    <3>3. Published(enroll[e].set) /\ SetsInv
      BY <1>1, <3>2 DEF VouchedInv, EnrollInv
    <3>4. ~ Foreign(enroll[e].set) /\ enroll[e].set.version \in Nat
      <4>1. enroll[e].set \in Sets
        BY <1>1 DEF TypeInv, EnrollMemory
      <4> QED
        BY <1>1, <3>3, <4>1, PublishedIs, ForeignIs DEF Sets
    <3>5. e \notin alone \/ GivenStale(e)
      BY <1>1, <2>type, <3>2, <3>4 DEF AloneInv, LoneEnroll, GivenStale
    <3> QED
      BY <3>2, <3>5 DEF Active
  <2>2. ASSUME NEW s \in Shippers, ShipStep(s)
        PROVE  \E p \in Active : p \notin alone \/ GivenStale(p)
    <3>1. Pin(s)
      BY <2>2, <2>same DEF ShipStep, LoadKey, LoadId, LoadRecipients, VaultAnswersSet,
                           Unauthorized, RefuseSet, Push, PushLost, EndRun, ShipFails
    <3>2. /\ ship[s].stage = "check" /\ disk'.recipients = ship[s].fetched
          /\ ship[s].fetched.by \in ship[s].pinned.admins
      BY <1>1, <3>1, Pinned DEF Pin, VerifyAgainst
    <3>3. RunInv(s) /\ SetsInv
      BY <1>1 DEF VouchedInv
    <3>4. ship[s].pinned.admins \subseteq Admins
      BY <1>1, <3>2, <3>3, PublishedIs DEF RunInv
    <3>5. ship[s].stale \/ ship[s].pinned.version <= ship[s].fetched.version
      BY <3>2, <3>3, <3>4, ForeignIs DEF RunInv
    <3>6. ship[s].fetched.version \in Nat
      <4>1. ship[s].fetched \in Sets
        BY <1>1 DEF TypeInv, ShipMemory
      <4> QED
        BY <4>1 DEF Sets
    <3>7. s \notin alone \/ GivenStale(s)
      BY <1>1, <2>type, <3>2, <3>5, <3>6 DEF AloneInv, LoneRun, GivenStale
    <3> QED
      BY <3>2, <3>7 DEF Active
  <2>3. AdminStep => UNCHANGED disk
    BY <1>1, SetPublished DEF AdminStep
  <2>4. UNCHANGED vars => UNCHANGED disk
    BY DEF vars
  <2> QED
    BY <1>1, <2>same, <2>1, <2>2, <2>3, <2>4 DEF Next
<1>2. (TypeInv /\ VouchedInv /\ AloneInv) /\ [Next]_vars =>
          [disk'.recipients.version < disk.recipients.version =>
               \E p \in Active : p \notin alone \/ GivenStale(p)]_vars
  BY <1>1
<1> QED
  BY <1>2, AloneHolds, PTL DEF Spec, SetGoesBackHasCause

-----------------------------------------------------------------------------
(* Which pairs of key and id the vault has.                                *)

(* What the vault answered an enrolment, which writes its id first.        *)
Fits(e) ==
    /\ Registered(enroll[e].id, enroll[e].key)
    /\ enroll[e].stage \in InWrites => disk.id = enroll[e].id

(* No enrolment has put the pair on disk out of date: one that has         *)
(* registered has written nothing yet, under an id of its own.             *)
OldPairStands ==
    \A e \in Enrollers : Registering(e) =>
        enroll[e].stage \in {"check", "id"} /\ enroll[e].id # disk.id

(* Unless one was cut off or ran into another, there is one at a time; it  *)
(* fits, as does one that runs alone; and the pair on disk is good until   *)
(* it is overtaken.                                                        *)
PairInv ==
    /\ ~ mixed => \A e, f \in Enrollers : Registering(e) /\ Registering(f) => e = f
    /\ \A e \in Enrollers : Registering(e) /\ (~ mixed \/ e \in alone) => Fits(e)
    /\ ~ mixed /\ disk.key # NoKey /\ OldPairStands => Registered(disk.id, disk.key)

(* What a step of one enrolment must show.                                 *)
LEMMA OthersRegister ==
    ASSUME NEW e \in Enrollers, OthersEnroll(e)
    PROVE  /\ \A f \in Enrollers \ {e} : Registering(f)' = Registering(f)
           /\ ~ Registering(e)' /\ disk'.id = disk.id =>
                  (OldPairStands' <=>
                      \A f \in Enrollers \ {e} : Registering(f) =>
                          enroll[f].stage \in {"check", "id"} /\ enroll[f].id # disk.id)
  BY DEF OthersEnroll, Registering, OldPairStands

LEMMA RegisteringIsActive == \A e \in Enrollers : Registering(e) => e \in Active
  BY DEF Registering, Active, InWrites

LEMMA PairInit == Init => PairInv
<1> SUFFICES ASSUME Init PROVE PairInv
  OBVIOUS
<1>1. \A e \in Enrollers : ~ Registering(e)
  BY DEF Init, EnrollOff, Registering, InWrites
<1>2. disk.key = NoKey
  BY DEF Init
<1> QED
  BY <1>1, <1>2 DEF PairInv

LEMMA PairStep == TypeInv /\ AloneInv /\ PairInv /\ [Next]_vars => PairInv'
<1> SUFFICES ASSUME TypeInv, AloneInv, PairInv, [Next]_vars PROVE PairInv'
  OBVIOUS
<1> USE DEF vaultVars
<1>lone. Lone /\ (Lone => \A p \in alone, q \in Active : q = p)
  BY DEF AloneInv, Lone
<1>type. /\ mixed \in BOOLEAN /\ machines \in Seq(Nat) /\ DOMAIN machines = 1 .. Len(machines)
         /\ \A e \in Enrollers : enroll[e].key \in Nat
  BY DEF TypeInv, EnrollMemory
<1>1. ASSUME UNCHANGED <<enroll, machines, mixed>>, disk'.id = disk.id, disk'.key = disk.key,
             \A e \in Enrollers : e \in alone' => e \in alone
      PROVE  PairInv'
  BY <1>1 DEF PairInv, OldPairStands, Registering, Fits, Registered
<1>2. CASE AdminStep
  <2>1. UNCHANGED <<disk, enroll, machines, mixed, alone>>
    BY <1>2, SetPublished DEF AdminStep
  <2> QED
    BY <1>1, <2>1
<1>3. CASE UNCHANGED vars
  <2>1. UNCHANGED <<disk, enroll, machines, mixed, alone>>
    BY <1>3 DEF vars
  <2> QED
    BY <1>1, <2>1
<1>4. ASSUME NEW s \in Shippers, ShipStep(s) PROVE PairInv'
  <2>1. UNCHANGED <<enroll, machines, mixed>> /\ disk'.id = disk.id /\ disk'.key = disk.key
    <3>1. UNCHANGED <<enroll, machines, mixed>>
      BY <1>4 DEF ShipStep, LoadKey, LoadId, LoadRecipients, VaultAnswersSet, Unauthorized,
                  RefuseSet, Pin, Push, PushLost, EndRun, ShipFails
    <3>2. UNCHANGED disk \/ Pin(s)
      BY <1>4 DEF ShipStep, LoadKey, LoadId, LoadRecipients, VaultAnswersSet, Unauthorized,
                  RefuseSet, Push, PushLost, EndRun, ShipFails
    <3> QED
      BY <3>1, <3>2, Pinned
  <2>2. \A e \in Enrollers : e \notin alone'
    BY <1>4, <1>lone, AloneShip, RecipientsAssumption
  <2> QED
    BY <1>1, <2>1, <2>2
<1>5. ASSUME NEW e \in Enrollers, EnrollStep(e) PROVE PairInv'
  <2>others. /\ OthersEnroll(e)
             /\ \A f \in Enrollers \ {e} : Registering(f)' = Registering(f)
    BY <1>5, EnrollMoves, OthersRegister
  <2>alone. \A f \in Enrollers : f \in alone' => f = e
    BY <1>5, <1>lone, AloneEnroll
  <2>1. ASSUME NEW rotate \in BOOLEAN, NEW i \in DOMAIN sets,
               StartEnroll(e, rotate, sets[i].admins)
        PROVE  PairInv'
    <3>1. enroll[e].stage = "off" /\ UNCHANGED <<disk, machines, mixed>>
      BY <2>1 DEF StartEnroll
    <3>2. enroll'[e].stage = "post"
      <4>1. sets[i] \in Sets
        BY DEF TypeInv
      <4>2. sets[i].admins \in SUBSET Signers
        BY <4>1 DEF Sets
      <4> QED
        BY <2>1, <4>2, Started
    <3>3. ~ Registering(e) /\ ~ Registering(e)'
      BY <3>1, <3>2 DEF Registering, InWrites
    <3> QED
      BY <2>others, <2>alone, <3>1, <3>3
         DEF PairInv, OldPairStands, Fits, Registered, OthersEnroll
  <2>2. ASSUME VaultEnrolls(e) PROVE PairInv'
    <3>1. /\ enroll'[e].stage = "check" /\ enroll'[e].id = Len(machines')
          /\ enroll'[e].key = enroll[e].key /\ machines' \in Seq(Nat)
          /\ Len(machines') \in Nat \ {0}
      BY <2>2, Registers
    <3>2. /\ enroll[e].stage = "post" /\ UNCHANGED <<disk, alone>> /\ Register(e)
          /\ mixed' = (mixed \/ \E f \in Enrollers \ {e} : Registering(f))
      BY <2>2 DEF VaultEnrolls
    <3>3. ~ Registering(e) /\ Registering(e)'
      BY <3>1, <3>2 DEF Registering, InWrites
    <3>4. machines'[Len(machines')] = enroll[e].key
      BY <1>type, <3>2 DEF Register
    <3>5. \A i \in 1 .. Len(machines) : i # Len(machines') =>
              i \in 1 .. Len(machines') /\ machines'[i] = machines[i]
      BY <1>type, <3>2 DEF Register
    <3>6. Fits(e)'
      BY <3>1, <3>4 DEF Fits, Registered, InWrites
    <3>7. ASSUME NEW f \in Enrollers, Registering(f)', ~ mixed' \/ f \in alone' PROVE f = e
      BY <1>type, <2>others, <2>alone, <3>2, <3>7
    <3>8. ~ mixed' => ~ mixed /\ \A f \in Enrollers : ~ Registering(f)
      BY <1>type, <3>2, <3>3
    <3>9. ASSUME ~ mixed', disk'.key # NoKey, OldPairStands' PROVE Registered(disk.id, disk.key)'
      <4>1. Registered(disk.id, disk.key)
        BY <3>2, <3>8, <3>9 DEF PairInv, OldPairStands
      <4>2. disk.id # Len(machines')
        BY <3>1, <3>2, <3>3, <3>9 DEF OldPairStands
      <4> QED
        BY <1>type, <3>1, <3>2, <3>5, <4>1, <4>2 DEF Registered
    <3> QED
      BY <3>6, <3>7, <3>9 DEF PairInv
  <2>3. ASSUME \/ VaultRefuses(e)
               \/ EnrollFails(e) \/ (CheckFingerprint(e) /\ ~ FingerprintFits(e))
        PROVE  PairInv'
    <3>1. EndEnroll(e) /\ UNCHANGED <<disk, machines, alone>>
      BY <2>3 DEF VaultRefuses, EnrollFails, CheckFingerprint
    <3>2. ~ Registering(e)'
      BY <3>1, EnrollEnds DEF Registering, InWrites
    <3>3. /\ ~ mixed' => ~ mixed
          /\ ~ mixed' /\ Registering(e) =>
                 enroll[e].stage \in {"check", "id"} /\ enroll[e].id # disk.id
      <4>1. CutOff(e) \/ (UNCHANGED mixed /\ enroll[e].stage = "post")
        BY <2>3 DEF VaultRefuses, EnrollFails, CheckFingerprint
      <4>2. enroll[e].stage = "post" => ~ Registering(e)
        BY DEF Registering, InWrites
      <4> QED
        BY <1>type, <4>1, <4>2 DEF CutOff, Registering
    <3>4. ~ mixed' /\ OldPairStands' => OldPairStands
      BY <2>others, <3>1, <3>3 DEF OldPairStands, OthersEnroll
    <3> QED
      BY <2>others, <3>1, <3>2, <3>3, <3>4 DEF PairInv, Fits, Registered, OthersEnroll
  <2>4. ASSUME CheckFingerprint(e), FingerprintFits(e) PROVE PairInv'
    <3>1. /\ enroll[e].stage = "check" /\ enroll' = [enroll EXCEPT ![e].stage = "id"]
          /\ UNCHANGED <<disk, machines, mixed, alone>>
      BY <2>4 DEF CheckFingerprint
    <3>2. enroll'[e].stage = "id" /\ enroll'[e].id = enroll[e].id /\ enroll'[e].key = enroll[e].key
      BY <3>1, EnrollGoes DEF EnrollStages
    <3>3. Registering(e) /\ Registering(e)' /\ (Fits(e) => Fits(e)')
      BY <3>1, <3>2 DEF Registering, Fits, Registered, InWrites
    <3>4. OldPairStands' => OldPairStands
      BY <2>others, <3>1, <3>2, <3>3 DEF OldPairStands, OthersEnroll
    <3> QED
      BY <2>others, <3>1, <3>3, <3>4 DEF PairInv, Fits, Registered, OthersEnroll
  <2>5. ASSUME WriteEnrolment(e) PROVE PairInv'
    <3>1. Registering(e) /\ e \in Active /\ UNCHANGED <<machines, alone>>
      BY <2>5 DEF WriteEnrolment, Writing, Registering, InWrites, Active
    <3>2. ASSUME NEW f \in Enrollers, Registering(f), ~ mixed \/ f \in alone \/ e \in alone
          PROVE  f = e
      BY <1>lone, <3>1, <3>2, RegisteringIsActive DEF PairInv
    <3>3. CASE enroll[e].stage \in {"id", "recipients"}
      <4>1. /\ enroll'[e].stage \in InWrites /\ UNCHANGED mixed
            /\ enroll'[e].id = enroll[e].id /\ enroll'[e].key = enroll[e].key
            /\ \/ disk'.id = enroll[e].id
               \/ disk'.id = disk.id /\ enroll[e].stage \in InWrites
        BY <2>5, <3>3, Wrote DEF InWrites
      <4>2. Registering(e)' /\ (Fits(e) => Fits(e)')
        BY <3>1, <4>1 DEF Registering, Fits, Registered
      <4>3. ~ OldPairStands'
        BY <4>1, <4>2 DEF OldPairStands, InWrites
      <4>4. ASSUME NEW f \in Enrollers, Registering(f)', ~ mixed' \/ f \in alone'
            PROVE  f = e /\ Fits(f)'
        <5>1. f = e
          BY <2>others, <3>1, <3>2, <4>1, <4>4
        <5> QED
          BY <3>1, <4>1, <4>2, <4>4, <5>1 DEF PairInv
      <4> QED
        BY <4>3, <4>4 DEF PairInv
    <3>4. CASE enroll[e].stage = "key"
      <4>1. /\ enroll'[e].stage = "off" /\ disk'.id = disk.id /\ disk'.key = enroll[e].key
            /\ mixed' = (mixed /\ e \notin alone)
        BY <2>5, <3>4, Wrote
      <4>2. ~ Registering(e)'
        BY <4>1 DEF Registering, InWrites
      <4>3. ~ mixed' => ~ mixed \/ e \in alone
        BY <1>type, <4>1
      <4>4. ASSUME NEW f \in Enrollers, Registering(f)' PROVE mixed' /\ f \notin alone'
        BY <2>others, <2>alone, <3>1, <3>2, <4>2, <4>3, <4>4
      <4>5. ~ mixed' => Registered(disk.id, disk.key)'
        <5>1. ~ mixed' => Fits(e) /\ disk.id = enroll[e].id
          BY <3>1, <3>4, <4>3 DEF PairInv, Fits, InWrites
        <5> QED
          BY <3>1, <4>1, <5>1 DEF Fits, Registered
      <4> QED
        BY <4>4, <4>5 DEF PairInv
    <3> QED
      BY <2>5, <3>3, <3>4 DEF WriteEnrolment, Writing
  <2> QED
    BY <1>5, <2>1, <2>2, <2>3, <2>4, <2>5 DEF EnrollStep
<1> QED
  BY <1>2, <1>3, <1>4, <1>5 DEF Next

(* The key and the id on disk are a pair the vault knows, with any number  *)
(* of enrolments and rotations cut off anywhere, except where one was cut  *)
(* off between the vault's answer and its last write or ran into another   *)
(* (src/src/ship.rs writes machine.id, recipients and machine.key one      *)
(* after another); and one that then runs alone to its end mends it.       *)
THEOREM PairIsKnown == Spec => []KeyFitsIdUnlessCutOff
<1>1. Init => TypeInv /\ VouchedInv /\ AloneInv /\ PairInv
  BY TypeInit, VouchedInit, AloneInit, PairInit
<1>2. (TypeInv /\ VouchedInv /\ AloneInv /\ PairInv) /\ [Next]_vars
          => (TypeInv /\ VouchedInv /\ AloneInv /\ PairInv)'
  BY TypeStep, VouchedStep, AloneStep, PairStep
<1>3. PairInv => KeyFitsIdUnlessCutOff
  BY DEF PairInv, OldPairStands, KeyFitsIdUnlessCutOff, Rotating
<1> QED
  BY <1>1, <1>2, <1>3, PTL DEF Spec
=============================================================================
