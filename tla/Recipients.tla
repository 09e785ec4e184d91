----------------------------- MODULE Recipients -----------------------------
(***************************************************************************)
(* The directory `$XDG_STATE_HOME/nd7/vault` of one machine                *)
(* (src/src/ship.rs) and who touches it: `nd7 enroll`, which gets a        *)
(* machine id and the first recipient set and writes one file after        *)
(* another; `nd7 ship`, which reads them one after another, asks for the   *)
(* current set, pins it when an admin it had pinned signed it              *)
(* (src/src/vault/crypto.rs), and wraps the key of every new chain to it;  *)
(* and the admins, who change the set meanwhile.                           *)
(*                                                                         *)
(* A signature is who made it: nobody else can, and a set's fingerprint    *)
(* is its admins.  There is one vault, so `server` never differs, and one  *)
(* write is one rename (RunSession has the steps of write_atomic).  What a *)
(* run does with a chain after its first batch is module Ship.             *)
(***************************************************************************)
EXTENDS Naturals, Sequences, FiniteSets

CONSTANTS
    Admins,     \* people of the organisation who are or may become admins
    Founder,    \* the admin who made the first set
    Strangers,  \* signers the organisation never trusted
    Enrollers,  \* nd7 enroll processes
    Shippers,   \* nd7 ship processes, one shot after another or `--every`
    Chains,     \* chains with something to ship
    MaxKeys,    \* bound: machine keys generated
    MaxChanges, \* bound: changes of the admin set
    MaxFailures,\* bound: requests lost and processes killed
    MaxAtOnce   \* bound: processes at the same time

ASSUME RecipientsAssumption ==
    /\ Founder \in Admins /\ Admins \cap Strangers = {}
    /\ Enrollers \cap Shippers = {}
    /\ MaxKeys \in Nat /\ MaxChanges \in Nat /\ MaxFailures \in Nat /\ MaxAtOnce \in Nat

Signed(by, admins, version) == [by |-> by, admins |-> admins, version |-> version]
NoSet == Signed(Founder, {}, 0)
NoId == 0
NoKey == 0

Procs == Enrollers \cup Shippers

VARIABLES
    (* The directory. *)
    disk,      \* machine.id, recipients and machine.key
    (* Processes. *)
    enroll,    \* what each nd7 enroll holds in memory
    ship,      \* what each nd7 ship holds in memory
    shipped,   \* chains with a `shipped` file
    (* The vault and the admins. *)
    sets,      \* every set the admins have signed; the last is current
    machines,  \* machines[id]: the public key registered under an id
    wraps,     \* wraps[c]: the admins a stored chain's key is wrapped to
    (* History. *)
    alone,     \* the process that has run alone since it started
    mixed,     \* an enrolment was cut off, or ran into another
    keys, failures

vaultVars == <<sets, machines, wraps>>
vars == <<disk, enroll, ship, shipped, vaultVars, alone, mixed, keys, failures>>

NoChain == {}
EnrollOff == [stage |-> "off", rotate |-> FALSE, token |-> {}, key |-> NoKey, id |-> NoId,
              set |-> NoSet, stale |-> FALSE]
ShipOff == [stage |-> "off", key |-> NoKey, id |-> NoId, pinned |-> NoSet,
            fetched |-> NoSet, stale |-> FALSE, todo |-> {}, ended |-> "done"]

Init ==
    /\ disk = [id |-> NoId, recipients |-> NoSet, key |-> NoKey]
    /\ enroll = [e \in Enrollers |-> EnrollOff]
    /\ ship = [s \in Shippers |-> ShipOff]
    /\ shipped = {}
    /\ sets = <<Signed(Founder, {Founder}, 1)>>
    /\ machines = <<>>
    /\ wraps = [c \in Chains |-> NoChain]
    /\ alone = {} /\ mixed = FALSE /\ keys = 0 /\ failures = 0

Current == sets[Len(sets)]
Registered(id, key) == id \in DOMAIN machines /\ machines[id] = key

(* What the vault may answer for the set, which nobody trusts it in: any   *)
(* set the admins ever signed, or one of its own making.                   *)
Substitutes == {Signed(x, {x}, Len(sets) + 1) : x \in Strangers}
HandsOut == {sets[i] : i \in DOMAIN sets} \cup Substitutes
Outdated(set) == set.version < Current.version

Active == {e \in Enrollers : enroll[e].stage # "off"}
              \cup {s \in Shippers : ship[s].stage # "off"}
Starts(p) == Cardinality(Active) < MaxAtOnce /\ alone' = IF Active = {} THEN {p} ELSE {}

-----------------------------------------------------------------------------
(* The admins: the nd7-vault command line.                                 *)

Publish(by, admins) ==
    /\ Len(sets) <= MaxChanges
    /\ sets' = Append(sets, Signed(by, admins, Len(sets) + 1))
    /\ UNCHANGED <<disk, enroll, ship, shipped, machines, wraps, alone, mixed,
                   keys, failures>>

AddAdmin(by, a) ==
    /\ by \in Current.admins /\ a \notin Current.admins
    /\ Publish(by, Current.admins \cup {a})

RemoveAdmin(by, a) ==
    /\ by \in Current.admins /\ a \in Current.admins \ {by}
    /\ Publish(by, Current.admins \ {a})

-----------------------------------------------------------------------------
(* nd7 enroll.                                                             *)

Fail == failures < MaxFailures /\ failures' = failures + 1

(* With a token for one of the sets there have been.  A machine that has a *)
(* key needs --rotate.                                                     *)
Allowed(rotate) == disk.key = NoKey \/ rotate

StartEnroll(e, rotate, token) ==
    /\ enroll[e].stage = "off" /\ Allowed(rotate) /\ keys < MaxKeys
    /\ keys' = keys + 1
    /\ enroll' = [enroll EXCEPT ![e].stage = "post", ![e].rotate = rotate,
                                ![e].token = token, ![e].key = keys']
    /\ Starts(e)
    /\ UNCHANGED <<disk, ship, shipped, vaultVars, mixed, failures>>

EndEnroll(e) == enroll' = [enroll EXCEPT ![e] = EnrollOff]

(* The vault has its key, the disk not yet.                                *)
InWrites == {"recipients", "key"}
Registering(e) == enroll[e].stage \in {"check", "id"} \cup InWrites

(* With --rotate the vault may keep the id of the host and retire its key  *)
(* (wire.rs); or it names every machine anew (the vault of tests/ship.rs). *)
Register(e) ==
    \/ machines' = Append(machines, enroll[e].key)
    \/ /\ enroll[e].rotate /\ machines # <<>>
       /\ machines' = [machines EXCEPT ![Len(machines)] = enroll[e].key]

VaultEnrolls(e) ==
    /\ enroll[e].stage = "post"
    /\ Register(e)
    /\ \E set \in HandsOut :
           enroll' = [enroll EXCEPT ![e].stage = "check", ![e].id = Len(machines'),
                                    ![e].set = set, ![e].stale = Outdated(set),
                                    ![e].rotate = FALSE]
    /\ mixed' = (mixed \/ \E f \in Enrollers \ {e} : Registering(f))
    /\ UNCHANGED <<disk, ship, shipped, sets, wraps, alone, keys, failures>>

(* 409: a host it knows, and no --rotate.                                  *)
VaultRefuses(e) ==
    /\ enroll[e].stage = "post" /\ ~ enroll[e].rotate /\ machines # <<>>
    /\ EndEnroll(e)
    /\ UNCHANGED <<disk, ship, shipped, vaultVars, alone, mixed, keys, failures>>

FingerprintFits(e) == enroll[e].set.admins = enroll[e].token

(* What an enrolment that ends here leaves of the key that was on disk.    *)
CutOff(e) ==
    mixed' = (mixed \/ enroll[e].stage \in InWrites
                    \/ (Registering(e) /\ enroll[e].id = disk.id))

CheckFingerprint(e) ==
    /\ enroll[e].stage = "check"
    /\ IF FingerprintFits(e)
       THEN enroll' = [enroll EXCEPT ![e].stage = "id"] /\ UNCHANGED mixed
       ELSE EndEnroll(e) /\ CutOff(e)
    /\ UNCHANGED <<disk, ship, shipped, vaultVars, alone, keys, failures>>

Writing(e) == enroll[e].stage \in {"id", "recipients", "key"}

(* Slip: the key goes first.                                               *)
KeyFirst(e, stage) ==
    CASE stage = "id" -> [disk EXCEPT !.key = enroll[e].key]
      [] stage = "recipients" -> [disk EXCEPT !.recipients = enroll[e].set]
      [] stage = "key" -> [disk EXCEPT !.id = enroll[e].id]
(* Slip: a machine that has an id keeps it.                                *)
IdOnce(e, stage) ==
    CASE stage = "id" -> [disk EXCEPT !.id = IF @ = NoId THEN enroll[e].id ELSE @]
      [] stage = "recipients" -> [disk EXCEPT !.recipients = enroll[e].set]
      [] stage = "key" -> [disk EXCEPT !.key = enroll[e].key]
(* machine.id, recipients, machine.key, in this order.                     *)
Written(e, stage) ==
    CASE stage = "id" -> [disk EXCEPT !.id = enroll[e].id]
      [] stage = "recipients" -> [disk EXCEPT !.recipients = enroll[e].set]
      [] stage = "key" -> [disk EXCEPT !.key = enroll[e].key]

WriteEnrolment(e) ==
    /\ Writing(e)
    /\ disk' = Written(e, enroll[e].stage)
    /\ CASE enroll[e].stage = "id" ->
                /\ enroll' = [enroll EXCEPT ![e].stage = "recipients"]
                /\ UNCHANGED mixed
         [] enroll[e].stage = "recipients" ->
                /\ enroll' = [enroll EXCEPT ![e].stage = "key"]
                /\ UNCHANGED mixed
         [] enroll[e].stage = "key" ->
                /\ EndEnroll(e)
                /\ mixed' = (mixed /\ e \notin alone)
    /\ UNCHANGED <<ship, shipped, vaultVars, alone, keys, failures>>

(* Killed, timed out, refused by the vault or out of disk.                 *)
EnrollFails(e) ==
    /\ enroll[e].stage # "off" /\ Fail
    /\ EndEnroll(e)
    /\ CutOff(e)
    /\ UNCHANGED <<disk, ship, shipped, vaultVars, alone, keys>>

-----------------------------------------------------------------------------
(* nd7 ship: Machine::load, then the recipient set.                        *)

EndShip(s) == ship' = [ship EXCEPT ![s] = ShipOff]

(* A machine with no key is not enrolled and its run does nothing.         *)
LoadKey(s) ==
    /\ ship[s].stage = "off" /\ disk.key # NoKey
    /\ ship' = [ship EXCEPT ![s] = [ShipOff EXCEPT !.stage = "id", !.key = disk.key]]
    /\ Starts(s)
    /\ UNCHANGED <<disk, enroll, shipped, vaultVars, mixed, keys, failures>>

(* A missing file is an error that ends the run.                           *)
LoadId(s) ==
    /\ ship[s].stage = "id"
    /\ ship' = [ship EXCEPT ![s] =
           IF disk.id = NoId THEN ShipOff
           ELSE [ship[s] EXCEPT !.stage = "recipients", !.id = disk.id]]
    /\ UNCHANGED <<disk, enroll, shipped, vaultVars, alone, mixed, keys, failures>>

LoadRecipients(s) ==
    /\ ship[s].stage = "recipients"
    /\ ship' = [ship EXCEPT ![s] =
           IF disk.recipients = NoSet THEN ShipOff
           ELSE [ship[s] EXCEPT !.stage = "fetch", !.pinned = disk.recipients]]
    /\ UNCHANGED <<disk, enroll, shipped, vaultVars, alone, mixed, keys, failures>>

(* GET /v1/recipients: a request whose signature does not fit its machine  *)
(* id is answered 401, which the run takes for a vault to try later.       *)
VaultAnswersSet(s) ==
    /\ ship[s].stage = "fetch" /\ Registered(ship[s].id, ship[s].key)
    /\ \E set \in HandsOut :
           ship' = [ship EXCEPT ![s].stage = "check", ![s].fetched = set,
                                ![s].stale = Outdated(set)]
    /\ UNCHANGED <<disk, enroll, shipped, vaultVars, alone, mixed, keys, failures>>

Unauthorized(s) ==
    /\ ship[s].stage = "fetch" /\ ~ Registered(ship[s].id, ship[s].key)
    /\ EndShip(s)
    /\ UNCHANGED <<disk, enroll, shipped, vaultVars, alone, mixed, keys, failures>>

(* Slips: any admin of the new set may sign it; only a higher version is   *)
(* taken.                                                                  *)
VerifyItself(fetched, pinned) == fetched.by \in fetched.admins
VerifyNewer(fetched, pinned) ==
    fetched.by \in pinned.admins /\ fetched.version > pinned.version

(* The signer is an admin of the pinned set; versions are not compared.    *)
VerifyAgainst(fetched, pinned) == fetched.by \in pinned.admins

RefuseSet(s) ==
    /\ ship[s].stage = "check" /\ ~ VerifyAgainst(ship[s].fetched, ship[s].pinned)
    /\ EndShip(s)
    /\ UNCHANGED <<disk, enroll, shipped, vaultVars, alone, mixed, keys, failures>>

Pin(s) ==
    /\ ship[s].stage = "check" /\ VerifyAgainst(ship[s].fetched, ship[s].pinned)
    /\ disk' = [disk EXCEPT !.recipients = ship[s].fetched]
    /\ ship' = [ship EXCEPT ![s].stage = "push", ![s].pinned = ship[s].fetched,
                            ![s].stale = FALSE, ![s].todo = Chains \ shipped]
    /\ UNCHANGED <<enroll, shipped, vaultVars, alone, mixed, keys, failures>>

-----------------------------------------------------------------------------
(* The first batch of each chain, with the wraps.                          *)

(* The worst that happened to a session so far decides the exit code.      *)
Worse(old, new) ==
    CASE "stopped" \in {old, new} -> "stopped"
      [] OTHER -> IF "unreachable" \in {old, new} THEN "unreachable" ELSE "done"
After(s, c, how) ==
    ship' = [ship EXCEPT ![s].todo = @ \ {c}, ![s].ended = Worse(@, how)]

(* A chain the vault has not seen needs a wrap for every current admin; of *)
(* one it has, the batch is either stored already or ours to recover.      *)
Stores(s, c) == wraps[c] = NoChain /\ Current.admins \subseteq ship[s].pinned.admins
Acknowledged(s, c) == wraps[c] # NoChain \/ Stores(s, c)
VaultStores(s, c) ==
    wraps' = IF Stores(s, c) THEN [wraps EXCEPT ![c] = ship[s].pinned.admins] ELSE wraps

Push(s, c) ==
    /\ ship[s].stage = "push" /\ c \in ship[s].todo
    /\ VaultStores(s, c)
    /\ \/ Acknowledged(s, c) /\ shipped' = shipped \cup {c} /\ After(s, c, "done")
       \/ ~ Acknowledged(s, c) /\ After(s, c, "stopped") /\ UNCHANGED shipped
    /\ UNCHANGED <<disk, enroll, sets, machines, alone, mixed, keys, failures>>

(* The request or its answer is lost.                                      *)
PushLost(s, c) ==
    /\ ship[s].stage = "push" /\ c \in ship[s].todo /\ Fail
    /\ VaultStores(s, c) \/ UNCHANGED wraps
    /\ After(s, c, "unreachable")
    /\ UNCHANGED <<disk, enroll, shipped, sets, machines, alone, mixed, keys>>

EndRun(s) ==
    /\ ship[s].stage = "push" /\ ship[s].todo = {}
    /\ EndShip(s)
    /\ UNCHANGED <<disk, enroll, shipped, vaultVars, alone, mixed, keys, failures>>

(* Killed, or the set could not be fetched.                                *)
ShipFails(s) ==
    /\ ship[s].stage # "off" /\ Fail
    /\ EndShip(s)
    /\ UNCHANGED <<disk, enroll, shipped, vaultVars, alone, mixed, keys>>

-----------------------------------------------------------------------------
AdminStep == \E by, a \in Admins : AddAdmin(by, a) \/ RemoveAdmin(by, a)

EnrollStep(e) ==
    \/ \E rotate \in BOOLEAN, i \in DOMAIN sets : StartEnroll(e, rotate, sets[i].admins)
    \/ VaultEnrolls(e) \/ VaultRefuses(e) \/ CheckFingerprint(e) \/ WriteEnrolment(e) \/ EnrollFails(e)

ShipStep(s) ==
    \/ LoadKey(s) \/ LoadId(s) \/ LoadRecipients(s)
    \/ VaultAnswersSet(s) \/ Unauthorized(s) \/ RefuseSet(s) \/ Pin(s)
    \/ \E c \in Chains : Push(s, c) \/ PushLost(s, c)
    \/ EndRun(s) \/ ShipFails(s)

Next ==
    \/ AdminStep
    \/ \E e \in Enrollers : EnrollStep(e)
    \/ \E s \in Shippers : ShipStep(s)

Spec == Init /\ [][Next]_vars

-----------------------------------------------------------------------------
(* Properties.                                                             *)

(* No key an admin has not vouched for is ever pinned, held by a run or    *)
(* wrapped to, however often the set changed since the token was made and  *)
(* whatever set the vault hands out in between (enroll: "accepted only if  *)
(* it hashes to the fingerprint the token carries"; verify_against: the    *)
(* signature and the signer both matter).                                  *)
OnlyVouchedAdmins ==
    /\ disk.recipients.admins \cap Strangers = {}
    /\ \A s \in Shippers : ship[s].pinned.admins \cap Strangers = {}
    /\ \A c \in Chains : wraps[c] \cap Strangers = {}

(* An enrolment that was cut off anywhere, a first one or a --rotate,      *)
(* alone or beside another, is never a machine with a key and no id or no  *)
(* recipients (enroll: "Last, so a run interrupted halfway is not mistaken *)
(* for an enrolment").                                                     *)
EnrolmentIsWhole ==
    \/ disk.key # NoKey
    \/ \E s \in Shippers : ship[s].stage \in {"id", "recipients"}
    => disk.id # NoId /\ disk.recipients # NoSet

(* The key and the id on disk are a pair the vault knows, unless a         *)
(* --rotate is between its answer and its last write, ended there (killed, *)
(* or by its check of the fingerprint), or overlapped with another; and    *)
(* one that runs alone afterwards puts it right.                           *)
Rotating == \E e \in Enrollers : Registering(e)
KeyFitsIdUnlessCutOff ==
    disk.key # NoKey /\ ~ Rotating /\ ~ mixed => Registered(disk.id, disk.key)

(* The pinned set goes back to an older version only through a process     *)
(* that did not run alone, since a run may pin what it fetched before      *)
(* another one fetched and pinned a newer set; or through one that the     *)
(* vault handed a set the admins had replaced by then, since nothing       *)
(* compares versions.                                                      *)
GivenStale(p) == \/ p \in Enrollers /\ enroll[p].stale
                 \/ p \in Shippers /\ ship[p].stale
SetGoesBackHasCause ==
    [][disk'.recipients.version < disk.recipients.version =>
           \E p \in Active : p \notin alone \/ GivenStale(p)]_vars

(* A run refuses a set the organisation's own admins signed only when the  *)
(* machine has missed a change, two having been made since the set it      *)
(* holds, or when it is older than that.                                   *)
RefusesOnlyWhenBehind ==
    [][\A s \in Shippers :
           RefuseSet(s) /\ ship[s].fetched.by \in Admins
               => \/ ship[s].fetched.version >= ship[s].pinned.version + 2
                  \/ ship[s].fetched.version < ship[s].pinned.version]_vars
=============================================================================
