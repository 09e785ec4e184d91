--------------------------- MODULE SandboxProofs ---------------------------
(***************************************************************************)
(* What Sandbox promises for every layout of paths, every number of runs   *)
(* and processes and every sequence of grants.  What is inductive is that  *)
(* each settled process is held to the floor of its run, or to the command *)
(* profile rendered with the grants its command began with; the rest is    *)
(* how Seatbelt decides by the rules of those two: one that names an       *)
(* operation is consulted before one that names its class, and the last of *)
(* those that match decides.                                               *)
(***************************************************************************)
EXTENDS Sandbox, SequenceTheorems, TLAPS

Programs == {"none", "agent", "shell", "exit"}
Processes ==
    [program : Programs, run : Runs \cup {NoRun}, free : BOOLEAN, profile : Seq(Rules),
     grants : SUBSET Grantable]

EndsInDenies(profile, policy) ==
    LET n == Len(profile) IN
    /\ n >= 2
    /\ profile[n - 1] = Deny(WriteOps, Records(policy))
    /\ profile[n] = Deny(WriteOps, AgentConfigs(policy))

(* The floor does not depend on the grants.                                *)
With(layout, gs) == [layout EXCEPT !.grants = gs]
Rendered(entry) ==
    LET layout == Layout[entry.run] IN
    \/ entry.profile = FloorProfile(layout) /\ entry.grants = {}
    \/ entry.profile = CommandProfile(With(layout, entry.grants))

(* Who has no profile is nobody, or nd7-exec.                              *)
HeldToProfile ==
    \A p \in Procs : Settled(p) =>
        /\ proc[p].run \in Runs /\ ~ proc[p].free
        /\ Rendered(proc[p])

TypeInv ==
    /\ stage \in [Runs -> {"new", "up", "over"}]
    /\ grants \in [Runs -> SUBSET Grantable]
    /\ proc \in [Procs -> Processes]
    /\ changes \in Nat
    /\ \A p \in Procs : Live(p) => proc[p].run \in Runs

IInv == TypeInv /\ HeldToProfile

-----------------------------------------------------------------------------
(* Profiles.                                                               *)

LEMMA ShortSeqs ==
    ASSUME NEW S, NEW a \in S, NEW b \in S, NEW c \in S
    PROVE  <<a>> \in Seq(S) /\ <<a, b>> \in Seq(S) /\ <<a, b, c>> \in Seq(S)
OBVIOUS

LEMMA SixRules ==
    ASSUME NEW S, NEW a \in S, NEW b \in S, NEW c \in S, NEW d \in S, NEW e \in S, NEW f \in S
    PROVE  <<a, b, c, d, e, f>> \in Seq(S)
<1> DEFINE q == <<a, b, c, d, e, f>>
<1>1. q = [i \in 1 .. 6 |-> q[i]] /\ \A i \in 1 .. 6 : q[i] \in S
  OBVIOUS
<1> HIDE DEF q
<1>2. q \in [1 .. 6 -> S]
  BY <1>1
<1> QED BY <1>2, SeqDef DEF q

(* A grant changes none of the places that a policy names besides.         *)
LEMMA WithType ==
    ASSUME NEW r \in Runs, NEW gs \in SUBSET Places
    PROVE  LET layout == Layout[r]  policy == With(layout, gs) IN
           /\ layout \in Policies /\ policy \in Policies /\ policy.grants = gs
           /\ Records(policy) = Records(layout) /\ AgentConfigs(policy) = AgentConfigs(layout)
           /\ Secrets(policy) = Secrets(layout) /\ KnownHosts(policy) = KnownHosts(layout)
           /\ Writable(policy) = Writable(layout) /\ Keychain(policy) = Keychain(layout)
           /\ GpgAgent(policy) = GpgAgent(layout)
           /\ policy.ssh_agent = layout.ssh_agent /\ policy.open_sock = layout.open_sock
           /\ policy.exit = layout.exit
<1> DEFINE layout == Layout[r]
           policy == With(layout, gs)
<1>1. layout \in Policies
  BY SandboxAssumption
<1>2. /\ policy \in Policies /\ policy.grants = gs
      /\ policy.home = layout.home /\ policy.state = layout.state
      /\ policy.project = layout.project /\ policy.tmp = layout.tmp
      /\ policy.ssh_agent = layout.ssh_agent /\ policy.open_sock = layout.open_sock
      /\ policy.exit = layout.exit
  BY <1>1 DEF With, Policies
<1> HIDE DEF layout, policy
<1>3. /\ Records(policy) = Records(layout) /\ AgentConfigs(policy) = AgentConfigs(layout)
      /\ Secrets(policy) = Secrets(layout) /\ KnownHosts(policy) = KnownHosts(layout)
      /\ Writable(policy) = Writable(layout) /\ Keychain(policy) = Keychain(layout)
      /\ GpgAgent(policy) = GpgAgent(layout)
  BY <1>2 DEF Records, AgentConfigs, Secrets, KnownHosts, Writable, Keychain, GpgAgent
<1> QED
  BY <1>1, <1>2, <1>3 DEF layout, policy

LEMMA FloorIgnoresGrants ==
    ASSUME NEW r \in Runs, NEW gs \in SUBSET Places
    PROVE  FloorProfile(With(Layout[r], gs)) = FloorProfile(Layout[r])
<1> DEFINE layout == Layout[r]
           policy == With(layout, gs)
<1>1. /\ Records(policy) = Records(layout) /\ AgentConfigs(policy) = AgentConfigs(layout)
      /\ Secrets(policy) = Secrets(layout) /\ KnownHosts(policy) = KnownHosts(layout)
      /\ Writable(policy) = Writable(layout) /\ Keychain(policy) = Keychain(layout)
      /\ GpgAgent(policy) = GpgAgent(layout)
      /\ policy.ssh_agent = layout.ssh_agent /\ policy.open_sock = layout.open_sock
      /\ policy.exit = layout.exit
  BY WithType
<1> HIDE DEF layout, policy
<1>2. SshRules(policy) = SshRules(layout)
  BY <1>1 DEF SshRules
<1>3. Body(policy) = Body(layout)
  BY <1>1, <1>2 DEF Body
<1>4. Denies(policy) = Denies(layout)
  BY <1>1 DEF Denies
<1>5. FloorProfile(policy) = FloorProfile(layout)
  BY <1>1, <1>3, <1>4 DEF FloorProfile
<1> QED
  BY <1>5 DEF layout, policy

LEMMA PolicyOfWith == \A r \in Runs : PolicyOf(r) = With(Layout[r], grants[r])
  BY DEF PolicyOf, With

LEMMA AllowType ==
    ASSUME NEW ops \in SUBSET Operations, NEW what \in SUBSET Places
    PROVE  Allow(ops, what) \in Rules /\ Deny(ops, what) \in Rules
BY DEF Allow, Deny, Rules

LEMMA PlacesNamed ==
    ASSUME NEW policy \in Policies
    PROVE  /\ Records(policy) \subseteq Places /\ AgentConfigs(policy) \subseteq Places
           /\ Secrets(policy) \subseteq Places /\ Writable(policy) \subseteq Places
           /\ Keychain(policy) \subseteq Places /\ Granted(policy) \subseteq Places
           /\ KnownHosts(policy) \in Places /\ GpgAgent(policy) \in Places
<1>1. \A dir : Subpath(dir) \subseteq Places
  BY PolicyAssumption DEF Subpath
<1>2. policy.home \in Places
  BY DEF Policies
<1>3. AgentConfigs(policy) \subseteq Places /\ KnownHosts(policy) \in Places
      /\ GpgAgent(policy) \in Places
  <2>1. \A dir \in Places, tail \in Places : dir \o tail \in Places
    BY DEF Places
  <2>2. \A a, b \in Names : <<a, b>> \in Places
    BY ShortSeqs DEF Places
  <2>3. \A a, b \in Names : policy.home \o <<a, b>> \in Places
    BY <1>2, <2>1, <2>2
  <2> QED BY <2>3, PolicyAssumption DEF AgentConfigs, KnownHosts, GpgAgent
<1>4. Records(policy) \subseteq Places /\ Secrets(policy) \subseteq Places
      /\ Granted(policy) \subseteq Places
  BY <1>1 DEF Records, Secrets, Granted
<1>5. Writable(policy) \subseteq Places
  <2>1. \A home, name : Component(home, name) \subseteq Places
    BY <1>1 DEF Component
  <2>2. \A home, names : Named(home, names) \subseteq Places
    BY <1>1 DEF Named
  <2>3. UNION {Subpath(<<"private", "tmp", s>>) : s \in Scratch} \subseteq Places
    BY <1>1
  <2> QED BY <1>1, <2>1, <2>2, <2>3 DEF Writable
<1>6. Keychain(policy) \subseteq Places
  BY <1>1 DEF Keychain, Named
<1> QED BY <1>3, <1>4, <1>5, <1>6

LEMMA SshType ==
    ASSUME NEW policy \in Policies
    PROVE  SshRules(policy) \in Seq(Rules)
<1>1. CASE policy.ssh_agent = NoSock
  BY <1>1 DEF SshRules
<1>2. CASE policy.ssh_agent # NoSock
  <2>1. policy.ssh_agent \in Places
    BY <1>2 DEF Policies
  <2>2. /\ Allow({"network-outbound"}, {policy.ssh_agent}) \in Rules
        /\ Allow(ReadOps, {KnownHosts(policy)}) \in Rules
    BY <2>1, AllowType, PlacesNamed DEF Operations
  <2> QED BY <1>2, <2>2 DEF SshRules
<1> QED BY <1>1, <1>2

LEMMA BodyType ==
    ASSUME NEW policy \in Policies
    PROVE  Body(policy) \in Seq(Rules)
<1> DEFINE fixed ==
      <<Allow({"process-fork", "process-exec"}, Paths),
        Allow({"file-read*"}, Paths),
        Deny(ReadOps, Secrets(policy)),
        Allow({"file-write*"}, Writable(policy)),
        Allow({"network-outbound"}, {<<"tcp 443">>, <<"localhost">>}),
        Allow({"network-outbound"}, {GpgAgent(policy)})>>
<1>1. fixed \in Seq(Rules)
  <2>1. /\ Allow({"process-fork", "process-exec"}, Paths) \in Rules
        /\ Allow({"file-read*"}, Paths) \in Rules
    BY AllowType, PolicyAssumption DEF Operations, ReadOps
  <2>2. Deny(ReadOps, Secrets(policy)) \in Rules
    BY AllowType, PlacesNamed DEF Operations
  <2>3. Allow({"file-write*"}, Writable(policy)) \in Rules
    BY AllowType, PlacesNamed DEF Operations, WriteOps
  <2>4. {<<"tcp 443">>, <<"localhost">>} \subseteq Places
    BY PolicyAssumption, ShortSeqs DEF Places
  <2>5. Allow({"network-outbound"}, {<<"tcp 443">>, <<"localhost">>}) \in Rules
    BY <2>4, AllowType DEF Operations
  <2>6. Allow({"network-outbound"}, {GpgAgent(policy)}) \in Rules
    BY AllowType, PlacesNamed DEF Operations
  <2> QED BY <2>1, <2>2, <2>3, <2>5, <2>6, SixRules
<1>2. SshRules(policy) \in Seq(Rules)
  BY SshType
<1>3. Body(policy) = fixed \o SshRules(policy)
  BY DEF Body
<1> HIDE DEF fixed
<1> QED BY <1>1, <1>2, <1>3

(* What comes before the denies does not matter.                           *)
LEMMA DeniesLast ==
    ASSUME NEW policy \in Policies, NEW before \in Seq(Rules)
    PROVE  /\ before \o Denies(policy) \in Seq(Rules)
           /\ EndsInDenies(before \o Denies(policy), policy)
<1> DEFINE d1 == Deny(WriteOps, Records(policy))
           d2 == Deny(WriteOps, AgentConfigs(policy))
<1>1. d1 \in Rules /\ d2 \in Rules
  BY AllowType, PlacesNamed DEF Operations
<1>2. Denies(policy) = <<d1, d2>>
  BY DEF Denies
<1> HIDE DEF d1, d2
<1>3. /\ before \o <<d1, d2>> \in Seq(Rules)
      /\ Len(before \o <<d1, d2>>) = Len(before) + 2
      /\ (before \o <<d1, d2>>)[Len(before) + 1] = d1
      /\ (before \o <<d1, d2>>)[Len(before) + 2] = d2
  BY <1>1
<1>4. Len(before) \in Nat
  OBVIOUS
<1>5. LET n == Len(before \o <<d1, d2>>) IN
      n >= 2 /\ (before \o <<d1, d2>>)[n - 1] = d1 /\ (before \o <<d1, d2>>)[n] = d2
  BY <1>3, <1>4
<1> QED BY <1>2, <1>3, <1>5 DEF EndsInDenies, d1, d2

LEMMA ProfilesEnd ==
    ASSUME NEW policy \in Policies
    PROVE  /\ FloorProfile(policy) \in Seq(Rules)
           /\ EndsInDenies(FloorProfile(policy), policy)
           /\ CommandProfile(policy) \in Seq(Rules)
           /\ EndsInDenies(CommandProfile(policy), policy)
<1> DEFINE signing ==
      <<Allow({"process-exec no-sandbox"}, {policy.exit}),
        Allow({"file-write*"}, Keychain(policy)),
        Allow({"network-outbound"}, {policy.open_sock})>>
           granted == IF policy.grants = {} THEN <<>>
                      ELSE <<Allow({"file-write*"}, Granted(policy))>>
<1>1. signing \in Seq(Rules)
  <2>1. policy.exit \in Places /\ policy.open_sock \in Places
    BY DEF Policies
  <2>2. /\ Allow({"process-exec no-sandbox"}, {policy.exit}) \in Rules
        /\ Allow({"network-outbound"}, {policy.open_sock}) \in Rules
    BY <2>1, AllowType DEF Operations
  <2>3. Allow({"file-write*"}, Keychain(policy)) \in Rules
    BY AllowType, PlacesNamed DEF Operations, WriteOps
  <2> QED BY <2>2, <2>3, ShortSeqs
<1>2. granted \in Seq(Rules)
  <2>1. Allow({"file-write*"}, Granted(policy)) \in Rules
    BY AllowType, PlacesNamed DEF Operations, WriteOps
  <2> QED BY <2>1
<1> HIDE DEF signing, granted
<1>3. Body(policy) \o signing \in Seq(Rules) /\ Body(policy) \o granted \in Seq(Rules)
  BY <1>1, <1>2, BodyType
<1>4. FloorProfile(policy) = (Body(policy) \o signing) \o Denies(policy)
  BY DEF FloorProfile, signing
<1>5. CommandProfile(policy) = (Body(policy) \o granted) \o Denies(policy)
  BY DEF CommandProfile, granted
<1> QED BY <1>3, <1>4, <1>5, DeniesLast

(* Seatbelt by such a profile: the own rules of a write operation are      *)
(* there, and the last of them is one of the two denies.                   *)
LEMMA SealedDenied ==
    ASSUME NEW profile \in Seq(Rules), NEW policy, EndsInDenies(profile, policy),
           NEW op \in Writes, NEW path \in Sealed(policy)
    PROVE  ~ Allows(profile, op, path)
<1> DEFINE n == Len(profile)
           own == Matching(profile, op, path)
<1>1. /\ n \in Nat /\ n >= 2 /\ DOMAIN profile = 1 .. n
      /\ profile[n - 1] = Deny(WriteOps, Records(policy))
      /\ profile[n] = Deny(WriteOps, AgentConfigs(policy))
  BY DEF EndsInDenies
<1>2. n - 1 \in own \/ n \in own
  <2>1. op \in WriteOps
    BY DEF Writes
  <2>2. CASE path \in Records(policy)
    BY <1>1, <2>1, <2>2 DEF Matching, Deny
  <2>3. CASE path \in AgentConfigs(policy)
    BY <1>1, <2>1, <2>3 DEF Matching, Deny
  <2> QED BY <2>2, <2>3 DEF Sealed
<1>3. ~ LastAllows(profile, own)
  <2>1. SUFFICES ASSUME NEW i \in own, profile[i].allow, \A j \in own : j <= i
                 PROVE  FALSE
    BY DEF LastAllows
  <2>2. i \in 1 .. n
    BY <1>1 DEF Matching
  <2>3. i = n - 1 \/ i = n
    <3> HIDE DEF n, own
    <3>1. n - 1 <= i
      BY <1>1, <1>2, <2>1, <2>2
    <3> QED BY <1>1, <2>2, <3>1
  <2> QED BY <1>1, <2>1, <2>3 DEF Deny
<1> QED BY <1>2, <1>3 DEF Allows

LEMMA RenderedEnds ==
    ASSUME NEW entry \in Processes, entry.run \in Runs, Rendered(entry)
    PROVE  EndsInDenies(entry.profile, Layout[entry.run])
<1> DEFINE layout == Layout[entry.run]
           policy == With(layout, entry.grants)
<1>1. entry.grants \in SUBSET Places
  BY SandboxAssumption DEF Processes
<1>2. /\ layout \in Policies /\ policy \in Policies
      /\ Records(policy) = Records(layout) /\ AgentConfigs(policy) = AgentConfigs(layout)
  BY <1>1, WithType
<1>3. entry.profile \in {FloorProfile(layout), CommandProfile(policy)}
  BY DEF Rendered
<1> HIDE DEF layout, policy
<1>4. EndsInDenies(FloorProfile(layout), layout) /\ EndsInDenies(CommandProfile(policy), policy)
  BY <1>2, ProfilesEnd
<1>5. EndsInDenies(entry.profile, layout)
  BY <1>2, <1>3, <1>4 DEF EndsInDenies
<1> QED
  BY <1>5 DEF layout

-----------------------------------------------------------------------------
(* The invariant.                                                          *)

LEMMA InitOk == Init => IInv
BY DEF Init, IInv, TypeInv, HeldToProfile, Gone, Free, Processes, Programs, Live, Settled

LEMMA HeldType ==
    ASSUME NEW program \in Programs, NEW r \in Runs, NEW profile \in Seq(Rules),
           NEW gs \in SUBSET Grantable
    PROVE  Held(program, r, profile, gs) \in Processes
BY DEF Held, Processes

LEMMA FreeType ==
    ASSUME NEW program \in Programs, NEW r \in Runs \cup {NoRun}
    PROVE  Free(program, r) \in Processes
<1>1. <<>> \in Seq(Rules)
  OBVIOUS
<1> QED BY <1>1 DEF Free, Processes

(* What a step that gives one process another entry has to show.           *)
LEMMA OneProcess ==
    ASSUME IInv, NEW p \in Procs, NEW entry \in Processes,
           proc' = [proc EXCEPT ![p] = entry],
           stage' \in [Runs -> {"new", "up", "over"}], UNCHANGED <<grants, changes>>,
           entry.program # "none" => entry.run \in Runs,
           entry.program \notin {"none", "exit"}
               => ~ entry.free /\ Rendered(entry)
    PROVE  IInv'
<1>1. proc' \in [Procs -> Processes]
  BY DEF IInv, TypeInv
<1>2. proc'[p] = entry /\ \A q \in Procs \ {p} : proc'[q] = proc[q]
  BY DEF IInv, TypeInv
<1>3. TypeInv'
  BY <1>1, <1>2 DEF IInv, TypeInv, Live
<1>4. HeldToProfile'
  BY <1>2 DEF IInv, HeldToProfile, Settled, Live
<1> QED BY <1>3, <1>4 DEF IInv

LEMMA StepOk == IInv /\ [Next]_vars => IInv'
<1> SUFFICES ASSUME IInv, [Next]_vars PROVE IInv'
  OBVIOUS
<1> USE DEF Programs
<1>1. ASSUME NEW r \in Runs
      PROVE  /\ PolicyOf(r) = With(Layout[r], grants[r]) /\ PolicyOf(r) \in Policies
             /\ FloorProfile(PolicyOf(r)) = FloorProfile(Layout[r])
  <2>1. grants[r] \in SUBSET Places
    BY SandboxAssumption DEF IInv, TypeInv
  <2> QED
    BY <2>1, PolicyOfWith, WithType, FloorIgnoresGrants
<1>3. ASSUME NEW r \in Runs, StartRun(r) PROVE IInv'
  <2> DEFINE entry == Held("agent", r, FloorProfile(PolicyOf(r)), {})
  <2>1. PICK p \in Procs : proc' = [proc EXCEPT ![p] = entry]
    BY <1>3 DEF StartRun
  <2>2. entry \in Processes
    BY <1>1, ProfilesEnd, HeldType
  <2>3. Rendered(entry)
    BY <1>1 DEF Held, Rendered
  <2>4. /\ entry.program = "agent" /\ entry.run = r /\ ~ entry.free
    BY DEF Held
  <2>5. stage' \in [Runs -> {"new", "up", "over"}] /\ UNCHANGED <<grants, changes>>
    BY <1>3 DEF StartRun, IInv, TypeInv
  <2> HIDE DEF entry
  <2> QED BY <2>1, <2>2, <2>3, <2>4, <2>5, OneProcess
<1>4. ASSUME NEW r \in Runs, EndRun(r) PROVE IInv'
  <2>1. Gone \in Processes
    BY FreeType DEF Gone
  <2>2. proc' \in [Procs -> Processes]
    BY <1>4, <2>1 DEF EndRun, IInv, TypeInv
  <2>3. \A p \in Procs : proc'[p] = Gone \/ proc'[p] = proc[p]
    BY <1>4 DEF EndRun
  <2>4. Gone.program = "none"
    BY DEF Gone, Free
  <2>5. TypeInv'
    BY <1>4, <2>2, <2>3, <2>4 DEF EndRun, IInv, TypeInv, Live
  <2>6. HeldToProfile'
    BY <2>3, <2>4 DEF IInv, HeldToProfile, Settled, Live
  <2> QED BY <2>5, <2>6 DEF IInv
<1>12. ASSUME NEW r \in Runs, KillRun(r) PROVE IInv'
  BY <1>12 DEF KillRun, IInv, TypeInv, HeldToProfile, Settled, Live
<1>5. ASSUME NEW r \in Runs, NEW dir \in Grantable, Grant(r, dir) PROVE IInv'
  <2>1. TypeInv'
    BY <1>5 DEF Grant, IInv, TypeInv, Live
  <2> QED BY <1>5, <2>1 DEF Grant, IInv, HeldToProfile, Settled, Live
<1>6. ASSUME NEW p \in Procs, ExecExit(p) PROVE IInv'
  <2>1. proc[p].run \in Runs
    BY <1>6 DEF ExecExit, IInv, TypeInv, Live
  <2>2. Free("exit", proc[p].run) \in Processes
    BY <2>1, FreeType
  <2> QED BY <1>6, <2>1, <2>2, OneProcess DEF ExecExit, Free, IInv, TypeInv
<1>7. ASSUME NEW p \in Procs, ApplyPolicy(p) PROVE IInv'
  <2> DEFINE r == proc[p].run
             entry == Held("shell", r, CommandProfile(PolicyOf(r)), grants[r])
  <2>1. r \in Runs /\ grants[r] \in SUBSET Grantable
    BY <1>7 DEF ApplyPolicy, IInv, TypeInv, Live
  <2>2. entry \in Processes
    BY <1>1, <2>1, ProfilesEnd, HeldType
  <2>3. Rendered(entry)
    BY <1>1, <2>1 DEF Held, Rendered
  <2>4. entry.program = "shell" /\ entry.run = r /\ ~ entry.free
    BY DEF Held
  <2>5. /\ proc' = [proc EXCEPT ![p] = entry]
        /\ stage' \in [Runs -> {"new", "up", "over"}] /\ UNCHANGED <<grants, changes>>
    BY <1>7 DEF ApplyPolicy, IInv, TypeInv
  <2> HIDE DEF entry
  <2> QED BY <2>1, <2>2, <2>3, <2>4, <2>5, OneProcess
<1>8. ASSUME NEW p \in Procs, RefuseCommand(p) \/ Ends(p) PROVE IInv'
  <2>1. Gone \in Processes /\ Gone.program = "none"
    BY FreeType DEF Gone, Free
  <2> QED BY <1>8, <2>1, OneProcess DEF RefuseCommand, Ends, IInv, TypeInv
<1>9. ASSUME NEW p \in Procs, NEW c \in Procs, Fork(p, c) PROVE IInv'
  <2> DEFINE entry == [proc[p] EXCEPT !.program = "shell"]
  <2>1. entry \in Processes
    BY DEF IInv, TypeInv, Processes
  <2>2. /\ entry.program = "shell" /\ entry.run = proc[p].run
        /\ entry.free = proc[p].free /\ entry.profile = proc[p].profile
        /\ entry.grants = proc[p].grants
    BY DEF IInv, TypeInv, Processes
  <2>3. entry.run \in Runs /\ ~ entry.free /\ Rendered(entry)
    <3>1. proc[p].run \in Runs /\ ~ proc[p].free /\ Rendered(proc[p])
      BY <1>9 DEF Fork, IInv, HeldToProfile, Settled
    <3> HIDE DEF entry
    <3> QED
      BY <2>2, <3>1 DEF Rendered
  <2>4. /\ proc' = [proc EXCEPT ![c] = entry]
        /\ stage' \in [Runs -> {"new", "up", "over"}] /\ UNCHANGED <<grants, changes>>
    BY <1>9 DEF Fork, IInv, TypeInv
  <2> HIDE DEF entry
  <2> QED BY <2>1, <2>2, <2>3, <2>4, OneProcess
<1>10. ASSUME NEW p \in Procs, NEW c \in Procs, Bash(p, c) PROVE IInv'
  <2>1. proc[p].run \in Runs
    BY <1>10 DEF Bash, IInv, TypeInv, Live
  <2>2. Free("exit", proc[p].run) \in Processes
    BY <2>1, FreeType
  <2> QED BY <1>10, <2>1, <2>2, OneProcess DEF Bash, Free, IInv, TypeInv
<1>11. ASSUME UNCHANGED vars PROVE IInv'
  BY <1>11 DEF vars, IInv, TypeInv, HeldToProfile, Settled, Live
<1> QED BY <1>3, <1>4, <1>5, <1>6, <1>7, <1>8, <1>9, <1>10, <1>11, <1>12 DEF Next

(* Type correctness: every live process is of a run, and every profile a   *)
(* sequence of rules.                                                      *)
THEOREM SandboxTyped == Spec => []TypeInv
<1>1. IInv => TypeInv
  BY DEF IInv
<1> QED BY InitOk, StepOk, <1>1, PTL DEF Spec

(* Whatever is granted, no settled process can write nd7's records or the  *)
(* agents' configuration: the denies of both profiles stay last.           *)
THEOREM RecordsAreSealed == Spec => []RecordsSealed
<1>1. IInv => RecordsSealed
  <2>1. SUFFICES ASSUME IInv, NEW p \in Procs, Settled(p),
                        NEW op \in Writes, NEW path \in Sealed(Layout[proc[p].run])
                 PROVE  ~ May(p, op, path)
    BY DEF RecordsSealed
  <2>2. ~ proc[p].free /\ EndsInDenies(proc[p].profile, Layout[proc[p].run])
    BY <2>1, RenderedEnds DEF IInv, HeldToProfile, TypeInv
  <2>3. proc[p].profile \in Seq(Rules)
    BY <2>1 DEF IInv, TypeInv, Processes
  <2> QED BY <2>1, <2>2, <2>3, SealedDenied DEF May
<1> QED BY InitOk, StepOk, <1>1, PTL DEF Spec

-----------------------------------------------------------------------------
(* Which rules there are, wherever they stand.                             *)

RulesOf(profile) == {profile[i] : i \in DOMAIN profile}

LEMMA RulesJoin ==
    ASSUME NEW s \in Seq(Rules), NEW t \in Seq(Rules)
    PROVE  s \o t \in Seq(Rules) /\ RulesOf(s \o t) = RulesOf(s) \cup RulesOf(t)
<1>1. ASSUME NEW i \in DOMAIN (s \o t) PROVE (s \o t)[i] \in RulesOf(s) \cup RulesOf(t)
  <2>1. /\ DOMAIN s = 1 .. Len(s) /\ DOMAIN t = 1 .. Len(t)
        /\ Len(s) \in Nat /\ Len(t) \in Nat /\ i \in 1 .. Len(s) + Len(t)
    OBVIOUS
  <2>2. CASE i <= Len(s)
    BY <2>1, <2>2 DEF RulesOf
  <2>3. CASE i > Len(s)
    <3>1. i - Len(s) \in DOMAIN t /\ (s \o t)[i] = t[i - Len(s)]
      BY <2>1, <2>3
    <3> QED
      BY <3>1 DEF RulesOf
  <2> QED
    BY <2>1, <2>2, <2>3
<1>2. ASSUME NEW i \in DOMAIN s PROVE s[i] \in RulesOf(s \o t)
  <2>1. i \in DOMAIN (s \o t) /\ (s \o t)[i] = s[i]
    OBVIOUS
  <2> QED
    BY <2>1 DEF RulesOf
<1>3. ASSUME NEW i \in DOMAIN t PROVE t[i] \in RulesOf(s \o t)
  <2>1. /\ DOMAIN s = 1 .. Len(s) /\ DOMAIN t = 1 .. Len(t)
        /\ Len(s) \in Nat /\ Len(t) \in Nat /\ i \in 1 .. Len(t)
    OBVIOUS
  <2>2. i + Len(s) \in DOMAIN (s \o t) /\ (s \o t)[i + Len(s)] = t[i]
    BY <2>1
  <2> QED
    BY <2>2 DEF RulesOf
<1>4. RulesOf(s \o t) = RulesOf(s) \cup RulesOf(t)
  BY <1>1, <1>2, <1>3 DEF RulesOf
<1>5. s \o t \in Seq(Rules)
  OBVIOUS
<1> QED
  BY <1>4, <1>5

LEMMA RulesListed ==
    /\ RulesOf(<<>>) = {}
    /\ \A a : RulesOf(<<a>>) = {a}
    /\ \A a, b : RulesOf(<<a, b>>) = {a, b}
    /\ \A a, b, c : RulesOf(<<a, b, c>>) = {a, b, c}
    /\ \A a, b, c, d, e, f : RulesOf(<<a, b, c, d, e, f>>) = {a, b, c, d, e, f}
  BY DEF RulesOf

(* What a rule is about.                                                   *)
About(rule, ops, what) == rule.ops = ops /\ rule.what = what

LEMMA AllowsAbout == \A ops, what : About(Allow(ops, what), ops, what)
  BY DEF About, Allow

(* The rules that let a process do something.                              *)
LEMMA BodyRules ==
    ASSUME NEW policy \in Policies
    PROVE  /\ Deny(ReadOps, Secrets(policy)) \in RulesOf(Body(policy))
           /\ \A rule \in RulesOf(Body(policy)) : rule.allow =>
                \/ About(rule, {"process-fork", "process-exec"}, Paths)
                \/ About(rule, {"file-read*"}, Paths)
                \/ About(rule, {"file-write*"}, Writable(policy))
                \/ About(rule, {"network-outbound"}, {<<"tcp 443">>, <<"localhost">>})
                \/ About(rule, {"network-outbound"}, {GpgAgent(policy)})
                \/ /\ policy.ssh_agent # NoSock
                   /\ \/ About(rule, {"network-outbound"}, {policy.ssh_agent})
                      \/ About(rule, ReadOps, {KnownHosts(policy)})
<1> DEFINE r1 == Allow({"process-fork", "process-exec"}, Paths)
           r2 == Allow({"file-read*"}, Paths)
           r3 == Deny(ReadOps, Secrets(policy))
           r4 == Allow({"file-write*"}, Writable(policy))
           r5 == Allow({"network-outbound"}, {<<"tcp 443">>, <<"localhost">>})
           r6 == Allow({"network-outbound"}, {GpgAgent(policy)})
           s1 == Allow({"network-outbound"}, {policy.ssh_agent})
           s2 == Allow(ReadOps, {KnownHosts(policy)})
<1>1. /\ Body(policy) = <<r1, r2, r3, r4, r5, r6>> \o SshRules(policy)
      /\ SshRules(policy) = IF policy.ssh_agent = NoSock THEN <<>> ELSE <<s1, s2>>
  BY DEF Body, SshRules
<1>2. ~ r3.allow
  BY DEF Deny
<1>3. r1 \in Rules /\ r2 \in Rules /\ r3 \in Rules /\ r4 \in Rules /\ r5 \in Rules /\ r6 \in Rules
  <2>1. {<<"tcp 443">>, <<"localhost">>} \subseteq Places
    BY PolicyAssumption, ShortSeqs DEF Places
  <2> QED
    BY <2>1, AllowType, PlacesNamed, PolicyAssumption DEF Operations, ReadOps, WriteOps
<1>4. SshRules(policy) \in Seq(Rules)
  BY SshType
<1>about. /\ About(r1, {"process-fork", "process-exec"}, Paths)
          /\ About(r2, {"file-read*"}, Paths)
          /\ About(r4, {"file-write*"}, Writable(policy))
          /\ About(r5, {"network-outbound"}, {<<"tcp 443">>, <<"localhost">>})
          /\ About(r6, {"network-outbound"}, {GpgAgent(policy)})
          /\ About(s1, {"network-outbound"}, {policy.ssh_agent})
          /\ About(s2, ReadOps, {KnownHosts(policy)})
  BY AllowsAbout
<1>r3. r3 = Deny(ReadOps, Secrets(policy))
  OBVIOUS
<1> HIDE DEF r1, r2, r3, r4, r5, r6, s1, s2
<1>5. RulesOf(Body(policy)) = {r1, r2, r3, r4, r5, r6} \cup RulesOf(SshRules(policy))
  <2>1. <<r1, r2, r3, r4, r5, r6>> \in Seq(Rules)
    BY <1>3, SixRules
  <2>2. RulesOf(<<r1, r2, r3, r4, r5, r6>>) = {r1, r2, r3, r4, r5, r6}
    BY RulesListed
  <2> DEFINE q == <<r1, r2, r3, r4, r5, r6>>
             t == SshRules(policy)
  <2> HIDE DEF q, t
  <2>3. q \in Seq(Rules) /\ t \in Seq(Rules) /\ Body(policy) = q \o t
    BY <1>1, <1>4, <2>1 DEF q, t
  <2>4. RulesOf(q \o t) = RulesOf(q) \cup RulesOf(t)
    BY <2>3, RulesJoin
  <2> QED
    BY <2>2, <2>3, <2>4 DEF q, t
<1>6. RulesOf(SshRules(policy)) = IF policy.ssh_agent = NoSock THEN {} ELSE {s1, s2}
  BY <1>1, RulesListed
<1> QED
  <2>1. Deny(ReadOps, Secrets(policy)) \in RulesOf(Body(policy))
    BY <1>r3, <1>5
  <2>2. ASSUME NEW rule \in RulesOf(Body(policy)), rule.allow
        PROVE  \/ rule = r1 \/ rule = r2 \/ rule = r4 \/ rule = r5 \/ rule = r6
               \/ policy.ssh_agent # NoSock /\ (rule = s1 \/ rule = s2)
    BY <1>2, <1>5, <1>6, <2>2
  <2> QED
    BY <1>about, <2>1, <2>2

LEMMA DenyRules ==
    ASSUME NEW policy \in Policies
    PROVE  /\ Denies(policy) \in Seq(Rules)
           /\ \A rule \in RulesOf(Denies(policy)) : ~ rule.allow
<1>1. /\ Deny(WriteOps, Records(policy)) \in Rules
      /\ Deny(WriteOps, AgentConfigs(policy)) \in Rules
  BY AllowType, PlacesNamed DEF Operations
<1>2. Denies(policy) \in Seq(Rules)
  BY <1>1, ShortSeqs DEF Denies
<1>3. RulesOf(Denies(policy)) =
          {Deny(WriteOps, Records(policy)), Deny(WriteOps, AgentConfigs(policy))}
  BY RulesListed DEF Denies
<1> QED
  BY <1>2, <1>3 DEF Deny

(* What the agent has besides: the way out, signing in, the URLs.          *)
Besides(policy) ==
    <<Allow({"process-exec no-sandbox"}, {policy.exit}),
      Allow({"file-write*"}, Keychain(policy)),
      Allow({"network-outbound"}, {policy.open_sock})>>

LEMMA BesidesRules ==
    ASSUME NEW policy \in Policies
    PROVE  /\ Besides(policy) \in Seq(Rules)
           /\ \A rule \in RulesOf(Besides(policy)) :
                \/ About(rule, {"process-exec no-sandbox"}, {policy.exit})
                \/ About(rule, {"file-write*"}, Keychain(policy))
                \/ About(rule, {"network-outbound"}, {policy.open_sock})
<1>1. policy.exit \in Places /\ policy.open_sock \in Places
  BY DEF Policies
<1>2. /\ Allow({"process-exec no-sandbox"}, {policy.exit}) \in Rules
      /\ Allow({"network-outbound"}, {policy.open_sock}) \in Rules
      /\ Allow({"file-write*"}, Keychain(policy)) \in Rules
  BY <1>1, AllowType, PlacesNamed DEF Operations, WriteOps
<1> QED
  <2> DEFINE a == Allow({"process-exec no-sandbox"}, {policy.exit})
             b == Allow({"file-write*"}, Keychain(policy))
             c == Allow({"network-outbound"}, {policy.open_sock})
  <2>1. Besides(policy) = <<a, b, c>> /\ a \in Rules /\ b \in Rules /\ c \in Rules
    BY <1>2 DEF Besides
  <2>2. /\ About(a, {"process-exec no-sandbox"}, {policy.exit})
        /\ About(b, {"file-write*"}, Keychain(policy))
        /\ About(c, {"network-outbound"}, {policy.open_sock})
    BY AllowsAbout
  <2> HIDE DEF a, b, c
  <2>3. <<a, b, c>> \in Seq(Rules) /\ RulesOf(<<a, b, c>>) = {a, b, c}
    BY <2>1, ShortSeqs, RulesListed
  <2> QED
    BY <2>1, <2>2, <2>3

LEMMA FloorRules ==
    ASSUME NEW policy \in Policies
    PROVE  /\ RulesOf(Body(policy)) \subseteq RulesOf(FloorProfile(policy))
           /\ \A rule \in RulesOf(FloorProfile(policy)) : rule.allow =>
                  rule \in RulesOf(Body(policy)) \cup RulesOf(Besides(policy))
<1>1. FloorProfile(policy) = (Body(policy) \o Besides(policy)) \o Denies(policy)
  BY DEF FloorProfile, Besides
<1>2. /\ Body(policy) \in Seq(Rules) /\ Besides(policy) \in Seq(Rules)
      /\ Denies(policy) \in Seq(Rules) /\ Body(policy) \o Besides(policy) \in Seq(Rules)
  BY BodyType, BesidesRules, DenyRules, RulesJoin
<1>3. RulesOf(FloorProfile(policy)) =
          (RulesOf(Body(policy)) \cup RulesOf(Besides(policy))) \cup RulesOf(Denies(policy))
  BY <1>1, <1>2, RulesJoin
<1> QED
  BY <1>3, DenyRules

LEMMA CommandRules ==
    ASSUME NEW policy \in Policies
    PROVE  /\ RulesOf(Body(policy)) \subseteq RulesOf(CommandProfile(policy))
           /\ \A rule \in RulesOf(CommandProfile(policy)) : rule.allow =>
                  \/ rule \in RulesOf(Body(policy))
                  \/ About(rule, {"file-write*"}, Granted(policy))
<1> DEFINE rule0 == Allow({"file-write*"}, Granted(policy))
           granted == IF policy.grants = {} THEN <<>> ELSE <<rule0>>
<1>1. CommandProfile(policy) = (Body(policy) \o granted) \o Denies(policy)
  BY DEF CommandProfile
<1>2. rule0 \in Rules
  BY AllowType, PlacesNamed DEF Operations, WriteOps
<1>about. About(rule0, {"file-write*"}, Granted(policy))
  BY AllowsAbout
<1> HIDE DEF rule0
<1>3. granted \in Seq(Rules) /\ RulesOf(granted) \subseteq {rule0}
  BY <1>2, RulesListed, ShortSeqs
<1> HIDE DEF granted
<1>4. /\ Body(policy) \in Seq(Rules) /\ Denies(policy) \in Seq(Rules)
      /\ Body(policy) \o granted \in Seq(Rules)
  BY <1>3, BodyType, DenyRules
<1>5. RulesOf(CommandProfile(policy)) =
          (RulesOf(Body(policy)) \cup RulesOf(granted)) \cup RulesOf(Denies(policy))
  BY <1>1, <1>3, <1>4, RulesJoin, ZenonT(40)
<1> QED
  BY <1>about, <1>3, <1>5, DenyRules

(* Who may do something has a rule for it, and one for its class only if   *)
(* no rule names the operation itself.                                     *)
LEMMA AllowedByRule ==
    ASSUME NEW profile, NEW op, NEW path, Allows(profile, op, path)
    PROVE  \E rule \in RulesOf(profile) :
               /\ rule.allow /\ path \in rule.what
               /\ \/ op \in rule.ops
                  \/ /\ Class(op) \in rule.ops
                     /\ \A r \in RulesOf(profile) : path \in r.what => op \notin r.ops
  BY DEF Allows, LastAllows, Matching, RulesOf

(* The rules there are in either profile.                                  *)
LEMMA ProfileRules ==
    ASSUME NEW policy \in Policies,
           NEW profile \in {FloorProfile(policy), CommandProfile(policy)}
    PROVE  /\ Deny(ReadOps, Secrets(policy)) \in RulesOf(profile)
           /\ \A rule \in RulesOf(profile) : rule.allow =>
                \/ About(rule, {"process-fork", "process-exec"}, Paths)
                \/ About(rule, {"file-read*"}, Paths)
                \/ About(rule, {"file-write*"}, Writable(policy))
                \/ About(rule, {"network-outbound"}, {<<"tcp 443">>, <<"localhost">>})
                \/ About(rule, {"network-outbound"}, {GpgAgent(policy)})
                \/ /\ policy.ssh_agent # NoSock
                   /\ \/ About(rule, {"network-outbound"}, {policy.ssh_agent})
                      \/ About(rule, ReadOps, {KnownHosts(policy)})
                \/ /\ profile = FloorProfile(policy)
                   /\ \/ About(rule, {"process-exec no-sandbox"}, {policy.exit})
                      \/ About(rule, {"file-write*"}, Keychain(policy))
                      \/ About(rule, {"network-outbound"}, {policy.open_sock})
                \/ /\ profile = CommandProfile(policy)
                   /\ About(rule, {"file-write*"}, Granted(policy))
<1>1. Deny(ReadOps, Secrets(policy)) \in RulesOf(profile)
  BY BodyRules, FloorRules, CommandRules
<1>2. ASSUME NEW rule \in RulesOf(profile), rule.allow
      PROVE  \/ rule \in RulesOf(Body(policy))
             \/ profile = FloorProfile(policy) /\ rule \in RulesOf(Besides(policy))
             \/ /\ profile = CommandProfile(policy)
                /\ About(rule, {"file-write*"}, Granted(policy))
  BY <1>2, FloorRules, CommandRules
<1> QED
  BY <1>1, <1>2, BodyRules, BesidesRules

(* A rule that reads by its own name only opens known_hosts.               *)
LEMMA SecretsDenied ==
    ASSUME NEW policy \in Policies,
           NEW profile \in {FloorProfile(policy), CommandProfile(policy)},
           NEW op \in Reads, NEW path \in Secrets(policy), Allows(profile, op, path)
    PROVE  path = KnownHosts(policy) /\ policy.ssh_agent # NoSock
<1>1. PICK rule \in RulesOf(profile) :
          /\ rule.allow /\ path \in rule.what
          /\ \/ op \in rule.ops
             \/ \A r \in RulesOf(profile) : path \in r.what => op \notin r.ops
  BY AllowedByRule
<1>2. op \in {"file-read-data", "file-read-metadata"} /\ op \in ReadOps
  BY DEF Reads, ReadOps
<1>3. /\ Deny(ReadOps, Secrets(policy)).what = Secrets(policy)
      /\ Deny(ReadOps, Secrets(policy)).ops = ReadOps
  BY DEF Deny
<1>4. op \in rule.ops
  BY <1>1, <1>2, <1>3, ProfileRules
<1>5. About(rule, ReadOps, {KnownHosts(policy)}) /\ policy.ssh_agent # NoSock
  BY <1>1, <1>2, <1>4, ProfileRules DEF About
<1> QED
  BY <1>1, <1>5 DEF About

(* A write outside the fixed places is of a grant, in a command.           *)
LEMMA WritesGranted ==
    ASSUME NEW policy \in Policies,
           NEW profile \in {FloorProfile(policy), CommandProfile(policy)},
           NEW op \in Writes, NEW path, path \notin Writable(policy) \cup Keychain(policy),
           Allows(profile, op, path)
    PROVE  profile = CommandProfile(policy) /\ path \in Granted(policy)
<1>1. PICK rule \in RulesOf(profile) :
          rule.allow /\ path \in rule.what /\ (op \in rule.ops \/ Class(op) \in rule.ops)
  BY AllowedByRule
<1>2. {op, Class(op)} \subseteq WriteOps
  BY DEF Writes, Reads, ReadOps, WriteOps, Class
<1>3. rule.ops \cap WriteOps # {}
  BY <1>1, <1>2
<1>4. /\ rule.ops # {"process-fork", "process-exec"} /\ rule.ops # {"file-read*"}
      /\ rule.ops # ReadOps /\ rule.ops # {"network-outbound"}
      /\ rule.ops # {"process-exec no-sandbox"}
  BY <1>3 DEF WriteOps, ReadOps
<1> QED
  BY <1>1, <1>4, ProfileRules DEF About

(* A command has no way out.                                               *)
LEMMA NoWayOut ==
    ASSUME NEW policy \in Policies, NEW path
    PROVE  ~ Allows(CommandProfile(policy), "process-exec no-sandbox", path)
<1> DEFINE op == "process-exec no-sandbox"
<1> SUFFICES ASSUME Allows(CommandProfile(policy), op, path) PROVE FALSE
  OBVIOUS
<1>1. PICK rule \in RulesOf(CommandProfile(policy)) :
          rule.allow /\ (op \in rule.ops \/ Class(op) \in rule.ops)
  BY AllowedByRule
<1>2. Class(op) = op
  BY DEF Class, Reads, Writes, ReadOps, WriteOps
<1>3. op \in rule.ops
  BY <1>1, <1>2
<1>4. rule \in RulesOf(Body(policy)) \/ About(rule, {"file-write*"}, Granted(policy))
  BY <1>1, CommandRules
<1>5. /\ op \notin ReadOps /\ op \notin {"process-fork", "process-exec"}
      /\ op \notin {"file-read*"} /\ op \notin {"file-write*"}
      /\ op \notin {"network-outbound"}
  BY DEF ReadOps
<1> HIDE DEF op
<1>6. \/ rule.ops = {"process-fork", "process-exec"} \/ rule.ops = {"file-read*"}
      \/ rule.ops = {"file-write*"} \/ rule.ops = {"network-outbound"} \/ rule.ops = ReadOps
  BY <1>1, <1>4, BodyRules DEF About
<1> QED
  BY <1>3, <1>5, <1>6

LEMMA AfterBody ==
    ASSUME NEW S, NEW s \in Seq(S), NEW a \in S, NEW b \in S, NEW c \in S, NEW d \in S, NEW e \in S
    PROVE  LET q == (s \o <<a, b, c>>) \o <<d, e>>
               n == Len(s) + 1
           IN  /\ n \in DOMAIN q /\ q[n] = a
               /\ \A i \in DOMAIN q : i > n => q[i] \in {b, c, d, e}
<1> DEFINE t == s \o <<a, b, c>>
           q == t \o <<d, e>>
           n == Len(s) + 1
<1>1. /\ t \in Seq(S) /\ Len(s) \in Nat /\ Len(t) = Len(s) + 3
      /\ t[Len(s) + 1] = a /\ t[Len(s) + 2] = b /\ t[Len(s) + 3] = c
  OBVIOUS
<1> HIDE DEF t
<1>2. /\ q \in Seq(S) /\ Len(q) = Len(t) + 2 /\ q[Len(t) + 1] = d /\ q[Len(t) + 2] = e
      /\ \A i \in 1 .. Len(t) : q[i] = t[i]
  BY <1>1
<1> HIDE DEF q
<1>3. DOMAIN q = 1 .. Len(s) + 5
  BY <1>1, <1>2
<1>4. q[n] = a /\ q[n + 1] = b /\ q[n + 2] = c /\ q[n + 3] = d /\ q[n + 4] = e
  BY <1>1, <1>2, SMTT(30)
<1>5. ASSUME NEW i \in DOMAIN q, i > n PROVE i \in {n + 1, n + 2, n + 3, n + 4}
  BY <1>1, <1>3, <1>5
<1>6. n \in DOMAIN q
  BY <1>1, <1>3
<1> QED
  BY <1>4, <1>5, <1>6 DEF q, t

(* The floor has the way out, and no rule after it takes it back.          *)
LEMMA FloorLeaves ==
    ASSUME NEW policy \in Policies
    PROVE  Allows(FloorProfile(policy), "process-exec no-sandbox", policy.exit)
<1> DEFINE op == "process-exec no-sandbox"
           a == Allow({op}, {policy.exit})
           b == Allow({"file-write*"}, Keychain(policy))
           c == Allow({"network-outbound"}, {policy.open_sock})
           d == Deny(WriteOps, Records(policy))
           e == Deny(WriteOps, AgentConfigs(policy))
           profile == FloorProfile(policy)
<1>1. profile = (Body(policy) \o <<a, b, c>>) \o <<d, e>>
  BY DEF FloorProfile, Denies
<1>2. /\ a.allow /\ op \in a.ops /\ policy.exit \in a.what
      /\ op \notin b.ops /\ op \notin c.ops /\ op \notin d.ops /\ op \notin e.ops
  BY DEF Allow, Deny, WriteOps
<1>3. a \in Rules /\ b \in Rules /\ c \in Rules /\ d \in Rules /\ e \in Rules
  <2>1. policy.exit \in Places /\ policy.open_sock \in Places
    BY DEF Policies
  <2> QED
    BY <2>1, AllowType, PlacesNamed DEF Operations, WriteOps
<1> HIDE DEF a, b, c, d, e, profile, op
<1>4. PICK n \in DOMAIN profile :
          profile[n] = a /\ \A i \in DOMAIN profile : i > n => profile[i] \in {b, c, d, e}
  BY <1>1, <1>3, BodyType, AfterBody, ZenonT(40)
<1>5. n \in Matching(profile, op, policy.exit)
  BY <1>2, <1>4 DEF Matching
<1>6. profile \in Seq(Rules)
  BY ProfilesEnd DEF profile
<1>7. ASSUME NEW j \in Matching(profile, op, policy.exit) PROVE j <= n
  <2>1. j \in DOMAIN profile /\ op \in profile[j].ops
    BY DEF Matching
  <2>2. j \in Nat /\ n \in Nat
    BY <1>6, <2>1
  <2>3. ~ (j > n)
    BY <1>2, <1>4, <2>1
  <2> QED
    BY <2>2, <2>3
<1> QED
  BY <1>2, <1>4, <1>5, <1>7 DEF Allows, LastAllows, profile, op

(* The addresses and sockets either profile lets a process reach.          *)
LEMMA Reachable ==
    ASSUME NEW policy \in Policies,
           NEW profile \in {FloorProfile(policy), CommandProfile(policy)},
           NEW sock, Allows(profile, "network-outbound", sock)
    PROVE  \/ sock \in {<<"tcp 443">>, <<"localhost">>, GpgAgent(policy)}
           \/ policy.ssh_agent # NoSock /\ sock = policy.ssh_agent
           \/ profile = FloorProfile(policy) /\ sock = policy.open_sock
<1> DEFINE op == "network-outbound"
<1>1. PICK rule \in RulesOf(profile) :
          /\ rule.allow /\ sock \in rule.what
          /\ op \in rule.ops \/ Class(op) \in rule.ops
  BY AllowedByRule
<1>2. op \in rule.ops
  BY <1>1 DEF Class, Reads, Writes, ReadOps, WriteOps
<1>3. /\ op \notin ReadOps /\ op \notin {"process-fork", "process-exec"}
      /\ op \notin {"file-read*"} /\ op \notin {"file-write*"}
      /\ op \notin {"process-exec no-sandbox"}
  BY DEF ReadOps
<1> HIDE DEF op
<1> QED
  BY <1>1, <1>2, <1>3, ProfileRules DEF About

-----------------------------------------------------------------------------
(* What holds of a settled process.                                        *)

(* Its layout, the policy its profile is of, and that profile.             *)
LEMMA SettledHas ==
    ASSUME IInv, NEW p \in Procs, Settled(p)
    PROVE  LET layout == Layout[proc[p].run]
               policy == With(layout, proc[p].grants)
               profile == proc[p].profile
           IN  /\ proc[p].run \in Runs
               /\ \A op, path : May(p, op, path) <=> Allows(profile, op, path)
               /\ layout \in Policies /\ layout.grants = {}
               /\ policy \in Policies /\ policy.grants = proc[p].grants
               /\ Secrets(policy) = Secrets(layout) /\ KnownHosts(policy) = KnownHosts(layout)
               /\ Writable(policy) = Writable(layout) /\ Keychain(policy) = Keychain(layout)
               /\ GpgAgent(policy) = GpgAgent(layout)
               /\ policy.ssh_agent = layout.ssh_agent /\ policy.open_sock = layout.open_sock
               /\ policy.exit = layout.exit
               /\ FloorProfile(policy) = FloorProfile(layout)
               /\ \/ profile = FloorProfile(policy) /\ proc[p].grants = {}
                  \/ profile = CommandProfile(policy)
<1>1. proc[p].run \in Runs /\ ~ proc[p].free /\ Rendered(proc[p])
  BY DEF IInv, HeldToProfile
<1>2. proc[p].grants \in SUBSET Places
  BY SandboxAssumption DEF IInv, TypeInv, Processes
<1>3. \A op, path : May(p, op, path) <=> Allows(proc[p].profile, op, path)
  BY <1>1 DEF May
<1>4. Layout[proc[p].run].grants = {}
  BY <1>1, SandboxAssumption
<1>5. FloorProfile(With(Layout[proc[p].run], proc[p].grants)) = FloorProfile(Layout[proc[p].run])
  BY <1>1, <1>2, FloorIgnoresGrants
<1>6. \/ /\ proc[p].profile = FloorProfile(With(Layout[proc[p].run], proc[p].grants))
         /\ proc[p].grants = {}
      \/ proc[p].profile = CommandProfile(With(Layout[proc[p].run], proc[p].grants))
  BY <1>1, <1>5 DEF Rendered
<1> QED
  BY <1>1, <1>2, <1>3, <1>4, <1>5, <1>6, WithType

(* No settled process reads a credential or a key of the vault, but for    *)
(* known_hosts where there is an agent: the deny names the operation, so   *)
(* that the rule which opens reading is not even consulted.                *)
THEOREM SecretsStayUnread == Spec => []SecretsUnread
<1>1. IInv => SecretsUnread
  <2>1. SUFFICES ASSUME IInv, NEW p \in Procs, Settled(p), NEW op \in Reads,
                        NEW path \in Secrets(Layout[proc[p].run]), May(p, op, path)
                 PROVE  /\ path = KnownHosts(Layout[proc[p].run])
                        /\ Layout[proc[p].run].ssh_agent # NoSock
    BY DEF SecretsUnread
  <2> DEFINE layout == Layout[proc[p].run]
             policy == With(layout, proc[p].grants)
             profile == proc[p].profile
  <2>2. /\ policy \in Policies /\ profile \in {FloorProfile(policy), CommandProfile(policy)}
        /\ path \in Secrets(policy) /\ Allows(profile, op, path)
        /\ KnownHosts(policy) = KnownHosts(layout) /\ policy.ssh_agent = layout.ssh_agent
    BY <2>1, SettledHas
  <2> HIDE DEF policy, profile
  <2> QED
    BY <2>1, <2>2, SecretsDenied
<1> QED BY InitOk, StepOk, <1>1, PTL DEF Spec

(* Outside the fixed places a settled process writes only below what was   *)
(* granted when its command began, and such a process has no way out: the  *)
(* rules of the floor have no grants, those of a command no exit.          *)
THEOREM GrantsAreForCommands == Spec => []GrantsOnlyInCommands
<1>1. IInv => GrantsOnlyInCommands
  <2>1. SUFFICES ASSUME IInv, NEW p \in Procs, Settled(p), NEW op \in Writes,
                        NEW path \in Paths \ (Writable(Layout[proc[p].run])
                                                \cup Keychain(Layout[proc[p].run])),
                        May(p, op, path)
                 PROVE  /\ \E dir \in proc[p].grants : path \in Subpath(dir)
                        /\ ~ MayLeave(p)
    BY DEF GrantsOnlyInCommands
  <2> DEFINE layout == Layout[proc[p].run]
             policy == With(layout, proc[p].grants)
             profile == proc[p].profile
  <2>2. /\ policy \in Policies /\ profile \in {FloorProfile(policy), CommandProfile(policy)}
        /\ path \notin Writable(policy) \cup Keychain(policy) /\ Allows(profile, op, path)
        /\ policy.grants = proc[p].grants
    BY <2>1, SettledHas
  <2>3. \A what, to : May(p, what, to) <=> Allows(profile, what, to)
    BY <2>1, SettledHas
  <2> HIDE DEF policy, profile
  <2>4. profile = CommandProfile(policy) /\ path \in Granted(policy)
    BY <2>1, <2>2, WritesGranted
  <2>5. \E dir \in proc[p].grants : path \in Subpath(dir)
    BY <2>2, <2>4 DEF Granted
  <2>6. ~ MayLeave(p)
    BY <2>2, <2>3, <2>4, NoWayOut DEF MayLeave
  <2> QED
    BY <2>5, <2>6
<1> QED BY InitOk, StepOk, <1>1, PTL DEF Spec

-----------------------------------------------------------------------------
(* Whose sockets they are.                                                 *)

LEMMA TwoMore ==
    ASSUME NEW S, NEW s \in Seq(S), NEW t \in Seq(S), Len(t) = 2
    PROVE  Len(s \o t) = Len(s) + 2 /\ (s \o t)[Len(s) + 2] = t[2]
<1>1. Len(s) \in Nat
  OBVIOUS
<1>2. /\ Len(s \o t) = Len(s) + Len(t)
      /\ \A i \in 1 .. Len(s) + Len(t) :
             (s \o t)[i] = IF i <= Len(s) THEN s[i] ELSE t[i - Len(s)]
  BY ConcatProperties, Zenon
<1> DEFINE n == Len(s)
           q == s \o t
<1> HIDE DEF n, q
<1>3. n \in Nat /\ Len(q) = n + 2
  BY <1>1, <1>2 DEF n, q
<1>4. n + 2 \in 1 .. n + 2 /\ ~ (n + 2 <= n) /\ (n + 2) - n = 2
  BY <1>3
<1>5. q[n + 2] = t[2]
  BY <1>2, <1>4 DEF n, q
<1> QED
  BY <1>3, <1>5 DEF n, q

(* The last name of a socket says which of the two it is, the one before   *)
(* it the pid of its run.                                                  *)
LEMMA PathEnds ==
    ASSUME NEW home \in Places, NEW pid \in Names, NEW name \in Names
    PROVE  LET sock == (home \o <<".nd7", "sessions", pid>>) \o <<name>> IN
           /\ sock \in Places /\ Len(sock) = Len(home) + 4 /\ Len(home) \in Nat
           /\ sock[Len(sock)] = name /\ sock[Len(sock) - 1] = pid
<1>1. ".nd7" \in Names /\ "sessions" \in Names
  BY SocketAssumption
<1>2. <<".nd7", "sessions", pid>> \in Places /\ <<name>> \in Places
  BY <1>1, ShortSeqs DEF Places
<1> DEFINE dir == home \o <<".nd7", "sessions", pid>>
<1>3. dir \in Seq(Names) /\ Len(dir) = Len(home) + 3 /\ Len(home) \in Nat /\ dir[Len(dir)] = pid
  BY <1>2 DEF Places
<1> HIDE DEF dir
<1> DEFINE sock == dir \o <<name>>
<1>4. /\ sock \in Seq(Names) /\ Len(sock) = Len(dir) + 1
      /\ sock[Len(dir) + 1] = name /\ sock[Len(dir)] = dir[Len(dir)]
  BY <1>3
<1> HIDE DEF sock
<1>5. /\ Len(sock) = Len(home) + 4 /\ sock[Len(sock)] = name /\ sock[Len(sock) - 1] = pid
  BY <1>3, <1>4
<1> QED
  BY <1>3, <1>4, <1>5 DEF dir, sock, Places

LEMMA SocketsOfPid ==
    ASSUME NEW r \in Runs, NEW q \in Runs
    PROVE  /\ Layout[r].open_sock = Layout[q].open_sock => PidOf[r] = PidOf[q]
           /\ Layout[r].ssh_agent = Layout[q].ssh_agent /\ Layout[r].ssh_agent # NoSock
                  => PidOf[r] = PidOf[q]
           /\ Layout[r].open_sock # Layout[q].ssh_agent
           /\ \A sock \in {Layout[r].ssh_agent, Layout[r].open_sock} :
                  sock \notin {<<"tcp 443">>, <<"localhost">>, GpgAgent(Layout[q])}
<1> DEFINE Sock(run, name) == SessionDir(run) \o <<name>>
           SockNames == {"open.sock", "ssh.sock"}
<1>1. ASSUME NEW run \in Runs, NEW name \in SockNames
      PROVE  /\ Sock(run, name) \in Places /\ Len(Sock(run, name)) > 3
             /\ Len(Sock(run, name)) \in Nat
             /\ Sock(run, name)[Len(Sock(run, name))] = name
             /\ Sock(run, name)[Len(Sock(run, name)) - 1] = PidOf[run]
  <2>1. Layout[run].home \in Places /\ PidOf[run] \in Names /\ name \in Names
    BY SandboxAssumption, SocketAssumption DEF Policies
  <2> DEFINE home == Layout[run].home
             sock == (home \o <<".nd7", "sessions", PidOf[run]>>) \o <<name>>
  <2>2. Sock(run, name) = sock
    BY DEF SessionDir
  <2>3. /\ sock \in Places /\ Len(sock) = Len(home) + 4 /\ Len(home) \in Nat
        /\ sock[Len(sock)] = name /\ sock[Len(sock) - 1] = PidOf[run]
    BY <2>1, PathEnds
  <2> HIDE DEF sock, home
  <2>4. Len(sock) > 3 /\ Len(sock) \in Nat
    BY <2>3
  <2> HIDE DEF Sock
  <2> QED
    BY <2>2, <2>3, <2>4
<1>2. ASSUME NEW run \in Runs
      PROVE  /\ Layout[run].open_sock = Sock(run, "open.sock")
             /\ Layout[run].ssh_agent \in {NoSock, Sock(run, "ssh.sock")}
  BY SocketAssumption
<1>3. ASSUME NEW name \in SockNames PROVE NoSock # Sock(r, name) /\ NoSock # Sock(q, name)
  BY <1>1, PolicyAssumption
<1>4. /\ Len(<<"tcp 443">>) = 1 /\ Len(<<"localhost">>) = 1
      /\ <<"tcp 443">> \in Places /\ <<"localhost">> \in Places
  BY PolicyAssumption, ShortSeqs DEF Places
<1>5. /\ GpgAgent(Layout[q]) \in Places
      /\ GpgAgent(Layout[q])[Len(GpgAgent(Layout[q]))] = "S.gpg-agent.extra"
  <2>1. Layout[q].home \in Seq(Names) /\ Layout[q] \in Policies
    BY SandboxAssumption DEF Policies, Places
  <2> DEFINE home == Layout[q].home
             tail == <<".gnupg", "S.gpg-agent.extra">>
  <2>2. tail \in Seq(Names) /\ Len(tail) = 2 /\ tail[2] = "S.gpg-agent.extra"
    BY PolicyAssumption, ShortSeqs
  <2> HIDE DEF tail
  <2> HIDE DEF home
  <2>4. Len(home \o tail) = Len(home) + 2 /\ (home \o tail)[Len(home) + 2] = tail[2]
    <3>1. home \in Seq(Names)
      BY <2>1 DEF home
    <3> QED
      BY <2>2, <3>1, TwoMore
  <2>3. (home \o tail)[Len(home \o tail)] = "S.gpg-agent.extra"
    BY <2>2, <2>4
  <2> QED
    BY <2>1, <2>3, PlacesNamed DEF GpgAgent, tail, home
<1> HIDE DEF Sock, SockNames
<1>6. "open.sock" \in SockNames /\ "ssh.sock" \in SockNames
  BY DEF SockNames
<1>7. ASSUME NEW a \in SockNames, NEW b \in SockNames, Sock(r, a) = Sock(q, b)
      PROVE  a = b /\ PidOf[r] = PidOf[q]
  BY <1>1, <1>7
<1>8. ASSUME NEW a \in SockNames
      PROVE  Sock(r, a) \notin {<<"tcp 443">>, <<"localhost">>, GpgAgent(Layout[q])}
  <2>1. Sock(r, a) # <<"tcp 443">> /\ Sock(r, a) # <<"localhost">>
    <3>1. ASSUME NEW x, Len(x) = 1 PROVE Sock(r, a) # x
      BY <1>1, <3>1
    <3> QED
      BY <1>4, <3>1
  <2>2. a # "S.gpg-agent.extra"
    BY DEF SockNames
  <2>3. Sock(r, a) # GpgAgent(Layout[q])
    BY <1>1, <1>5, <2>2
  <2> QED
    BY <2>1, <2>3
<1>9. NoSock \notin {<<"tcp 443">>, <<"localhost">>, GpgAgent(Layout[q])}
  BY <1>4, <1>5, PolicyAssumption
<1> QED
  BY <1>2, <1>3, <1>6, <1>7, <1>8, <1>9

(* Two runs that are up never have one pid, and what lives was started.    *)
RunsInv ==
    /\ \A r, q \in Runs :
           stage[r] = "up" /\ stage[q] = "up" /\ PidOf[r] = PidOf[q] => r = q
    /\ \A p \in Procs : Live(p) => stage[proc[p].run] # "new"

LEMMA RunsInit == Init => RunsInv
  BY DEF Init, RunsInv, Live, Gone, Free

LEMMA RunsStep == IInv /\ RunsInv /\ [Next]_vars => RunsInv'
<1> SUFFICES ASSUME IInv, RunsInv, [Next]_vars PROVE RunsInv'
  OBVIOUS
<1>type. /\ stage \in [Runs -> {"new", "up", "over"}] /\ proc \in [Procs -> Processes]
         /\ \A p \in Procs : Live(p) => proc[p].run \in Runs
  BY DEF IInv, TypeInv
<1>1. ASSUME NEW r \in Runs, StartRun(r) PROVE RunsInv'
  <2>1. /\ stage' = [stage EXCEPT ![r] = "up"]
        /\ \A q \in Runs : stage[q] = "up" => PidOf[q] # PidOf[r]
    BY <1>1 DEF StartRun
  <2>2. \A p \in Procs : proc'[p] = proc[p] \/ proc'[p].run = r
    BY <1>1, <1>type DEF StartRun, Held
  <2>3. \A p \in Procs : Live(p)' => stage'[proc'[p].run] # "new"
    BY <1>type, <2>1, <2>2 DEF RunsInv, Live
  <2> QED
    BY <1>type, <2>1, <2>3 DEF RunsInv
<1>2. ASSUME NEW r \in Runs, EndRun(r) \/ KillRun(r) PROVE RunsInv'
  <2>1. stage' = [stage EXCEPT ![r] = "over"]
    BY <1>2 DEF EndRun, KillRun
  <2>2. \A p \in Procs : proc'[p] = proc[p] \/ proc'[p].program = "none"
    BY <1>2 DEF EndRun, KillRun, Gone, Free
  <2> QED
    BY <1>type, <2>1, <2>2 DEF RunsInv, Live
<1>3. ASSUME UNCHANGED stage,
             \A p \in Procs : Live(p)' =>
                 \E q \in Procs : Live(q) /\ proc'[p].run = proc[q].run
      PROVE  RunsInv'
  BY <1>3 DEF RunsInv
<1>4. ASSUME NEW r \in Runs, NEW dir \in Grantable, Grant(r, dir) PROVE RunsInv'
  BY <1>3, <1>4 DEF Grant, Live
<1>5. ASSUME NEW p \in Procs, ExecExit(p) \/ ApplyPolicy(p) \/ RefuseCommand(p) \/ Ends(p)
      PROVE  RunsInv'
  <2>1. UNCHANGED stage /\ Live(p)
    BY <1>5 DEF ExecExit, ApplyPolicy, RefuseCommand, Ends, Live
  <2>2. \A q \in Procs \ {p} : proc'[q] = proc[q]
    BY <1>5, <1>type DEF ExecExit, ApplyPolicy, RefuseCommand, Ends
  <2>3. proc'[p].run = proc[p].run \/ proc'[p].program = "none"
    BY <1>5, <1>type DEF ExecExit, ApplyPolicy, RefuseCommand, Ends, Free, Held, Gone
  <2> QED
    BY <1>3, <2>1, <2>2, <2>3 DEF Live
<1>6. ASSUME NEW p \in Procs, NEW c \in Procs, Fork(p, c) \/ Bash(p, c) PROVE RunsInv'
  <2>1. UNCHANGED stage /\ Live(p)
    BY <1>6 DEF Fork, Bash, Live
  <2>2. \A q \in Procs \ {c} : proc'[q] = proc[q]
    BY <1>6, <1>type DEF Fork, Bash
  <2>3. proc'[c].run = proc[p].run
    BY <1>6, <1>type DEF Fork, Bash, Free, Processes
  <2> QED
    BY <1>3, <2>1, <2>2, <2>3 DEF Live
<1>7. ASSUME UNCHANGED vars PROVE RunsInv'
  BY <1>7 DEF vars, RunsInv, Live
<1> QED
  BY <1>1, <1>2, <1>4, <1>5, <1>6, <1>7 DEF Next

(* Of the sockets some run serves, a settled process reaches those of its  *)
(* own run, or, once that is over, of one that has its pid; and the one    *)
(* that opens URLs only under the floor, which it may leave.               *)
THEOREM SocketsAreOwn == Spec => []SocketsOfOwnRun
<1>1. IInv /\ RunsInv => SocketsOfOwnRun
  <2>1. SUFFICES ASSUME IInv, RunsInv, NEW p \in Procs, Settled(p), NEW r \in Runs,
                        stage[r] = "up"
                 PROVE  /\ May(p, "network-outbound", Layout[r].ssh_agent)
                               => OwnOrHeir(r, proc[p].run)
                        /\ May(p, "network-outbound", Layout[r].open_sock)
                               => OwnOrHeir(r, proc[p].run) /\ MayLeave(p)
    BY DEF SocketsOfOwnRun
  <2> DEFINE run == proc[p].run
             layout == Layout[run]
             policy == With(layout, proc[p].grants)
             profile == proc[p].profile
  <2>2. /\ run \in Runs
        /\ policy \in Policies /\ profile \in {FloorProfile(policy), CommandProfile(policy)}
        /\ GpgAgent(policy) = GpgAgent(layout) /\ policy.ssh_agent = layout.ssh_agent
        /\ policy.open_sock = layout.open_sock /\ policy.exit = layout.exit
    BY <2>1, SettledHas
  <2>3. \A op, path : May(p, op, path) <=> Allows(profile, op, path)
    BY <2>1, SettledHas
  <2>4. PidOf[r] = PidOf[run] => OwnOrHeir(r, run)
    <3>1. stage[run] \in {"up", "over"}
      BY <2>1, <2>2 DEF RunsInv, Settled, IInv, TypeInv
    <3> QED
      BY <2>1, <2>2, <3>1 DEF RunsInv, OwnOrHeir
  <2> HIDE DEF policy, profile, run
  <2>5. ASSUME NEW sock, May(p, "network-outbound", sock)
        PROVE  \/ sock \in {<<"tcp 443">>, <<"localhost">>, GpgAgent(layout)}
               \/ layout.ssh_agent # NoSock /\ sock = layout.ssh_agent
               \/ profile = FloorProfile(policy) /\ sock = layout.open_sock
    BY <2>2, <2>3, <2>5, Reachable
  <2>6. profile = FloorProfile(policy) => MayLeave(p)
    BY <2>2, <2>3, FloorLeaves DEF MayLeave, run
  <2>7. May(p, "network-outbound", Layout[r].ssh_agent) => OwnOrHeir(r, run)
    BY <2>2, <2>4, <2>5, SocketsOfPid
  <2>8. May(p, "network-outbound", Layout[r].open_sock) => OwnOrHeir(r, run) /\ MayLeave(p)
    BY <2>2, <2>4, <2>5, <2>6, SocketsOfPid
  <2> QED
    BY <2>7, <2>8 DEF run
<1>2. Init => IInv /\ RunsInv
  BY InitOk, RunsInit
<1>3. (IInv /\ RunsInv) /\ [Next]_vars => (IInv /\ RunsInv)'
  BY StepOk, RunsStep
<1> QED
  BY <1>1, <1>2, <1>3, PTL DEF Spec
=============================================================================
