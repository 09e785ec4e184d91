---------------------------- MODULE AgentConfig ----------------------------
(***************************************************************************)
(* `nd7 init` (src/src/agent_config.rs, src/src/bin/nd7.rs): it adds nd7's *)
(* hooks to Claude Code's settings, which it reads and writes back whole,  *)
(* and to Codex's config.toml, which it reads and appends to, together     *)
(* with the approvals Codex would ask for; then it adds the line that      *)
(* loads its aliases to the shell's rc.  `nd7 run` reads both files to     *)
(* choose the flags it passes.                                             *)
(*                                                                         *)
(* Nobody takes a lock.  The user and the agents edit the same files:      *)
(* hooks come and go, and Codex records what its user approved.            *)
(*                                                                         *)
(* A Codex approval is keyed by the place of a hook among its event's      *)
(* tables and holds a hash of what was approved, here the hook's command.  *)
(* Two of the recorded events stand for all of them, and a group has one   *)
(* handler, as in what nd7 writes, or none.  `--project` is the same       *)
(* install on another settings file.                                       *)
(*                                                                         *)
(* The settings are written by write_atomic (src/src/session.rs): a        *)
(* temporary beside them, with one name for all inits, is emptied, filled  *)
(* and renamed.  An init that has it open when another renames it goes on  *)
(* writing to the settings themselves.                                     *)
(***************************************************************************)
EXTENDS Naturals, Sequences, FiniteSets, SequencesExt

CONSTANTS
    Inits,       \* nd7 init processes
    Binaries,    \* paths nd7 is installed at
    MaxInits,    \* bound: calls of nd7 init
    MaxMishaps   \* bound: edits of the files by their owners, and calls killed
                 \* or ended by a full disk

ASSUME AgentConfigAssumption ==
    MaxInits \in Nat /\ MaxMishaps \in Nat

Agents == {"claude", "codex"}
PreToolUse == "PreToolUse"
RecordEvents == <<"SessionStart", PreToolUse>>

NoBinary == "none"
Command(kind, nd7) == [kind |-> kind, nd7 |-> nd7]
Own == Command("own", NoBinary)
NoHash == Command("none", NoBinary)
CutHash == Command("cut", NoBinary)
Partial == {NoHash, CutHash}

(* What the two files consist of: a hook; in Codex's the approval of the   *)
(* hook at some place of an event, or a group that has no whole handler;   *)
(* and what no parser of the format takes.                                 *)
Hook(event, command) == [t |-> "hook", event |-> event, command |-> command, at |-> 0]
Trust(event, at, hash) == [t |-> "trust", event |-> event, command |-> hash, at |-> at]
Group(event) == [t |-> "group", event |-> event, command |-> NoHash, at |-> 0]
Torn == [t |-> "torn", event |-> PreToolUse, command |-> NoHash, at |-> 0]

VARIABLES
    settings,  \* ~/.claude/settings.json: its hooks, in file order
    config,    \* ~/.codex/config.toml: its tables, in file order
    rc,        \* lines of the shell's rc that load it
    tmp,       \* what settings.json.tmp holds, if there is one
    init,      \* what each nd7 init holds in memory
    open,      \* what each has open for writing, by the name it has now
    mixed,     \* inits another of which had the same file open
    (* History. *)
    own,       \* events the user has a Claude hook of his own for
    settled,   \* the nd7 whose init was the last to touch the files
    overlap,   \* two inits have run at once
    shared,    \* two inits have had the temporary open at once
    raced,     \* a file was edited while an init ran
    cut,       \* an append was cut off
    moved,     \* an edit left an approval at the place of another hook
    starts, edits, failures

files == <<settings, config, rc>>
writing == <<tmp, open, mixed>>
history == <<own, settled, overlap, shared, raced, cut, moved>>
vars == <<files, writing, init, history, starts, edits, failures>>

Off == [stage |-> "off", nd7 |-> NoBinary, agents |-> {}, text |-> <<>>, sourced |-> FALSE]

Init ==
    /\ settings = <<>> /\ config = <<>> /\ rc = 0
    /\ tmp = {} /\ open = [p \in Inits |-> "none"] /\ mixed = {}
    /\ init = [p \in Inits |-> Off]
    /\ own = {} /\ settled = NoBinary
    /\ overlap = FALSE /\ shared = FALSE /\ raced = FALSE /\ cut = FALSE /\ moved = FALSE
    /\ starts = 0 /\ edits = 0 /\ failures = 0

-----------------------------------------------------------------------------
(* A text at some of its positions, in order.                              *)
Nth(I, k) == CHOOSE i \in I : Cardinality({j \in I : j <= i}) = k
Only(text, I) == [k \in 1 .. Cardinality(I) |-> text[Nth(I, k)]]

(* Reading config.toml.                                                    *)

Hooks(text) == {i \in DOMAIN text : text[i].t = "hook"}
Groups(text) == {i \in DOMAIN text : text[i].t \in {"hook", "group"}}
Trusts(text) == {i \in DOMAIN text : text[i].t = "trust"}

(* codex_hook_tables: the place of a hook among its event's groups.        *)
Place(text, i) == Cardinality({j \in Groups(text) : j < i /\ text[j].event = text[i].event})

(* codex_trust_keys_present: only tables that do hold a hash, or the       *)
(* beginning of one.                                                       *)
KeysPresent(text) ==
    {<<text[i].event, text[i].at>> : i \in {j \in Trusts(text) : text[j].command # NoHash}}
Key(text, i) == <<text[i].event, Place(text, i)>>

Ours(text, nd7) ==
    {i \in Hooks(text) : text[i].command.kind # "own" /\ text[i].command.nd7 = nd7}

(* codex_has_hook and codex_hooks_trusted: what `nd7 run` asks.            *)
HasHook(text, nd7) == \E i \in Hooks(text) : text[i] = Hook(PreToolUse, Command("prefix", nd7))
HooksTrusted(text, nd7) ==
    /\ Ours(text, nd7) # {}
    /\ \A i \in Ours(text, nd7) : Key(text, i) \in KeysPresent(text)

(* Codex itself: a hook runs without asking when what is recorded at its   *)
(* place is its own hash; it refuses a file that is no TOML, as one with a *)
(* hash that is cut off is not, and one that gives a table twice.          *)
Approved(text, i) ==
    \E j \in Trusts(text) : text[j] = Trust(text[i].event, Place(text, i), text[i].command)
Readable(text) == \A i \in DOMAIN text : text[i].t # "torn" /\ text[i].command # CutHash
Valid(text) ==
    \A i, j \in Trusts(text) :
        text[i].event = text[j].event /\ text[i].at = text[j].at => i = j

(* An approval at the place of a hook it was not given for, or of none.    *)
Stale(text) ==
    \E j \in Trusts(text) :
        /\ text[j].command \notin Partial
        /\ ~ \E i \in Hooks(text) : Approved(text, i) /\ Key(text, i) = <<text[j].event, text[j].at>>

-----------------------------------------------------------------------------
(* What an install adds.                                                   *)

Prefix(nd7) == Hook(PreToolUse, Command("prefix", nd7))
Record(event, nd7) == Hook(event, Command("record", nd7))

(* Slip: a hook counts as installed only under the same path.              *)
InstalledSamePath(text, hook) == \E i \in Hooks(text) : text[i] = hook
(* A hook of the same kind counts, whichever nd7 wrote it.                 *)
Installed(text, hook) ==
    \E i \in Hooks(text) : /\ text[i].event = hook.event
                           /\ text[i].command.kind = hook.command.kind

Missing(text, wanted) ==
    Only(wanted, {k \in DOMAIN wanted : ~ Installed(text, wanted[k])})

Records(nd7) == [k \in DOMAIN RecordEvents |-> Record(RecordEvents[k], nd7)]
CodexHooks(text, nd7) == Missing(text, <<Prefix(nd7)>> \o Records(nd7))
ClaudeHooks(text, nd7) == Missing(text, Records(nd7) \o <<Prefix(nd7)>>)

(* Slip: the places are those of the new tables among themselves.          *)
TrustEntriesFromZero(text, add, nd7) ==
    [k \in DOMAIN add |-> Trust(add[k].event, Place(add, k), add[k].command)]
(* Slip: an approval is written again although there is one.               *)
TrustEntriesAgain(text, add, nd7) ==
    LET all == text \o add
    IN [k \in 1 .. Cardinality(Ours(all, nd7)) |->
           LET i == Nth(Ours(all, nd7), k)
           IN Trust(all[i].event, Place(all, i), all[i].command)]
(* codex_trust_entries: for every hook of this nd7 in the file to be, the  *)
(* installed ones too, unless its place has an approval already.           *)
TrustEntries(text, add, nd7) ==
    LET all == text \o add
        lacking == {i \in Ours(all, nd7) : Key(all, i) \notin KeysPresent(all)}
    IN [k \in 1 .. Cardinality(lacking) |->
           LET i == Nth(lacking, k)
           IN Trust(all[i].event, Place(all, i), all[i].command)]

Addition(text, nd7) ==
    LET add == CodexHooks(text, nd7) IN add \o TrustEntries(text, add, nd7)

-----------------------------------------------------------------------------
(* nd7 init, one file after another.                                       *)

Active == {p \in Inits : init[p].stage # "off"}

(* The next file, with what was read of the last one dropped.              *)
Goto(p, stage) == init' = [init EXCEPT ![p].stage = stage, ![p].text = <<>>]

(* The agents are the named one, or those with a directory of their own.   *)
StartInit(p) ==
    /\ init[p].stage = "off" /\ starts < MaxInits
    /\ starts' = starts + 1
    /\ \E nd7 \in Binaries, agents \in SUBSET Agents \ {{}} :
           init' = [init EXCEPT ![p] =
               [Off EXCEPT !.nd7 = nd7, !.agents = agents,
                           !.stage = IF "claude" \in agents THEN "read settings"
                                     ELSE "read config"]]
    /\ overlap' = (overlap \/ Active # {})
    /\ UNCHANGED <<files, writing, own, settled, shared, raced, cut, moved, edits, failures>>

(* A missing or empty file is one without hooks; one that does not parse   *)
(* ends the call.                                                          *)
ReadSettings(p) ==
    /\ init[p].stage = "read settings"
    /\ init' = IF Readable(settings)
               THEN [init EXCEPT ![p].text = settings, ![p].stage = "write settings"]
               ELSE [init EXCEPT ![p] = Off]
    /\ UNCHANGED <<files, writing, history, starts, edits, failures>>

AfterSettings(p) == IF "codex" \in init[p].agents THEN "read config" ELSE "read rc"

NothingMissing(p) ==
    /\ init[p].stage = "write settings" /\ ClaudeHooks(init[p].text, init[p].nd7) = <<>>
    /\ Goto(p, AfterSettings(p))
    /\ UNCHANGED <<files, writing, history, starts, edits, failures>>

(* write_atomic, of the whole file, and only when something is missing:    *)
(* the temporary is created, or emptied.                                   *)
Sharing(p) == {q \in Inits \ {p} : open[q] = "tmp"}
BeginWrite(p) ==
    /\ init[p].stage = "write settings" /\ ClaudeHooks(init[p].text, init[p].nd7) # <<>>
    /\ init' = [init EXCEPT ![p].stage = "fill settings"]
    /\ mixed' = IF Sharing(p) = {} THEN mixed ELSE mixed \cup Sharing(p) \cup {p}
    /\ shared' = (shared \/ Sharing(p) # {})
    /\ UNCHANGED <<config, rc, own, settled, overlap, raced, cut, moved, starts, edits, failures>>
(* Slip: it is the file itself that is emptied and filled.                 *)
OpenInPlace(p) ==
    /\ BeginWrite(p)
    /\ settings' = <<>> /\ open' = [open EXCEPT ![p] = "name"]
    /\ UNCHANGED tmp
OpenTmp(p) ==
    /\ BeginWrite(p)
    /\ tmp' = {<<>>} /\ open' = [open EXCEPT ![p] = "tmp"]
    /\ UNCHANGED settings

(* What an init writes lands in the file it has open: the temporary, the   *)
(* settings, or one that has no name any more.                             *)
Put(p, text) ==
    /\ tmp' = IF open[p] = "tmp" THEN {text} ELSE tmp
    /\ settings' = IF open[p] = "name" THEN text ELSE settings

(* Some of it has landed; a full disk leaves it at that (KillInit).        *)
FillPart(p) ==
    /\ init[p].stage = "fill settings"
    /\ Put(p, <<Torn>>)
    /\ UNCHANGED <<config, rc, open, mixed, init, history, starts, edits, failures>>

(* All of it has.  Bytes of another init's may stand among it, or behind.  *)
NewSettings(p) == init[p].text \o ClaudeHooks(init[p].text, init[p].nd7)
FillTmp(p) ==
    /\ init[p].stage = "fill settings"
    /\ \/ Put(p, NewSettings(p))
       \/ p \in mixed /\ Put(p, <<Torn>>)
    /\ init' = [init EXCEPT ![p].stage = "rename settings"]
    /\ UNCHANGED <<config, rc, open, mixed, history, starts, edits, failures>>

(* The temporary takes the name of the settings, for whoever has it open.  *)
Renamed(name) == CASE name = "tmp" -> "name" [] name = "name" -> "gone" [] OTHER -> name
RenameTmp(p) ==
    /\ init[p].stage = "rename settings"
    /\ settings' \in tmp /\ tmp' = {}
    /\ open' = [q \in Inits |-> IF q = p THEN "none" ELSE Renamed(open[q])]
    /\ mixed' = mixed \ {p}
    /\ Goto(p, AfterSettings(p))
    /\ UNCHANGED <<config, rc, history, starts, edits, failures>>

(* An edit or a failure, of those there may be.                            *)
Mishap == edits + failures < MaxMishaps

(* The call is over, and what it had open is closed.                       *)
End(p) ==
    /\ init' = [init EXCEPT ![p] = Off]
    /\ open' = [open EXCEPT ![p] = "none"] /\ mixed' = mixed \ {p}

(* Another init has renamed it.                                            *)
RenameFails(p) ==
    /\ init[p].stage = "rename settings" /\ tmp = {}
    /\ End(p)
    /\ UNCHANGED <<files, tmp, history, starts, edits, failures>>

ReadConfig(p) ==
    /\ init[p].stage = "read config"
    /\ init' = [init EXCEPT ![p].text = config, ![p].stage = "append config"]
    /\ UNCHANGED <<files, writing, history, starts, edits, failures>>

AppendConfig(p) ==
    /\ init[p].stage = "append config"
    /\ config' = config \o Addition(init[p].text, init[p].nd7)
    /\ Goto(p, "read rc")
    /\ UNCHANGED <<settings, rc, writing, history, starts, edits, failures>>

(* What is left of a table that is cut off anywhere, as nd7 reads it.  Of  *)
(* a hook: nothing, a group, or the hook, when only the line with its      *)
(* timeout is cut.  Of an approval: nothing, the table without its hash,   *)
(* or with the beginning of it.  The line the cut is in may be no TOML.    *)
Remains(table) ==
    {<<>>, <<Torn>>} \cup
    IF table.t = "hook"
    THEN {<<Group(table.event)>>, <<Group(table.event), Torn>>, <<table, Torn>>}
    ELSE LET With(hash) == [table EXCEPT !.command = hash]
         IN {<<With(NoHash)>>, <<With(NoHash), Torn>>, <<With(CutHash)>>}

(* A full disk, or a kill between two writes: some of the tables land, and *)
(* some of the next one.                                                   *)
AppendCutOff(p) ==
    /\ init[p].stage = "append config" /\ Mishap
    /\ LET add == Addition(init[p].text, init[p].nd7) IN
       \E n \in DOMAIN add : \E rest \in Remains(add[n]) :
           config' = config \o SubSeq(add, 1, n - 1) \o rest
    /\ failures' = failures + 1 /\ cut' = TRUE
    /\ settled' = NoBinary
    /\ init' = [init EXCEPT ![p] = Off]
    /\ UNCHANGED <<settings, rc, writing, own, overlap, shared, raced, moved, starts, edits>>

(* source_aliases; with --no-alias the call ends before it.                *)
ReadRc(p) ==
    /\ init[p].stage = "read rc"
    /\ init' = [init EXCEPT ![p].sourced = rc > 0, ![p].stage = "append rc"]
    /\ UNCHANGED <<files, writing, history, starts, edits, failures>>

(* The call is over.  Only one for both agents that ran by itself settles  *)
(* the files.                                                              *)
AppendRc(p) ==
    /\ init[p].stage = "append rc"
    /\ rc' = IF init[p].sourced THEN rc ELSE rc + 1
    /\ settled' = IF init[p].agents = Agents /\ ~ overlap /\ ~ raced
                  THEN init[p].nd7 ELSE settled
    /\ init' = [init EXCEPT ![p] = Off]
    /\ UNCHANGED <<settings, config, writing, own, overlap, shared, raced, cut, moved,
                   starts, edits, failures>>

KillInit(p) ==
    /\ init[p].stage # "off" /\ Mishap
    /\ failures' = failures + 1
    /\ End(p)
    /\ UNCHANGED <<files, tmp, history, starts, edits>>

-----------------------------------------------------------------------------
(* The files' owners.                                                      *)

Edit ==
    /\ Mishap /\ edits' = edits + 1
    /\ settled' = NoBinary
    /\ raced' = (raced \/ Active # {})
    /\ UNCHANGED <<rc, writing, init, overlap, shared, cut, starts, failures>>

EditSettings ==
    /\ Edit
    /\ \/ \E e \in ToSet(RecordEvents) \ own :
              settings' = Append(settings, Hook(e, Own)) /\ own' = own \cup {e}
       \/ \E i \in DOMAIN settings :
              /\ settings' = RemoveAt(settings, i)
              /\ own' = IF settings[i].command = Own THEN own \ {settings[i].event} ELSE own
    /\ UNCHANGED <<config, moved>>

(* A hook is put first or last; anything is taken out.                     *)
EditConfig ==
    /\ Edit
    /\ \/ \E e \in ToSet(RecordEvents) :
              \/ config' = <<Hook(e, Own)>> \o config
              \/ config' = Append(config, Hook(e, Own))
       \/ \E i \in DOMAIN config : config' = RemoveAt(config, i)
    /\ moved' = (moved \/ Stale(config'))
    /\ UNCHANGED <<settings, own>>

(* Codex rewrites the file, if it can read it, with the approval its user  *)
(* gave.                                                                   *)
ApproveHook ==
    /\ Edit /\ Valid(config) /\ Readable(config)
    /\ \E i \in Hooks(config) :
           LET approval == Trust(config[i].event, Place(config, i), config[i].command)
               others == Only(config, {j \in DOMAIN config :
                             ~ (config[j].t = "trust" /\ config[j].event = approval.event
                                /\ config[j].at = approval.at)})
           IN ~ Approved(config, i) /\ config' = Append(others, approval)
    /\ UNCHANGED <<settings, own, moved>>

-----------------------------------------------------------------------------
InitStep(p) ==
    \/ StartInit(p) \/ ReadSettings(p) \/ NothingMissing(p) \/ OpenTmp(p)
    \/ FillPart(p) \/ FillTmp(p) \/ RenameTmp(p) \/ RenameFails(p)
    \/ ReadConfig(p) \/ AppendConfig(p) \/ AppendCutOff(p) \/ ReadRc(p) \/ AppendRc(p) \/ KillInit(p)

Next ==
    \/ \E p \in Inits : InitStep(p)
    \/ EditSettings \/ EditConfig \/ ApproveHook

Spec == Init /\ [][Next]_vars

-----------------------------------------------------------------------------
(* Properties.                                                             *)

(* No table is ever given twice, which Codex would refuse to read          *)
(* (install_codex: "appending is the one edit that cannot disturb what is  *)
(* already in it"), unless two inits ran at once, one was cut off in the   *)
(* middle of a table, or Codex wrote the file while one ran.               *)
NoDuplicateTables == overlap \/ raced \/ cut \/ Valid(config)

(* nd7 has one hook of each kind for an event, and one line in the rc,     *)
(* after any number of calls by any number of checkouts, killed or not     *)
(* ("a second hook running another checkout's nd7 would record every event *)
(* twice"), unless two ran at once.                                        *)
Once(text) ==
    \A i, j \in Hooks(text) :
        text[i].event = text[j].event /\ text[i].command.kind = text[j].command.kind
            => i = j \/ text[i].command = Own
OneHookEach == overlap \/ raced \/ (Once(settings) /\ Once(config) /\ rc <= 1)

(* A call by the nd7 that settled the files adds nothing (README.md:       *)
(* "writes nothing on a second run").                                      *)
SecondInitWritesNothing ==
    [][\A p \in Inits :
           settled # NoBinary /\ init[p].nd7 = settled /\ ~ overlap
               => /\ AppendConfig(p) => UNCHANGED config
                  /\ ~ OpenTmp(p)]_vars

(* A hook the user has in Claude's settings is there until he takes it out *)
(* ("everything already in it is kept"), at every moment, whichever inits  *)
(* overlap and wherever they are killed, unless he edits them while one    *)
(* has them read, or two have the one temporary open at once: then one may *)
(* rename what the other has just emptied.                                 *)
OwnHooksKept ==
    raced \/ shared \/ \A e \in own : \E i \in DOMAIN settings : settings[i] = Hook(e, Own)

(* When `nd7 run` passes neither its hook nor the flag that skips trust,   *)
(* and Codex can read the file, Codex runs every one of nd7's hooks        *)
(* without asking: the places nd7 finds approvals at are the approvals of  *)
(* those very hooks, unless an edit moved a hook away from under one.  A   *)
(* file Codex cannot read is left to it: nd7 takes the beginning of a hash *)
(* for an approval.                                                        *)
TrustedIsApprovedUnlessMoved ==
    Readable(config) /\ ~ (moved \/ raced \/ overlap) =>
        \A nd7 \in Binaries :
            HasHook(config, nd7) /\ HooksTrusted(config, nd7)
                => \A i \in Ours(config, nd7) : Approved(config, i)

(* nd7 init prints, of Codex, "the hooks are recorded as approved, so      *)
(* Codex does not ask about them at its next start".                       *)
InitApproves == settled # NoBinary => \A i \in Ours(config, settled) : Approved(config, i)
=============================================================================
