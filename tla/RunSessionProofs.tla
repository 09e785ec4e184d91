-------------------------- MODULE RunSessionProofs --------------------------
(***************************************************************************)
(* What RunSession promises for every number of runs, terminals, pids and  *)
(* kills.  The invariant is about one directory at a time: as long as no   *)
(* two processes worked on it at once, who is at work on it knows what it  *)
(* holds (Settled), and what it holds is what its run, its terminals and   *)
(* its commands take it for.  A clash is forgotten only with the directory *)
(* and everybody who knew of it, and then all of that holds again.         *)
(***************************************************************************)
EXTENDS RunSession, TLAPS

Slots == {"name", "tmp"}
Contents == {NoFile, Empty, Mixed} \cup {Policy(i, gs) : i \in Runs, gs \in SUBSET Paths}
RunStates ==
    [stage : {"new", "sweep", "swept", "write", "running", "drop", "dropped", "over"},
     pid : Pids \cup {NoPid}, agent : Pids \cup {OtherPid, NoPid}, todo : SUBSET Pids,
     target : Pids \cup {NoPid}, left : SUBSET (Files \X Slots)]
WriterStates ==
    [stage : {"idle", "mkdir", "open", "write", "rename", "done"}, pid : Pids \cup {NoPid},
     file : Files, fd : {"none", "tmp", "name", "gone"}, policy : Contents]
CallStates == [verb : {"none", "allow", "deny"}, path : SUBSET Paths]
CommandStates ==
    [stage : {"off", "found"}, run : Runs \cup {NoRun}, at : Pids \cup {NoPid}]

TypeInv ==
    /\ dir \in [Pids -> BOOLEAN]
    /\ file \in [Pids -> [Files -> [name : Contents, tmp : Contents]]]
    /\ run \in [Runs -> RunStates]
    /\ writer \in [Writers -> WriterStates]
    /\ call \in [Granters -> CallStates]
    /\ cmd \in CommandStates
    /\ promise \in [Runs -> [Paths -> {"denied", "allowed", "unknown"}]]
    /\ clash \in SUBSET Pids /\ broken \in SUBSET Pids
    /\ calls \in Nat /\ deaths \in Nat

-----------------------------------------------------------------------------
(* Where a run and a writer are.                                           *)

Sweeping == {"sweep", "swept"}
InPlace == {"write", "running", "drop", "dropped"}

RunShape(i) ==
    /\ run[i].stage = "new" => run[i] = NotStarted
    /\ run[i].stage = "over" => /\ run[i].pid = NoPid /\ run[i].target = NoPid
                                /\ run[i].todo = {}
    /\ run[i].stage \notin Ended => run[i].pid \in Pids
    /\ run[i].stage \in Sweeping =>
           run[i].target # run[i].pid /\ run[i].target \notin run[i].todo
    /\ run[i].stage = "swept" => run[i].target \in Pids
    /\ run[i].stage \in InPlace => run[i].todo = {}
    /\ run[i].stage \in {"write", "running"} => run[i].target = NoPid
    /\ run[i].stage \in {"drop", "dropped"} => run[i].target = run[i].pid
    /\ run[i].agent # NoPid => run[i].stage \in {"running", "over"}
OnePid == \A i, j \in Runs : run[i].pid = run[j].pid /\ run[i].pid # NoPid => i = j

WriterShape(w) ==
    /\ writer[w].stage = "idle" => writer[w] = Idle
    /\ writer[w].stage # "idle" => writer[w].pid \in Pids /\ writer[w].policy.kind = "whole"
    /\ writer[w].stage = "write" =>
           /\ writer[w].fd # "none"
           /\ writer[w].fd # "gone" =>
                  file[writer[w].pid][writer[w].file][writer[w].fd] # NoFile
    /\ w \in Runs =>
           /\ writer[w].stage # "idle" <=> run[w].stage = "write"
           /\ writer[w].stage # "idle" =>
                  writer[w].pid = run[w].pid /\ writer[w].policy = Policy(w, {})
    /\ w \in Granters =>
           /\ writer[w].stage # "idle" <=> call[w] # NoCall
           /\ call[w] # NoCall =>
                  /\ call[w].verb # "none"
                  /\ \A x \in call[w].path :
                         x \in writer[w].policy.grants <=> call[w].verb = "allow"

(* A directory that is not there holds nothing.                            *)
Bare == \A p \in Pids : ~ dir[p] => \A f \in Files, k \in Slots : file[p][f][k] = NoFile

(* The policy of a run that has not ended is in its own directory alone,   *)
(* and nowhere before it writes it.                                        *)
AllDenied(i) == \A x \in Paths : promise[i][x] = "denied"
Home(i) ==
    /\ run[i].stage \notin Ended =>
           /\ \A p \in Pids, f \in Files, k \in Slots :
                  file[p][f][k].run = i => p = run[i].pid
           /\ \A w \in Writers : writer[w].policy.run = i => writer[w].pid = run[i].pid
    /\ run[i].stage \in {"new"} \cup Sweeping =>
           /\ AllDenied(i)
           /\ \A p \in Pids, f \in Files, k \in Slots : file[p][f][k].run # i
           /\ \A w \in Writers : writer[w].policy.run # i
    /\ run[i].stage = "write" /\ run[i].pid \notin clash => AllDenied(i)

-----------------------------------------------------------------------------
(* A directory that is in no clash.                                        *)

(* Who works on it, means to, or holds its pid with it, has it.            *)
There(p) ==
    \/ \E i \in Runs : \/ run[i].target = p \/ p \in run[i].todo
                       \/ run[i].pid = p /\ run[i].stage \in InPlace
    \/ \E w \in Writers : writer[w].pid = p
    => dir[p]
(* What is swept is nobody's.                                              *)
Unheld(p) ==
    \A i \in Runs : run[i].stage \in Sweeping /\ run[i].target = p =>
        \A j \in Runs : run[j].pid # p
Listed(p) ==
    \A i \in Runs : run[i].stage \in {"swept", "dropped"} /\ run[i].target = p =>
        run[i].left = Names(p)
Clean(p) ==
    \A f \in Files : /\ file[p][f].name.kind \in {"none", "whole"}
                     /\ file[p][f].tmp.kind # "mixed"

(* What its writer has done so far.                                        *)
Finished(p, f, policy) == file[p][f] = [name |-> policy, tmp |-> NoFile]
Written(p) ==
    \A w \in Writers : writer[w].pid = p =>
        /\ writer[w].stage = "write" =>
               writer[w].fd = "tmp" /\ file[p][writer[w].file].tmp = Empty
        /\ writer[w].stage = "rename" => file[p][writer[w].file].tmp = writer[w].policy
        /\ writer[w].file = "policy" => Finished(p, "record", writer[w].policy)
        /\ writer[w].stage = "done" /\ (w \in Runs \/ p \notin broken) =>
               /\ Finished(p, "record", writer[w].policy)
               /\ Finished(p, "policy", writer[w].policy)

(* Nobody died in it, and nobody is writing or removing it.                *)
Calm(p) ==
    /\ p \notin broken /\ dir[p]
    /\ \A w \in Writers : writer[w].pid # p
    /\ \A i \in Runs : run[i].target # p
Same(p) ==
    Calm(p) => file[p]["record"] = file[p]["policy"] /\ file[p]["record"].tmp = NoFile

(* The files of a running session are its run's.                           *)
Theirs(p) ==
    \A i \in Runs : run[i].stage = "running" /\ run[i].pid = p =>
        /\ \A f \in Files : file[p][f].name.run = i
        /\ \A w \in Writers : writer[w].pid = p => writer[w].policy.run = i

Keeps(i, gs) ==
    \A x \in Paths : /\ promise[i][x] = "allowed" => x \in gs
                     /\ promise[i][x] = "denied" => x \notin gs
Kept(p) ==
    \A i \in Runs : run[i].stage = "running" /\ run[i].pid = p /\ p \notin broken =>
        /\ Keeps(i, file[p]["policy"].name.grants)
        /\ \A g \in Granters : writer[g].pid = p =>
               /\ Keeps(i, writer[g].policy.grants)
               /\ \A x \in call[g].path : promise[i][x] = "unknown"

(* A command that found it finds its own run's files in it.                *)
Found(p) ==
    cmd.at = p =>
        /\ cmd.run \in Runs
        /\ \A f \in Files : file[p][f].name = NoFile \/ file[p][f].name.run = cmd.run
        /\ \A w \in Writers : writer[w].pid = p => writer[w].policy.run = cmd.run

(* Without a death, it is some run's.                                      *)
HasRun(p) ==
    deaths = 0 /\ dir[p] => \E i \in Runs : run[i].pid = p /\ run[i].stage \in InPlace

Settled(p) ==
    /\ There(p) /\ Unheld(p) /\ Listed(p) /\ Clean(p) /\ Written(p)
    /\ Same(p) /\ Theirs(p) /\ Kept(p) /\ Found(p) /\ HasRun(p)

Base ==
    /\ \A i \in Runs : RunShape(i)
    /\ OnePid
    /\ \A w \in Writers : WriterShape(w)
    /\ Bare
    /\ \A i \in Runs : Home(i)

IInv ==
    /\ TypeInv /\ Base
    /\ \A p \in Pids \ clash : ~ Clashes(p) /\ Settled(p)

-----------------------------------------------------------------------------
(* What each step does, field by field.                                    *)

OthersRun(i) == \A j \in Runs \ {i} : run'[j] = run[j]
OthersWrite(w) == \A v \in Writers \ {w} : writer'[v] = writer[v]

LEMMA Sets ==
    /\ "record" \in Files /\ "policy" \in Files
    /\ NoFile \in Contents /\ Empty \in Contents /\ Mixed \in Contents
    /\ Idle \in WriterStates /\ NotStarted \in RunStates /\ NoCall \in CallStates
    /\ NoCommand \in CommandStates
    /\ \A i \in Runs, gs \in SUBSET Paths : Policy(i, gs) \in Contents
    /\ \A i \in Runs : i \in Writers
    /\ \A g \in Granters : g \in Writers /\ g \notin Runs
<1>1. NoFile \in Contents /\ Empty \in Contents /\ Mixed \in Contents
      /\ \A i \in Runs, gs \in SUBSET Paths : Policy(i, gs) \in Contents
  BY DEF Contents
<1>2. Idle \in WriterStates
  BY <1>1 DEF Idle, WriterStates, Files
<1>3. NotStarted \in RunStates /\ NoCall \in CallStates /\ NoCommand \in CommandStates
  BY DEF NotStarted, RunStates, NoCall, CallStates, NoCommand, CommandStates
<1>4. \A g \in Granters : g \in Writers /\ g \notin Runs
  BY RunSessionAssumption DEF Writers
<1> QED
  BY <1>1, <1>2, <1>3, <1>4 DEF Files, Writers

(* What a file can hold, and whose it is.                                  *)
LEMMA Kinds ==
    /\ \A c \in Contents : c.kind = "none" <=> c = NoFile
    /\ \A c \in Contents : c.kind = "empty" <=> c = Empty
    /\ \A c \in Contents : c.kind = "mixed" <=> c = Mixed
    /\ \A c \in Contents : c.kind = "whole" <=> c.run \in Runs
    /\ \A c \in Contents : c.kind = "whole" => c = Policy(c.run, c.grants)
    /\ \A c \in Contents : c.kind \in {"none", "empty", "mixed", "whole"}
                              /\ c.run \in Runs \cup {NoRun} /\ c.grants \in SUBSET Paths
    /\ \A i \in Runs, gs \in SUBSET Paths :
           /\ Policy(i, gs).kind = "whole" /\ Policy(i, gs).run = i /\ Policy(i, gs).grants = gs
    /\ NoFile.kind = "none" /\ Empty.kind = "empty" /\ Mixed.kind = "mixed"
    /\ NoFile.run = NoRun /\ Empty.run = NoRun /\ Mixed.run = NoRun /\ NoRun \notin Runs
BY RunSessionAssumption DEF Contents, NoFile, Empty, Mixed, Policy

LEMMA MovedDoes ==
    ASSUME TypeInv, NEW w, NEW p, NEW f, NEW fds,
           \A x \in DOMAIN fds : fds[x] \in {"none", "tmp", "name", "gone"}
    PROVE  LET m == Moved(w, p, f, fds) IN
           /\ m \in [Writers -> WriterStates]
           /\ \A u \in Writers :
                  /\ m[u].stage = writer[u].stage /\ m[u].pid = writer[u].pid
                  /\ m[u].file = writer[u].file /\ m[u].policy = writer[u].policy
                  /\ m[u] = writer[u]
                     \/ /\ u # w /\ writer[u].pid = p /\ writer[u].file = f
                        /\ writer[u].fd \in DOMAIN fds /\ m[u].fd = fds[writer[u].fd]
                  /\ u # w /\ writer[u].pid = p /\ writer[u].file = f
                       /\ writer[u].fd \in DOMAIN fds => m[u].fd = fds[writer[u].fd]
<1>1. \A u \in Writers : writer[u] \in WriterStates
  BY DEF TypeInv
<1>2. ASSUME NEW u \in Writers
      PROVE  LET x == Moved(w, p, f, fds)[u] IN
             \/ x = writer[u] /\ ~ (u # w /\ writer[u].pid = p /\ writer[u].file = f
                                      /\ writer[u].fd \in DOMAIN fds)
             \/ /\ u # w /\ writer[u].pid = p /\ writer[u].file = f
                /\ writer[u].fd \in DOMAIN fds
                /\ x = [writer[u] EXCEPT !.fd = fds[writer[u].fd]]
  BY DEF Moved
<1> DEFINE m == Moved(w, p, f, fds)
<1>3. m = [u \in Writers |-> m[u]]
  BY DEF Moved
<1> HIDE DEF m
<1>4. ASSUME NEW u \in Writers
      PROVE  /\ m[u] \in WriterStates
             /\ m[u].stage = writer[u].stage /\ m[u].pid = writer[u].pid
             /\ m[u].file = writer[u].file /\ m[u].policy = writer[u].policy
             /\ m[u] = writer[u]
                \/ /\ u # w /\ writer[u].pid = p /\ writer[u].file = f
                   /\ writer[u].fd \in DOMAIN fds /\ m[u].fd = fds[writer[u].fd]
             /\ u # w /\ writer[u].pid = p /\ writer[u].file = f
                  /\ writer[u].fd \in DOMAIN fds => m[u].fd = fds[writer[u].fd]
  <2>1. CASE m[u] = writer[u] /\ ~ (u # w /\ writer[u].pid = p /\ writer[u].file = f
                                       /\ writer[u].fd \in DOMAIN fds)
    BY <1>1, <2>1
  <2>2. CASE /\ u # w /\ writer[u].pid = p /\ writer[u].file = f
             /\ writer[u].fd \in DOMAIN fds
             /\ m[u] = [writer[u] EXCEPT !.fd = fds[writer[u].fd]]
    <3> DEFINE d == fds[writer[u].fd]
    <3>1. d \in {"none", "tmp", "name", "gone"} /\ m[u] = [writer[u] EXCEPT !.fd = d]
      BY <2>2
    <3> HIDE DEF d
    <3>2. /\ m[u] \in WriterStates /\ m[u].stage = writer[u].stage /\ m[u].pid = writer[u].pid
          /\ m[u].file = writer[u].file /\ m[u].policy = writer[u].policy /\ m[u].fd = d
      <4> DEFINE x == m[u]
      <4>1. x = [writer[u] EXCEPT !.fd = d]
        BY <3>1
      <4> HIDE DEF x
      <4>2. /\ x \in WriterStates /\ x.stage = writer[u].stage /\ x.pid = writer[u].pid
            /\ x.file = writer[u].file /\ x.policy = writer[u].policy /\ x.fd = d
        BY <1>1, <3>1, <4>1 DEF WriterStates
      <4> QED
        BY <4>2 DEF x
    <3> QED
      BY <2>2, <3>2 DEF d
  <2> QED
    BY <1>2, <2>1, <2>2 DEF m
<1>5. m \in [Writers -> WriterStates]
  BY <1>3, <1>4
<1> QED
  BY <1>4, <1>5 DEF m

Writes(w) == writer[w].stage # "idle"

LEMMA WriterAt ==
    ASSUME TypeInv, Base, NEW w \in Writers, Writes(w)
    PROVE  /\ writer[w].pid \in Pids /\ writer[w].file \in Files
           /\ writer[w].policy \in Contents /\ writer[w].policy.kind = "whole"
           /\ writer[w].policy.run \in Runs /\ writer[w].policy # NoFile
           /\ writer[w].pid # NoPid /\ writer[w] \in WriterStates
<1>1. writer[w] \in WriterStates
  BY DEF TypeInv
<1>2. writer[w].pid \in Pids /\ writer[w].policy.kind = "whole"
  BY DEF Base, WriterShape, Writes
<1>3. writer[w].file \in Files /\ writer[w].policy \in Contents
  BY <1>1 DEF WriterStates
<1> QED
  BY <1>1, <1>2, <1>3, Kinds, RunSessionAssumption

LEMMA MakeDirDoes ==
    ASSUME TypeInv, Base, NEW w \in Writers, MakeDir(w)
    PROVE  LET p == writer[w].pid IN
           /\ writer[w].stage = "mkdir"
           /\ dir' \in [Pids -> BOOLEAN] /\ dir'[p] /\ \A q \in Pids : q # p => dir'[q] = dir[q]
           /\ file' = file
           /\ writer' \in [Writers -> WriterStates] /\ OthersWrite(w)
           /\ writer'[w].stage = "open" /\ writer'[w].pid = p
           /\ writer'[w].file = writer[w].file /\ writer'[w].fd = writer[w].fd
           /\ writer'[w].policy = writer[w].policy
<1>1. writer[w].stage = "mkdir" /\ Writes(w)
  BY DEF MakeDir, Writes
<1>2. writer[w].pid \in Pids /\ writer[w] \in WriterStates
  BY <1>1, WriterAt
<1> DEFINE m == [writer[w] EXCEPT !.stage = "open"]
<1>3. /\ m \in WriterStates /\ m.stage = "open" /\ m.pid = writer[w].pid
      /\ m.file = writer[w].file /\ m.fd = writer[w].fd /\ m.policy = writer[w].policy
  BY <1>2 DEF WriterStates
<1>4. writer' = [writer EXCEPT ![w] = m]
  BY DEF MakeDir
<1>5. dir' = [dir EXCEPT ![writer[w].pid] = TRUE] /\ file' = file
  BY DEF MakeDir
<1> HIDE DEF m
<1> QED
  BY <1>1, <1>2, <1>3, <1>4, <1>5 DEF TypeInv, OthersWrite

LEMMA OpenTmpDoes ==
    ASSUME TypeInv, Base, NEW w \in Writers, OpenTmp(w)
    PROVE  LET p == writer[w].pid  f == writer[w].file IN
           /\ writer[w].stage = "open" /\ dir[p] /\ dir' = dir
           /\ file' \in [Pids -> [Files -> [name : Contents, tmp : Contents]]]
           /\ \A q \in Pids : q # p => file'[q] = file[q]
           /\ \A e \in Files : e # f => file'[p][e] = file[p][e]
           /\ file'[p][f].name = file[p][f].name /\ file'[p][f].tmp = Empty
           /\ writer' \in [Writers -> WriterStates] /\ OthersWrite(w)
           /\ writer'[w].stage = "write" /\ writer'[w].pid = p
           /\ writer'[w].file = f /\ writer'[w].fd = "tmp"
           /\ writer'[w].policy = writer[w].policy
<1>1. writer[w].stage = "open" /\ Writes(w)
  BY DEF OpenTmp, Writes
<1>2. writer[w].pid \in Pids /\ writer[w] \in WriterStates /\ writer[w].file \in Files
  BY <1>1, WriterAt
<1> DEFINE m == [writer[w] EXCEPT !.stage = "write", !.fd = "tmp"]
           p == writer[w].pid
           f == writer[w].file
           c == [file[p][f] EXCEPT !.tmp = Empty]
<1>3. /\ m \in WriterStates /\ m.stage = "write" /\ m.pid = writer[w].pid
      /\ m.file = writer[w].file /\ m.fd = "tmp" /\ m.policy = writer[w].policy
  BY <1>2 DEF WriterStates
<1>4. writer' = [writer EXCEPT ![w] = m]
  BY <1>2 DEF OpenTmp, TypeInv
<1>5. file[p] \in [Files -> [name : Contents, tmp : Contents]]
  BY <1>2 DEF TypeInv
<1>6. /\ c \in [name : Contents, tmp : Contents]
      /\ c.name = file[p][f].name /\ c.tmp = Empty
  BY <1>2, <1>5, Sets
<1>7. /\ file' = [file EXCEPT ![p] = [file[p] EXCEPT ![f] = c]] /\ dir' = dir /\ dir[p]
  BY <1>2 DEF OpenTmp, TypeInv
<1> HIDE DEF m, c
<1>8. /\ writer' \in [Writers -> WriterStates] /\ OthersWrite(w) /\ writer'[w] = m
  BY <1>3, <1>4 DEF TypeInv, OthersWrite
<1>9. /\ file' \in [Pids -> [Files -> [name : Contents, tmp : Contents]]]
      /\ \A q \in Pids : q # p => file'[q] = file[q]
      /\ \A e \in Files : e # f => file'[p][e] = file[p][e]
      /\ file'[p][f] = c
  BY <1>2, <1>5, <1>6, <1>7, SMTT(30) DEF TypeInv
<1> QED
  BY <1>1, <1>3, <1>6, <1>7, <1>8, <1>9

LEMMA WriteAllDoes ==
    ASSUME TypeInv, Base, NEW w \in Writers, WriteAll(w)
    PROVE  LET p == writer[w].pid  f == writer[w].file  fd == writer[w].fd
               policy == writer[w].policy
           IN
           /\ writer[w].stage = "write" /\ dir' = dir
           /\ file' \in [Pids -> [Files -> [name : Contents, tmp : Contents]]]
           /\ \A q \in Pids : q # p => file'[q] = file[q]
           /\ \A e \in Files : e # f => file'[p][e] = file[p][e]
           /\ \A k \in Slots : k # fd => file'[p][f][k] = file[p][f][k]
           /\ fd = "gone" \/ file'[p][f][fd] \in {policy, Mixed}
           /\ fd # "gone" /\ file[p][f][fd] = Empty => file'[p][f][fd] = policy
           /\ writer' \in [Writers -> WriterStates] /\ OthersWrite(w)
           /\ writer'[w].stage = "rename" /\ writer'[w].pid = p
           /\ writer'[w].file = f /\ writer'[w].fd = fd
           /\ writer'[w].policy = policy
<1>1. writer[w].stage = "write" /\ Writes(w)
  BY DEF WriteAll, Writes
<1>2. /\ writer[w].pid \in Pids /\ writer[w] \in WriterStates /\ writer[w].file \in Files
      /\ writer[w].policy \in Contents
  BY <1>1, WriterAt
<1> DEFINE m == [writer[w] EXCEPT !.stage = "rename"]
           p == writer[w].pid
           f == writer[w].file
           fd == writer[w].fd
           policy == writer[w].policy
<1>3. /\ m \in WriterStates /\ m.stage = "rename" /\ m.pid = p
      /\ m.file = f /\ m.fd = fd /\ m.policy = policy
  BY <1>2 DEF WriterStates
<1>4. writer' = [writer EXCEPT ![w] = m] /\ dir' = dir
  BY DEF WriteAll
<1> HIDE DEF m
<1>5. /\ writer' \in [Writers -> WriterStates] /\ OthersWrite(w) /\ writer'[w] = m
  BY <1>3, <1>4 DEF TypeInv, OthersWrite
<1>6. file[p] \in [Files -> [name : Contents, tmp : Contents]]
  BY <1>2 DEF TypeInv
<1>7. fd \in {"tmp", "name", "gone"}
  BY <1>1, <1>2 DEF Base, WriterShape, WriterStates
<1>8. CASE fd = "gone"
  <2>1. file' = file
    BY <1>8 DEF WriteAll
  <2> QED
    BY <1>1, <1>3, <1>4, <1>5, <1>8, <2>1 DEF TypeInv
<1>9. CASE fd # "gone"
  <2>1. PICK c \in Overwritten(file[p][f][fd], policy) : file' = [file EXCEPT ![p][f][fd] = c]
    BY <1>9 DEF WriteAll
  <2>2. c \in {policy, Mixed} /\ (file[p][f][fd] = Empty => c = policy) /\ c \in Contents
    BY <1>2, <2>1, Kinds, Sets, SMTT(30) DEF Overwritten
  <2> DEFINE d == [file[p][f] EXCEPT ![fd] = c]
  <2>3. /\ d \in [name : Contents, tmp : Contents] /\ d[fd] = c
        /\ \A k \in Slots : k # fd => d[k] = file[p][f][k]
    BY <1>2, <1>6, <1>7, <1>9, <2>2 DEF Slots
  <2>4. file' = [file EXCEPT ![p] = [file[p] EXCEPT ![f] = d]]
    BY <1>2, <2>1 DEF TypeInv
  <2> HIDE DEF d
  <2>5. /\ file' \in [Pids -> [Files -> [name : Contents, tmp : Contents]]]
        /\ \A q \in Pids : q # p => file'[q] = file[q]
        /\ \A e \in Files : e # f => file'[p][e] = file[p][e]
        /\ file'[p][f] = d
    BY <1>2, <1>6, <2>3, <2>4, SMTT(30) DEF TypeInv
  <2> QED
    BY <1>1, <1>3, <1>4, <1>5, <1>9, <2>2, <2>3, <2>5
<1> QED
  BY <1>8, <1>9

LEMMA RenameDoes ==
    ASSUME TypeInv, Base, NEW w \in Writers, Rename(w)
    PROVE  LET p == writer[w].pid  f == writer[w].file IN
           /\ writer[w].stage = "rename" /\ dir' = dir /\ file[p][f].tmp # NoFile
           /\ file' \in [Pids -> [Files -> [name : Contents, tmp : Contents]]]
           /\ \A q \in Pids : q # p => file'[q] = file[q]
           /\ \A e \in Files : e # f => file'[p][e] = file[p][e]
           /\ file'[p][f] = [name |-> file[p][f].tmp, tmp |-> NoFile]
           /\ writer' \in [Writers -> WriterStates]
           /\ \A v \in Writers \ {w} :
                  /\ writer'[v].stage = writer[v].stage /\ writer'[v].pid = writer[v].pid
                  /\ writer'[v].file = writer[v].file /\ writer'[v].policy = writer[v].policy
                  /\ writer'[v] = writer[v] \/ writer[v].pid = p
                  /\ writer[v].pid = p /\ writer[v].file = f =>
                         /\ writer[v].fd = "tmp" => writer'[v].fd = "name"
                         /\ writer[v].fd = "name" => writer'[v].fd = "gone"
                         /\ writer[v].fd = "gone" => writer'[v].fd = "gone"
                  /\ writer[v].fd # "none" => writer'[v].fd # "none"
                  /\ writer[v].file # f => writer'[v] = writer[v]
           /\ writer'[w].stage = (IF f = "record" THEN "mkdir" ELSE "done")
           /\ writer'[w].pid = p
           /\ writer'[w].file = "policy" /\ writer'[w].fd = "none"
           /\ writer'[w].policy = writer[w].policy
<1>1. writer[w].stage = "rename" /\ Writes(w)
  BY DEF Rename, Writes
<1>2. /\ writer[w].pid \in Pids /\ writer[w].file \in Files
  BY <1>1, WriterAt
<1> DEFINE p == writer[w].pid
           f == writer[w].file
           fds == [tmp |-> "name", name |-> "gone"]
           all == Moved(w, p, f, fds)
           c == [name |-> file[p][f].tmp, tmp |-> NoFile]
           m == [all[w] EXCEPT !.stage = IF f = "record" THEN "mkdir" ELSE "done",
                               !.file = "policy", !.fd = "none"]
<1>3. /\ DOMAIN fds = {"tmp", "name"} /\ fds["tmp"] = "name" /\ fds["name"] = "gone"
      /\ \A x \in DOMAIN fds : fds[x] \in {"none", "tmp", "name", "gone"}
  OBVIOUS
<1> HIDE DEF fds
<1>4. /\ all \in [Writers -> WriterStates]
      /\ \A u \in Writers :
             /\ all[u].stage = writer[u].stage /\ all[u].pid = writer[u].pid
             /\ all[u].file = writer[u].file /\ all[u].policy = writer[u].policy
             /\ all[u] = writer[u]
                \/ /\ u # w /\ writer[u].pid = p /\ writer[u].file = f
                   /\ writer[u].fd \in DOMAIN fds /\ all[u].fd = fds[writer[u].fd]
             /\ u # w /\ writer[u].pid = p /\ writer[u].file = f
                  /\ writer[u].fd \in DOMAIN fds => all[u].fd = fds[writer[u].fd]
  BY <1>3, MovedDoes, SMTT(30)
<1>5. /\ writer' = [all EXCEPT ![w] = m] /\ dir' = dir /\ file[p][f].tmp # NoFile
      /\ file' = [file EXCEPT ![p] = [file[p] EXCEPT ![f] = c]]
  BY <1>2, <1>4 DEF Rename, TypeInv, fds
<1> HIDE DEF all
<1>6. /\ m \in WriterStates /\ m.stage = (IF f = "record" THEN "mkdir" ELSE "done")
      /\ m.pid = p /\ m.file = "policy" /\ m.fd = "none" /\ m.policy = writer[w].policy
  BY <1>4, Sets DEF WriterStates
<1>7. file[p] \in [Files -> [name : Contents, tmp : Contents]]
  BY <1>2 DEF TypeInv
<1>8. c \in [name : Contents, tmp : Contents]
  BY <1>2, <1>7, Sets
<1> HIDE DEF m, c
<1>9. /\ file' \in [Pids -> [Files -> [name : Contents, tmp : Contents]]]
      /\ \A q \in Pids : q # p => file'[q] = file[q]
      /\ \A e \in Files : e # f => file'[p][e] = file[p][e]
      /\ file'[p][f] = c
  BY <1>2, <1>5, <1>7, <1>8 DEF TypeInv
<1>10. /\ writer' \in [Writers -> WriterStates] /\ writer'[w] = m
       /\ \A v \in Writers \ {w} : writer'[v] = all[v]
  BY <1>4, <1>5, <1>6
<1>11. ASSUME NEW v \in Writers \ {w}
       PROVE  /\ writer'[v].stage = writer[v].stage /\ writer'[v].pid = writer[v].pid
              /\ writer'[v].file = writer[v].file /\ writer'[v].policy = writer[v].policy
              /\ writer'[v] = writer[v] \/ writer[v].pid = p
              /\ writer[v].pid = p /\ writer[v].file = f =>
                     /\ writer[v].fd = "tmp" => writer'[v].fd = "name"
                     /\ writer[v].fd = "name" => writer'[v].fd = "gone"
                     /\ writer[v].fd = "gone" => writer'[v].fd = "gone"
              /\ writer[v].fd # "none" => writer'[v].fd # "none"
              /\ writer[v].file # f => writer'[v] = writer[v]
  BY <1>3, <1>4, <1>10
<1> QED
  BY <1>1, <1>5, <1>6, <1>9, <1>10, <1>11 DEF c

RunAs(i, stage, pid, agent, todo, target) ==
    /\ run'[i].stage = stage /\ run'[i].pid = pid /\ run'[i].agent = agent
    /\ run'[i].todo = todo /\ run'[i].target = target

LEMMA RunChange ==
    ASSUME TypeInv, NEW i \in Runs, NEW m \in RunStates, run' = [run EXCEPT ![i] = m]
    PROVE  run' \in [Runs -> RunStates] /\ OthersRun(i) /\ run'[i] = m
BY DEF TypeInv, OthersRun

LEMMA IsOver ==
    ASSUME TypeInv, NEW i \in Runs, run' = [run EXCEPT ![i] = Over(i)]
    PROVE  /\ run' \in [Runs -> RunStates] /\ OthersRun(i)
           /\ RunAs(i, "over", NoPid, run[i].agent, {}, NoPid)
<1> DEFINE m == Over(i)
<1>1. run[i] \in RunStates
  BY DEF TypeInv
<1>2. /\ m \in RunStates /\ m.stage = "over" /\ m.pid = NoPid /\ m.agent = run[i].agent
      /\ m.todo = {} /\ m.target = NoPid
  BY <1>1 DEF Over, NotStarted, RunStates
<1> HIDE DEF m
<1> QED
  BY <1>2, RunChange DEF RunAs, m

LEMMA OpenDirDoes ==
    ASSUME TypeInv, NEW i \in Runs, OpenDir(i)
    PROVE  LET r == run[i] IN
           /\ r.target # NoPid /\ r.target \in Pids /\ dir[r.target]
           /\ r.stage \in {"sweep", "drop"}
           /\ run' \in [Runs -> RunStates] /\ OthersRun(i)
           /\ RunAs(i, IF r.stage = "sweep" THEN "swept" ELSE "dropped", r.pid, r.agent,
                    r.todo, r.target)
           /\ run'[i].left = Names(r.target)
           /\ dir' = dir /\ file' = file /\ writer' = writer
<1> DEFINE r == run[i]
           stage == IF r.stage = "sweep" THEN "swept" ELSE "dropped"
           left == Names(r.target)
           m == [r EXCEPT !.stage = stage, !.left = left]
<1>1. /\ r \in RunStates /\ stage \in {"swept", "dropped"}
  BY DEF TypeInv
<1>2. left \in SUBSET (Files \X Slots)
  BY DEF Names, Slots
<1>3. run' = [run EXCEPT ![i] = m]
  BY DEF OpenDir, TypeInv
<1>4. /\ r.target # NoPid /\ dir[r.target] /\ r.stage \in {"sweep", "drop"}
      /\ dir' = dir /\ file' = file /\ writer' = writer
  BY DEF OpenDir, Removing, disk
<1> HIDE DEF stage, left
<1>5. /\ m \in RunStates /\ m.stage = stage /\ m.pid = r.pid /\ m.agent = r.agent
      /\ m.todo = r.todo /\ m.target = r.target /\ m.left = left
  BY <1>1, <1>2 DEF RunStates
<1>6. r.target \in Pids
  BY <1>1, <1>4 DEF RunStates
<1> HIDE DEF m
<1> QED
  BY <1>3, <1>4, <1>5, <1>6, RunChange DEF RunAs, stage, left

LEMMA NoDirDoes ==
    ASSUME TypeInv, NEW i \in Runs, NoDir(i)
    PROVE  LET r == run[i] IN
           /\ r.target \in Pids /\ r.target # NoPid /\ ~ dir[r.target]
           /\ r.stage \in {"sweep", "drop"}
           /\ run' \in [Runs -> RunStates] /\ OthersRun(i)
           /\ RunAs(i, "over", NoPid, r.agent, {}, NoPid)
           /\ dir' = dir /\ file' = file /\ writer' = writer
<1>1. run[i] \in RunStates
  BY DEF TypeInv
<1> QED
  BY <1>1, IsOver DEF NoDir, Removing, disk, RunStates

LEMMA UnlinkDoes ==
    ASSUME TypeInv, NEW i \in Runs, NEW n \in run[i].left, Unlink(i, n)
    PROVE  LET r == run[i]  p == r.target IN
           /\ r.stage \in {"swept", "dropped"}
           /\ n[1] \in Files /\ n[2] \in Slots /\ n = <<n[1], n[2]>>
           /\ run' \in [Runs -> RunStates] /\ OthersRun(i)
           /\ RunAs(i, r.stage, r.pid, r.agent, r.todo, r.target)
           /\ run'[i].left = r.left \ {n}
           /\ dir' = dir
           /\ file' \in [Pids -> [Files -> [name : Contents, tmp : Contents]]]
           /\ \A q \in Pids : q # p => file'[q] = file[q]
           /\ p \in Pids =>
                  /\ \A e \in Files : e # n[1] => file'[p][e] = file[p][e]
                  /\ \A k \in Slots : k # n[2] => file'[p][n[1]][k] = file[p][n[1]][k]
                  /\ file'[p][n[1]][n[2]] = NoFile
           /\ writer' \in [Writers -> WriterStates]
           /\ \A v \in Writers :
                  /\ writer'[v].stage = writer[v].stage /\ writer'[v].pid = writer[v].pid
                  /\ writer'[v].file = writer[v].file /\ writer'[v].policy = writer[v].policy
                  /\ writer'[v] = writer[v] \/ (writer[v].pid = p /\ v # i)
                  /\ v # i /\ writer[v].pid = p /\ writer[v].file = n[1] /\ writer[v].fd = n[2] =>
                         writer'[v].fd = "gone"
                  /\ ~ (writer[v].file = n[1] /\ writer[v].fd = n[2]) => writer'[v] = writer[v]
<1> DEFINE r == run[i]
           p == r.target
           m == [r EXCEPT !.left = r.left \ {n}]
           fds == [x \in {n[2]} |-> "gone"]
           all == Moved(i, p, n[1], fds)
<1>1. r \in RunStates /\ r.left \subseteq Files \X Slots
  BY DEF TypeInv, RunStates
<1>2. n[1] \in Files /\ n[2] \in Slots /\ n = <<n[1], n[2]>>
  BY <1>1
<1>3. /\ m \in RunStates /\ m.stage = r.stage /\ m.pid = r.pid /\ m.agent = r.agent
      /\ m.todo = r.todo /\ m.target = r.target /\ m.left = r.left \ {n}
  BY <1>1 DEF RunStates
<1>4. /\ run' = [run EXCEPT ![i] = m] /\ r.stage \in {"swept", "dropped"}
      /\ file' = [file EXCEPT ![p][n[1]][n[2]] = NoFile] /\ writer' = all /\ dir' = dir
  BY DEF Unlink, TypeInv
<1>5. /\ DOMAIN fds = {n[2]} /\ fds[n[2]] = "gone"
      /\ \A x \in DOMAIN fds : fds[x] \in {"none", "tmp", "name", "gone"}
  OBVIOUS
<1> HIDE DEF m, fds
<1>6. /\ all \in [Writers -> WriterStates]
      /\ \A u \in Writers :
             /\ all[u].stage = writer[u].stage /\ all[u].pid = writer[u].pid
             /\ all[u].file = writer[u].file /\ all[u].policy = writer[u].policy
             /\ all[u] = writer[u]
                \/ /\ u # i /\ writer[u].pid = p /\ writer[u].file = n[1]
                   /\ writer[u].fd \in DOMAIN fds /\ all[u].fd = fds[writer[u].fd]
             /\ u # i /\ writer[u].pid = p /\ writer[u].file = n[1]
                  /\ writer[u].fd \in DOMAIN fds => all[u].fd = fds[writer[u].fd]
  BY <1>5, MovedDoes
<1> HIDE DEF all
<1>7. /\ file' \in [Pids -> [Files -> [name : Contents, tmp : Contents]]]
      /\ \A q \in Pids : q # p => file'[q] = file[q]
      /\ p \in Pids =>
             /\ \A e \in Files : e # n[1] => file'[p][e] = file[p][e]
             /\ \A k \in Slots : k # n[2] => file'[p][n[1]][k] = file[p][n[1]][k]
             /\ file'[p][n[1]][n[2]] = NoFile
  <2>1. CASE p \notin Pids
    <3>1. file' = file
      BY <1>4, <2>1 DEF TypeInv
    <3> QED
      BY <2>1, <3>1 DEF TypeInv
  <2>2. CASE p \in Pids
    <3> DEFINE d == [file[p][n[1]] EXCEPT ![n[2]] = NoFile]
    <3>1. file[p] \in [Files -> [name : Contents, tmp : Contents]]
      BY <2>2 DEF TypeInv
    <3>2. /\ d \in [name : Contents, tmp : Contents] /\ d[n[2]] = NoFile
          /\ \A k \in Slots : k # n[2] => d[k] = file[p][n[1]][k]
      BY <1>2, <3>1, Sets DEF Slots
    <3>3. file' = [file EXCEPT ![p] = [file[p] EXCEPT ![n[1]] = d]]
      BY <1>4, <2>2 DEF TypeInv
    <3> HIDE DEF d
    <3>4. /\ file' \in [Pids -> [Files -> [name : Contents, tmp : Contents]]]
          /\ \A q \in Pids : q # p => file'[q] = file[q]
          /\ \A e \in Files : e # n[1] => file'[p][e] = file[p][e]
          /\ file'[p][n[1]] = d
      BY <1>2, <2>2, <3>1, <3>2, <3>3 DEF TypeInv
    <3> QED
      BY <3>2, <3>4
  <2> QED
    BY <2>1, <2>2
<1>8. ASSUME NEW v \in Writers
      PROVE  /\ writer'[v].stage = writer[v].stage /\ writer'[v].pid = writer[v].pid
             /\ writer'[v].file = writer[v].file /\ writer'[v].policy = writer[v].policy
             /\ writer'[v] = writer[v] \/ (writer[v].pid = p /\ v # i)
             /\ v # i /\ writer[v].pid = p /\ writer[v].file = n[1] /\ writer[v].fd = n[2] =>
                    writer'[v].fd = "gone"
             /\ ~ (writer[v].file = n[1] /\ writer[v].fd = n[2]) => writer'[v] = writer[v]
  BY <1>4, <1>5, <1>6
<1>9. run' \in [Runs -> RunStates] /\ OthersRun(i) /\ run'[i] = m
  BY <1>3, <1>4, RunChange
<1> QED
  BY <1>2, <1>3, <1>4, <1>6, <1>7, <1>8, <1>9 DEF RunAs

(* A removal by i of the directory p has ended, with it or without.        *)
LEMMA RmdirDoes ==
    ASSUME TypeInv, NEW i \in Runs, Rmdir(i)
    PROVE  LET r == run[i]  p == r.target  empty == Names(p) = {} IN
           /\ r.stage \in {"swept", "dropped"} /\ r.left = {}
           /\ dir' \in [Pids -> BOOLEAN]
           /\ p \in Pids => (dir'[p] <=> ~ empty)
           /\ \A q \in Pids : q # p => dir'[q] = dir[q]
           /\ file' = file /\ writer' = writer
           /\ run' \in [Runs -> RunStates] /\ OthersRun(i)
           /\ \/ /\ r.stage = "swept" /\ empty
                 /\ RunAs(i, "sweep", r.pid, r.agent, r.todo, NoPid)
              \/ /\ ~ (r.stage = "swept" /\ empty)
                 /\ RunAs(i, "over", NoPid, r.agent, {}, NoPid)
<1> DEFINE r == run[i]
           p == r.target
           empty == Names(p) = {}
           m == [r EXCEPT !.stage = "sweep", !.target = NoPid]
<1>1. r \in RunStates
  BY DEF TypeInv
<1>2. /\ r.stage \in {"swept", "dropped"} /\ r.left = {} /\ dir' = [dir EXCEPT ![p] = ~ empty]
      /\ file' = file /\ writer' = writer
      /\ run' = [run EXCEPT ![i] = IF r.stage = "swept" /\ empty THEN m ELSE Over(i)]
  BY DEF Rmdir
<1>3. /\ m \in RunStates /\ m.stage = "sweep" /\ m.pid = r.pid /\ m.agent = r.agent
      /\ m.todo = r.todo /\ m.target = NoPid
  BY <1>1 DEF RunStates
<1>4. empty \in BOOLEAN
  OBVIOUS
<1> HIDE DEF m, empty
<1>5. /\ dir' \in [Pids -> BOOLEAN] /\ (p \in Pids => (dir'[p] <=> ~ empty))
      /\ \A q \in Pids : q # p => dir'[q] = dir[q]
  BY <1>2, <1>4 DEF TypeInv
<1>6. CASE r.stage = "swept" /\ empty
  <2>1. run' = [run EXCEPT ![i] = m]
    BY <1>2, <1>6
  <2>2. run' \in [Runs -> RunStates] /\ OthersRun(i) /\ run'[i] = m
    BY <1>3, <2>1, RunChange
  <2> QED
    BY <1>2, <1>3, <1>5, <1>6, <2>2 DEF RunAs, empty
<1>7. CASE ~ (r.stage = "swept" /\ empty)
  <2>1. run' = [run EXCEPT ![i] = Over(i)]
    BY <1>2, <1>7
  <2> QED
    BY <1>2, <1>5, <1>7, <2>1, IsOver DEF empty
<1> QED
  BY <1>6, <1>7

LEMMA StartDoes ==
    ASSUME TypeInv, NEW i \in Runs, NEW p \in Pids, Start(i, p)
    PROVE  /\ run[i].stage = "new" /\ ~ Alive(p)
           /\ run' \in [Runs -> RunStates] /\ OthersRun(i)
           /\ RunAs(i, "sweep", p, NoPid, Dirs, NoPid)
           /\ dir' = dir /\ file' = file /\ writer' = writer
<1> DEFINE m == [NotStarted EXCEPT !.stage = "sweep", !.pid = p, !.todo = Dirs]
<1>1. Dirs \in SUBSET Pids
  BY DEF Dirs
<1>2. run[i].stage = "new" /\ ~ Alive(p) /\ dir' = dir /\ file' = file /\ writer' = writer
  BY DEF Start, FreePids, disk
<1>3. run' = [run EXCEPT ![i] = m]
  BY DEF Start
<1>4. /\ m \in RunStates /\ m.stage = "sweep" /\ m.pid = p /\ m.agent = NoPid
      /\ m.todo = Dirs /\ m.target = NoPid
  BY <1>1 DEF RunStates, NotStarted
<1> HIDE DEF m
<1> QED
  BY <1>2, <1>3, <1>4, RunChange DEF RunAs

LEMMA CheckDoes ==
    ASSUME TypeInv, NEW i \in Runs, NEW p \in Pids, Check(i, p)
    PROVE  LET r == run[i] IN
           /\ r.stage = "sweep" /\ r.target = NoPid /\ p \in r.todo
           /\ run' \in [Runs -> RunStates] /\ OthersRun(i)
           /\ RunAs(i, "sweep", r.pid, r.agent, r.todo \ {p}, IF Alive(p) THEN NoPid ELSE p)
           /\ dir' = dir /\ file' = file /\ writer' = writer
<1> DEFINE r == run[i]
           target == IF Alive(p) THEN NoPid ELSE p
           m == [r EXCEPT !.todo = r.todo \ {p}, !.target = target]
<1>1. r \in RunStates /\ target \in Pids \cup {NoPid}
  BY DEF TypeInv
<1>2. /\ r.stage = "sweep" /\ r.target = NoPid /\ p \in r.todo
      /\ dir' = dir /\ file' = file /\ writer' = writer
  BY DEF Check, disk
<1>3. run' = [run EXCEPT ![i] = m]
  BY DEF Check, TypeInv
<1> HIDE DEF target
<1>4. /\ m \in RunStates /\ m.stage = r.stage /\ m.pid = r.pid /\ m.agent = r.agent
      /\ m.todo = r.todo \ {p} /\ m.target = target
  BY <1>1 DEF RunStates
<1> HIDE DEF m
<1> QED
  BY <1>2, <1>3, <1>4, RunChange DEF RunAs, target

WriterBecomes(w, stage, p, f, fd, policy) ==
    /\ writer' \in [Writers -> WriterStates] /\ OthersWrite(w)
    /\ writer'[w].stage = stage /\ writer'[w].pid = p /\ writer'[w].file = f
    /\ writer'[w].fd = fd /\ writer'[w].policy = policy

LEMMA WriterIdle ==
    ASSUME TypeInv, NEW w \in Writers, writer' = [writer EXCEPT ![w] = Idle]
    PROVE  /\ writer' \in [Writers -> WriterStates] /\ OthersWrite(w) /\ writer'[w] = Idle
BY Sets DEF TypeInv, OthersWrite

LEMMA OwnDoes ==
    ASSUME TypeInv, Base, NEW i \in Runs, Own(i)
    PROVE  LET r == run[i] IN
           /\ r.stage = "sweep" /\ r.target = NoPid /\ r.todo = {} /\ r.pid \in Pids
           /\ run' \in [Runs -> RunStates] /\ OthersRun(i)
           /\ RunAs(i, "write", r.pid, r.agent, {}, NoPid)
           /\ dir' \in [Pids -> BOOLEAN] /\ dir'[r.pid]
           /\ \A q \in Pids : q # r.pid => dir'[q] = dir[q]
           /\ file' = file
           /\ WriterBecomes(i, "mkdir", r.pid, "record", "none", Policy(i, {}))
<1> DEFINE r == run[i]
           m == [r EXCEPT !.stage = "write"]
           n == [stage |-> "mkdir", pid |-> r.pid, file |-> "record", fd |-> "none",
                 policy |-> Policy(i, {})]
<1>1. r \in RunStates /\ i \in Writers
  BY Sets DEF TypeInv
<1>2. /\ r.stage = "sweep" /\ r.target = NoPid /\ r.todo = {} /\ file' = file
      /\ dir' = [dir EXCEPT ![r.pid] = TRUE]
  BY DEF Own
<1>3. r.pid \in Pids
  BY <1>2 DEF Base, RunShape, Ended
<1>4. run' = [run EXCEPT ![i] = m] /\ writer' = [writer EXCEPT ![i] = n]
  BY DEF Own, Begin, TypeInv
<1>5. /\ m \in RunStates /\ m.stage = "write" /\ m.pid = r.pid /\ m.agent = r.agent
      /\ m.todo = r.todo /\ m.target = r.target
  BY <1>1 DEF RunStates
<1>6. /\ n \in WriterStates /\ n.stage = "mkdir" /\ n.pid = r.pid /\ n.file = "record"
      /\ n.fd = "none" /\ n.policy = Policy(i, {})
  <2>1. Policy(i, {}) \in Contents /\ "record" \in Files
    BY Sets
  <2> QED
    BY <1>3, <2>1 DEF WriterStates
<1> HIDE DEF m, n
<1>7. run' \in [Runs -> RunStates] /\ OthersRun(i) /\ run'[i] = m
  BY <1>4, <1>5, RunChange
<1>8. writer' \in [Writers -> WriterStates] /\ OthersWrite(i) /\ writer'[i] = n
  BY <1>1, <1>4, <1>6 DEF TypeInv, OthersWrite
<1>9. /\ dir' \in [Pids -> BOOLEAN] /\ dir'[r.pid]
      /\ \A q \in Pids : q # r.pid => dir'[q] = dir[q]
  BY <1>2, <1>3 DEF TypeInv
<1> QED
  BY <1>2, <1>3, <1>5, <1>6, <1>7, <1>8, <1>9 DEF RunAs, WriterBecomes

LEMMA LaunchDoes ==
    ASSUME TypeInv, NEW i \in Runs, NEW a \in Pids \cup {OtherPid}, Launch(i, a)
    PROVE  LET r == run[i] IN
           /\ r.stage = "write" /\ writer[i].stage = "done"
           /\ run' \in [Runs -> RunStates] /\ OthersRun(i)
           /\ RunAs(i, "running", r.pid, a, r.todo, r.target)
           /\ dir' = dir /\ file' = file
           /\ writer' \in [Writers -> WriterStates] /\ OthersWrite(i) /\ writer'[i] = Idle
<1> DEFINE r == run[i]
           m == [r EXCEPT !.stage = "running", !.agent = a]
<1>1. r \in RunStates /\ i \in Writers
  BY Sets DEF TypeInv
<1>2. /\ r.stage = "write" /\ writer[i].stage = "done" /\ dir' = dir /\ file' = file
      /\ run' = [run EXCEPT ![i] = m] /\ writer' = [writer EXCEPT ![i] = Idle]
  BY DEF Launch, disk, TypeInv
<1>3. /\ m \in RunStates /\ m.stage = "running" /\ m.pid = r.pid /\ m.agent = a
      /\ m.todo = r.todo /\ m.target = r.target
  BY <1>1 DEF RunStates
<1> HIDE DEF m
<1> QED
  BY <1>1, <1>2, <1>3, RunChange, WriterIdle DEF RunAs

LEMMA RunFailsDoes ==
    ASSUME TypeInv, NEW i \in Runs, RunFails(i)
    PROVE  LET r == run[i] IN
           /\ r.stage = "write"
           /\ run' \in [Runs -> RunStates] /\ OthersRun(i)
           /\ RunAs(i, "drop", r.pid, r.agent, r.todo, r.pid)
           /\ dir' = dir /\ file' = file
           /\ writer' \in [Writers -> WriterStates] /\ OthersWrite(i) /\ writer'[i] = Idle
<1> DEFINE r == run[i]
           m == [r EXCEPT !.stage = "drop", !.target = r.pid]
<1>1. r \in RunStates /\ i \in Writers
  BY Sets DEF TypeInv
<1>2. /\ r.stage = "write" /\ dir' = dir /\ file' = file
      /\ run' = [run EXCEPT ![i] = m] /\ writer' = [writer EXCEPT ![i] = Idle]
  BY DEF RunFails, disk, TypeInv
<1>3. /\ m \in RunStates /\ m.stage = "drop" /\ m.pid = r.pid /\ m.agent = r.agent
      /\ m.todo = r.todo /\ m.target = r.pid
  BY <1>1 DEF RunStates
<1> HIDE DEF m
<1> QED
  BY <1>1, <1>2, <1>3, RunChange, WriterIdle DEF RunAs

LEMMA AgentEndsDoes ==
    ASSUME TypeInv, NEW i \in Runs, AgentEnds(i)
    PROVE  LET r == run[i] IN
           /\ r.stage = "running"
           /\ run' \in [Runs -> RunStates] /\ OthersRun(i)
           /\ RunAs(i, "drop", r.pid, NoPid, r.todo, r.pid)
           /\ dir' = dir /\ file' = file /\ writer' = writer
<1> DEFINE r == run[i]
           m == [r EXCEPT !.stage = "drop", !.agent = NoPid, !.target = r.pid]
<1>1. r \in RunStates
  BY DEF TypeInv
<1>2. /\ r.stage = "running" /\ dir' = dir /\ file' = file /\ writer' = writer
      /\ run' = [run EXCEPT ![i] = m]
  BY DEF AgentEnds, disk, TypeInv
<1>3. /\ m \in RunStates /\ m.stage = "drop" /\ m.pid = r.pid /\ m.agent = NoPid
      /\ m.todo = r.todo /\ m.target = r.pid
  BY <1>1 DEF RunStates
<1> HIDE DEF m
<1> QED
  BY <1>2, <1>3, RunChange DEF RunAs

LEMMA OrphanEndsDoes ==
    ASSUME TypeInv, NEW i \in Runs, OrphanEnds(i)
    PROVE  LET r == run[i] IN
           /\ r.stage = "over"
           /\ run' \in [Runs -> RunStates] /\ OthersRun(i)
           /\ RunAs(i, "over", r.pid, NoPid, r.todo, r.target)
           /\ dir' = dir /\ file' = file /\ writer' = writer
<1> DEFINE r == run[i]
           m == [r EXCEPT !.agent = NoPid]
<1>1. r \in RunStates
  BY DEF TypeInv
<1>2. /\ r.stage = "over" /\ dir' = dir /\ file' = file /\ writer' = writer
      /\ run' = [run EXCEPT ![i] = m]
  BY DEF OrphanEnds, disk, TypeInv
<1>3. /\ m \in RunStates /\ m.stage = r.stage /\ m.pid = r.pid /\ m.agent = NoPid
      /\ m.todo = r.todo /\ m.target = r.target
  BY <1>1 DEF RunStates
<1> HIDE DEF m
<1> QED
  BY <1>2, <1>3, RunChange DEF RunAs

LEMMA RunDiesDoes ==
    ASSUME TypeInv, NEW i \in Runs, RunDies(i)
    PROVE  LET r == run[i] IN
           /\ r.stage \notin Ended
           /\ run' \in [Runs -> RunStates] /\ OthersRun(i)
           /\ RunAs(i, "over", NoPid, r.agent, {}, NoPid)
           /\ dir' = dir /\ file' = file
           /\ writer' \in [Writers -> WriterStates] /\ OthersWrite(i) /\ writer'[i] = Idle
           /\ call' = call /\ cmd' = cmd /\ promise' = promise /\ calls' = calls
           /\ deaths' = deaths + 1 /\ deaths' # deaths /\ deaths' \in Nat /\ deaths' # 0
<1>1. i \in Writers /\ deaths \in Nat
  BY Sets DEF TypeInv
<1>2. /\ run' = [run EXCEPT ![i] = Over(i)] /\ writer' = [writer EXCEPT ![i] = Idle]
      /\ run[i].stage \notin Ended /\ dir' = dir /\ file' = file
      /\ call' = call /\ cmd' = cmd /\ promise' = promise /\ calls' = calls
      /\ deaths' = deaths + 1
  BY DEF RunDies, disk
<1>3. deaths' # deaths /\ deaths' \in Nat /\ deaths' # 0
  BY <1>1, <1>2
<1> QED
  BY <1>1, <1>2, <1>3, IsOver, WriterIdle

PromiseTypes == [Runs -> [Paths -> {"denied", "allowed", "unknown"}]]

LEMMA GrantDoes ==
    ASSUME TypeInv, Base, NEW g \in Granters, NEW verb \in {"allow", "deny"}, NEW x \in Paths,
           NEW p \in Pids, Grant(g, verb, x, p)
    PROVE  \E i \in Runs, old, new \in SUBSET Paths :
           /\ file[p]["record"].name.run = i /\ file[p]["record"].name.grants = old
           /\ file[p]["record"].name = Policy(i, old)
           /\ calls' \in Nat /\ call' \in [Granters -> CallStates]
           /\ writer' \in [Writers -> WriterStates]
           /\ call[g] = NoCall /\ dir[p] /\ writer[g].stage = "idle"
           /\ x \in new <=> verb = "allow"
           /\ \A y \in Paths : y # x => (y \in new <=> y \in old)
           /\ dir' = dir /\ file' = file /\ run' = run /\ cmd' = cmd /\ deaths' = deaths
           /\ \A h \in Granters : h # g => call'[h] = call[h]
           /\ call'[g].verb = verb /\ call'[g].path = {x}
           /\ promise' \in PromiseTypes
           /\ promise'[i][x] = "unknown"
           /\ \A j \in Runs, y \in Paths : j # i \/ y # x => promise'[j][y] = promise[j][y]
           /\ OthersWrite(g)
           /\ writer'[g].stage = IF new = old THEN "done" ELSE "mkdir"
           /\ writer'[g].pid = p /\ writer'[g].file = "record" /\ writer'[g].fd = "none"
           /\ writer'[g].policy = Policy(i, new)
<1> DEFINE old == file[p]["record"].name
           new == IF verb = "allow" THEN old.grants \cup {x} ELSE old.grants \ {x}
           i == old.run
           stage == IF new = old.grants THEN "done" ELSE "mkdir"
           n == [stage |-> stage, pid |-> p, file |-> "record", fd |-> "none",
                 policy |-> Policy(i, new)]
           c == [verb |-> verb, path |-> {x}]
<1>1. /\ call[g] = NoCall /\ old.kind = "whole"
      /\ dir' = dir /\ file' = file /\ run' = run /\ cmd' = cmd /\ deaths' = deaths
      /\ calls' = calls + 1
      /\ call' = [call EXCEPT ![g] = c]
      /\ promise' = [promise EXCEPT ![i][x] = "unknown"]
      /\ writer' = [writer EXCEPT ![g] = n]
  BY DEF Grant, disk
<1>2. old \in Contents
  <2>1. file[p] \in [Files -> [name : Contents, tmp : Contents]]
    BY DEF TypeInv
  <2> QED
    BY <2>1, Sets
<1>3. i \in Runs /\ old.grants \in SUBSET Paths /\ old # NoFile
  BY <1>1, <1>2, Kinds
<1>4. dir[p]
  BY <1>3, Sets DEF Base, Bare, Slots
<1>5. g \in Writers /\ g \notin Runs
  BY Sets
<1>6. writer[g].stage = "idle"
  BY <1>1, <1>5 DEF Base, WriterShape
<1>7. /\ new \in SUBSET Paths /\ (x \in new <=> verb = "allow")
      /\ \A y \in Paths : y # x => (y \in new <=> y \in old.grants)
  BY <1>3
<1> HIDE DEF old, new
<1>8. Policy(i, new) \in Contents
  BY <1>3, <1>7, Sets
<1>9. /\ n \in WriterStates /\ n.stage = stage /\ n.pid = p /\ n.file = "record"
      /\ n.fd = "none" /\ n.policy = Policy(i, new)
  BY <1>8, Sets DEF WriterStates
<1>10. c \in CallStates /\ c.verb = verb /\ c.path = {x}
  BY DEF CallStates
<1> HIDE DEF n, c, stage
<1>11. /\ call' \in [Granters -> CallStates] /\ call'[g] = c
       /\ \A h \in Granters : h # g => call'[h] = call[h]
  BY <1>1, <1>10 DEF TypeInv
<1>12. /\ writer' \in [Writers -> WriterStates] /\ writer'[g] = n /\ OthersWrite(g)
  BY <1>1, <1>5, <1>9 DEF TypeInv, OthersWrite
<1>13. calls' \in Nat
  BY <1>1 DEF TypeInv
<1>14. /\ promise' \in PromiseTypes /\ promise'[i][x] = "unknown"
       /\ \A j \in Runs, y \in Paths : j # i \/ y # x => promise'[j][y] = promise[j][y]
  BY <1>1, <1>3 DEF TypeInv, PromiseTypes
<1>15. old = Policy(i, old.grants) /\ old = file[p]["record"].name
  BY <1>1, <1>2, Kinds DEF old
<1>16. stage = IF new = old.grants THEN "done" ELSE "mkdir"
  BY DEF stage
<1>17. old.run = i
  OBVIOUS
<1> HIDE DEF i
<1> QED
  BY <1>1, <1>3, <1>4, <1>6, <1>7, <1>9, <1>10, <1>11, <1>12, <1>13, <1>14, <1>15, <1>16, <1>17

LEMMA GrantReturnsDoes ==
    ASSUME TypeInv, Base, NEW g \in Granters, GrantReturns(g)
    PROVE  LET i == writer[g].policy.run  said == Says(call[g].verb) IN
           /\ call[g] # NoCall /\ writer[g].stage = "done" /\ i \in Runs
           /\ dir' = dir /\ file' = file /\ run' = run /\ cmd' = cmd /\ deaths' = deaths
           /\ calls' = calls
           /\ call' \in [Granters -> CallStates] /\ call'[g] = NoCall
           /\ \A h \in Granters : h # g => call'[h] = call[h]
           /\ promise' \in PromiseTypes
           /\ \A x \in Paths : promise'[i][x] = IF x \in call[g].path THEN said ELSE promise[i][x]
           /\ \A j \in Runs : j # i => promise'[j] = promise[j]
           /\ writer' \in [Writers -> WriterStates] /\ OthersWrite(g) /\ writer'[g] = Idle
<1> DEFINE i == writer[g].policy.run
           said == Says(call[g].verb)
           f == [x \in Paths |-> IF x \in call[g].path THEN said ELSE promise[i][x]]
<1>1. g \in Writers /\ writer[g].stage = "done" /\ call[g] # NoCall
  BY Sets DEF GrantReturns
<1>2. i \in Runs
  BY <1>1, WriterAt DEF Writes
<1>3. /\ dir' = dir /\ file' = file /\ run' = run /\ cmd' = cmd /\ deaths' = deaths
      /\ calls' = calls
      /\ call' = [call EXCEPT ![g] = NoCall] /\ writer' = [writer EXCEPT ![g] = Idle]
  BY DEF GrantReturns, disk
<1>4. promise' = [promise EXCEPT ![i] = f]
  BY <1>2 DEF GrantReturns, TypeInv
<1>5. said \in {"allowed", "denied"}
  BY DEF Says
<1> HIDE DEF said
<1>6. f \in [Paths -> {"denied", "allowed", "unknown"}]
  BY <1>2, <1>5 DEF TypeInv
<1>7. \A x \in Paths : f[x] = IF x \in call[g].path THEN said ELSE promise[i][x]
  OBVIOUS
<1> HIDE DEF f
<1>8. /\ promise' \in PromiseTypes /\ promise'[i] = f
      /\ \A j \in Runs : j # i => promise'[j] = promise[j]
  BY <1>2, <1>4, <1>6 DEF TypeInv, PromiseTypes
<1>9. /\ call' \in [Granters -> CallStates] /\ call'[g] = NoCall
      /\ \A h \in Granters : h # g => call'[h] = call[h]
  BY <1>3, Sets DEF TypeInv
<1>10. writer' \in [Writers -> WriterStates] /\ OthersWrite(g) /\ writer'[g] = Idle
  BY <1>1, <1>3, WriterIdle
<1> QED
  BY <1>1, <1>2, <1>3, <1>7, <1>8, <1>9, <1>10 DEF said

LEMMA GrantFailsDoes ==
    ASSUME TypeInv, NEW g \in Granters, GrantFails(g)
    PROVE  /\ call[g] # NoCall
           /\ \/ WriteFails(g) /\ deaths' = deaths
              \/ deaths' # deaths /\ deaths' # 0
           /\ deaths' \in Nat
           /\ dir' = dir /\ file' = file /\ run' = run /\ cmd' = cmd /\ promise' = promise
           /\ calls' = calls
           /\ call' \in [Granters -> CallStates] /\ call'[g] = NoCall
           /\ \A h \in Granters : h # g => call'[h] = call[h]
           /\ writer' \in [Writers -> WriterStates] /\ OthersWrite(g) /\ writer'[g] = Idle
<1>1. /\ dir' = dir /\ file' = file /\ run' = run /\ cmd' = cmd /\ promise' = promise
      /\ calls' = calls /\ call[g] # NoCall
      /\ call' = [call EXCEPT ![g] = NoCall] /\ writer' = [writer EXCEPT ![g] = Idle]
  BY DEF GrantFails, disk
<1>2. deaths \in Nat /\ (\/ WriteFails(g) /\ deaths' = deaths
                         \/ deaths' = deaths + 1)
  BY DEF GrantFails, TypeInv
<1>3. deaths' \in Nat /\ (\/ WriteFails(g) /\ deaths' = deaths
                          \/ deaths' # deaths /\ deaths' # 0)
  BY <1>2
<1>4. /\ call' \in [Granters -> CallStates] /\ call'[g] = NoCall
      /\ \A h \in Granters : h # g => call'[h] = call[h]
  BY <1>1, Sets DEF TypeInv
<1>5. writer' \in [Writers -> WriterStates] /\ OthersWrite(g) /\ writer'[g] = Idle
  BY <1>1, Sets, WriterIdle
<1> QED
  BY <1>1, <1>3, <1>4, <1>5

LEMMA Joined ==
    ASSUME NEW a, NEW b
    PROVE  LET s == <<a>> \o <<b>> IN DOMAIN s = {1, 2} /\ s[1] = a /\ s[2] = b
<1> DEFINE s == <<a>> \o <<b>>
<1>1. <<a>> \in Seq({a, b}) /\ <<b>> \in Seq({a, b}) /\ Len(<<a>>) = 1 /\ Len(<<b>>) = 1
  OBVIOUS
<1>2. s \in Seq({a, b}) /\ Len(s) = 2 /\ s[1] = a /\ s[2] = b
  BY <1>1
<1> HIDE DEF s
<1>3. DOMAIN s = 1 .. 2
  BY <1>2
<1> QED
  BY <1>2, <1>3 DEF s

(* The directory found is that of the agent's pid or of the run's own.     *)
LEMMA FindDoes ==
    ASSUME TypeInv, NEW i \in Runs, Find(i)
    PROVE  /\ cmd' \in CommandStates /\ cmd'.run = i
           /\ cmd'.at = NoPid
              \/ /\ cmd'.at \in Pids /\ dir[cmd'.at]
                 /\ \/ cmd'.at = run[i].agent
                    \/ run[i].stage = "running" /\ cmd'.at = run[i].pid
<1> DEFINE at == FindSession(i)
           found == {k \in DOMAIN Ancestors(i) : Ancestors(i)[k] \in Dirs}
<1>1. /\ DOMAIN Ancestors(i) \subseteq {1, 2}
      /\ 1 \in DOMAIN Ancestors(i) /\ Ancestors(i)[1] = run[i].agent
      /\ 2 \in DOMAIN Ancestors(i) =>
             run[i].stage = "running" /\ Ancestors(i)[2] = run[i].pid
  <2>1. CASE run[i].stage = "running"
    <3> DEFINE a == run[i].agent
               b == run[i].pid
    <3>1. Ancestors(i) = <<a>> \o <<b>>
      BY <2>1 DEF Ancestors
    <3> HIDE DEF a, b
    <3>2. LET s == <<a>> \o <<b>> IN DOMAIN s = {1, 2} /\ s[1] = a /\ s[2] = b
      BY Joined
    <3> QED
      BY <2>1, <3>1, <3>2 DEF a, b
  <2>2. CASE run[i].stage # "running"
    <3>1. Ancestors(i) = <<run[i].agent>>
      BY <2>2 DEF Ancestors
    <3> QED
      BY <2>2, <3>1
  <2> QED
    BY <2>1, <2>2
<1>2. at = NoPid \/ \E k \in DOMAIN Ancestors(i) : at = Ancestors(i)[k] /\ at \in Dirs
  <2>1. CASE found = {}
    BY <2>1 DEF FindSession
  <2>2. CASE found # {}
    <3>1. \E k \in found : \A j \in found : k <= j
      <4>1. found \subseteq {1, 2}
        BY <1>1
      <4>2. CASE 1 \in found
        BY <4>1, <4>2
      <4>3. CASE 1 \notin found
        BY <2>2, <4>1, <4>3
      <4> QED
        BY <4>2, <4>3
    <3> DEFINE k == CHOOSE k \in found : \A j \in found : k <= j
    <3>2. k \in found
      BY <3>1
    <3>3. at = Ancestors(i)[k]
      BY <2>2 DEF FindSession
    <3> QED
      BY <3>2, <3>3
  <2> QED
    BY <2>1, <2>2
<1>3. \/ at = NoPid
      \/ /\ at \in Pids /\ dir[at]
         /\ at = run[i].agent \/ (run[i].stage = "running" /\ at = run[i].pid)
  BY <1>1, <1>2 DEF Dirs
<1>4. cmd' = [stage |-> "found", run |-> i, at |-> at]
  BY DEF Find
<1> HIDE DEF at
<1>5. cmd' \in CommandStates /\ cmd'.run = i /\ cmd'.at = at
  BY <1>3, <1>4 DEF CommandStates
<1> QED
  BY <1>3, <1>5

-----------------------------------------------------------------------------
(* The steps, and types.                                                   *)

History ==
    /\ clash' = {p \in Pids : (p \in clash \/ Clashes(p)') /\ ~ Forgotten(p)'}
    /\ broken' = {p \in Pids : p \in broken \cup Interrupted /\ ~ Forgotten(p)'}
Else == call' = call /\ cmd' = cmd /\ promise' = promise /\ calls' = calls /\ deaths' = deaths
RunOnly(i) ==
    \/ OpenDir(i) \/ NoDir(i) \/ AgentEnds(i) \/ OrphanEnds(i)
    \/ \E p \in Pids : Start(i, p) \/ Check(i, p)
Leaves(i) ==
    \/ \E a \in Pids \cup {OtherPid} : Launch(i, a)
    \/ RunFails(i)

LEMMA Steps ==
    ASSUME Next
    PROVE  /\ History
           /\ \/ Else /\ \E i \in Runs :
                     \/ RunOnly(i) \/ Leaves(i) \/ Own(i) \/ Rmdir(i)
                     \/ \E n \in run[i].left : Unlink(i, n)
              \/ Else /\ run' = run /\ \E w \in Writers : WriteStep(w)
              \/ \E i \in Runs : RunDies(i)
              \/ \E g \in Granters : GrantReturns(g) \/ GrantFails(g)
              \/ \E g \in Granters, verb \in {"allow", "deny"}, x \in Paths, p \in Pids :
                     Grant(g, verb, x, p)
              \/ /\ \/ \E i \in Runs : Find(i)
                    \/ cmd' = NoCommand
                 /\ UNCHANGED <<dir, file, run, writer, call, promise, calls, deaths>>
<1>1. History /\ Step
  BY DEF Next, History
<1>2. ASSUME NEW i \in Runs, RunStep(i), UNCHANGED <<call, cmd, promise, calls, deaths>>
      PROVE  \/ Else /\ (\/ RunOnly(i) \/ Leaves(i) \/ Own(i) \/ Rmdir(i)
                         \/ \E n \in run[i].left : Unlink(i, n))
             \/ Else /\ run' = run /\ \E w \in Writers : WriteStep(w)
  BY <1>2, Sets DEF RunStep, RunOnly, Leaves, Else
<1>3. ASSUME NEW g \in Granters, WriteStep(g), UNCHANGED <<run, call, cmd, promise, calls, deaths>>
      PROVE  Else /\ run' = run /\ \E w \in Writers : WriteStep(w)
  BY <1>3, Sets DEF Else
<1>4. ASSUME NEW a \in Pids \cup {NoPid}, NEW p \in Target(a) PROVE p \in Pids
  BY DEF Target
<1>5. ASSUME (\E i \in Runs : Find(i)) \/ Apply \/ Refuse,
             UNCHANGED <<disk, run, writer, call, promise, calls, deaths>>
      PROVE  /\ (\E i \in Runs : Find(i)) \/ cmd' = NoCommand
             /\ UNCHANGED <<dir, file, run, writer, call, promise, calls, deaths>>
  BY <1>5 DEF disk, Apply, Refuse
<1> HIDE DEF History
<1> QED
  BY <1>1, <1>2, <1>3, <1>4, <1>5 DEF Step

FileTypes == [Pids -> [Files -> [name : Contents, tmp : Contents]]]

LEMMA RunOnlyDoes ==
    ASSUME TypeInv, NEW i \in Runs, RunOnly(i)
    PROVE  /\ run' \in [Runs -> RunStates] /\ OthersRun(i)
           /\ dir' = dir /\ file' = file /\ writer' = writer
<1>1. ASSUME NEW p \in Pids, Start(i, p) \/ Check(i, p)
      PROVE  /\ run' \in [Runs -> RunStates] /\ OthersRun(i)
             /\ dir' = dir /\ file' = file /\ writer' = writer
  BY <1>1, StartDoes, CheckDoes
<1> QED
  BY <1>1, OpenDirDoes, NoDirDoes, AgentEndsDoes, OrphanEndsDoes DEF RunOnly

LEMMA LeavesDoes ==
    ASSUME TypeInv, NEW i \in Runs, Leaves(i)
    PROVE  LET r == run[i] IN
           /\ r.stage = "write"
           /\ run' \in [Runs -> RunStates] /\ OthersRun(i)
           /\ run'[i].pid = r.pid /\ run'[i].todo = r.todo
           /\ \/ /\ \E a \in Pids \cup {OtherPid} : Launch(i, a)
                 /\ writer[i].stage = "done"
                 /\ run'[i].stage = "running" /\ run'[i].target = r.target
              \/ /\ RunFails(i)
                 /\ run'[i].stage = "drop" /\ run'[i].target = r.pid
                 /\ run'[i].agent = r.agent
           /\ dir' = dir /\ file' = file
           /\ writer' \in [Writers -> WriterStates] /\ OthersWrite(i) /\ writer'[i] = Idle
<1>1. CASE RunFails(i)
  BY <1>1, RunFailsDoes DEF RunAs
<1>2. CASE \E a \in Pids \cup {OtherPid} : Launch(i, a)
  BY <1>2, LaunchDoes DEF RunAs
<1> QED
  BY <1>1, <1>2 DEF Leaves

LEMMA WriteStepTypes ==
    ASSUME TypeInv, Base, NEW w \in Writers, WriteStep(w)
    PROVE  /\ dir' \in [Pids -> BOOLEAN] /\ file' \in FileTypes
           /\ writer' \in [Writers -> WriterStates]
<1>1. dir \in [Pids -> BOOLEAN] /\ file \in FileTypes
  BY DEF TypeInv, FileTypes
<1>2. CASE MakeDir(w)
  BY <1>1, <1>2, MakeDirDoes
<1>3. CASE OpenTmp(w)
  BY <1>1, <1>3, OpenTmpDoes DEF FileTypes
<1>4. CASE WriteAll(w)
  BY <1>1, <1>4, WriteAllDoes DEF FileTypes
<1>5. CASE Rename(w)
  BY <1>1, <1>5, RenameDoes DEF FileTypes
<1> QED
  BY <1>2, <1>3, <1>4, <1>5 DEF WriteStep

LEMMA TypeStep ==
    ASSUME TypeInv, Base, Next
    PROVE  TypeInv'
<1> DEFINE Disk == /\ dir' \in [Pids -> BOOLEAN] /\ file' \in FileTypes
                   /\ run' \in [Runs -> RunStates] /\ writer' \in [Writers -> WriterStates]
           Talk == /\ call' \in [Granters -> CallStates] /\ cmd' \in CommandStates
                   /\ promise' \in PromiseTypes /\ calls' \in Nat /\ deaths' \in Nat
<1>1. clash' \in SUBSET Pids /\ broken' \in SUBSET Pids
  BY DEF Next
<1>2. /\ dir \in [Pids -> BOOLEAN] /\ file \in FileTypes
      /\ run \in [Runs -> RunStates] /\ writer \in [Writers -> WriterStates]
      /\ call \in [Granters -> CallStates] /\ cmd \in CommandStates
      /\ promise \in PromiseTypes /\ calls \in Nat /\ deaths \in Nat
  BY DEF TypeInv, FileTypes, PromiseTypes
<1>3. ASSUME Else PROVE Talk
  BY <1>2, <1>3 DEF Else
<1>4. ASSUME NEW i \in Runs, RunOnly(i) PROVE Disk
  BY <1>2, <1>4, RunOnlyDoes
<1>5. ASSUME NEW i \in Runs, Leaves(i) PROVE Disk
  BY <1>2, <1>5, LeavesDoes
<1>6. ASSUME NEW i \in Runs, Own(i) PROVE Disk
  BY <1>2, <1>6, OwnDoes DEF WriterBecomes
<1>7. ASSUME NEW i \in Runs, Rmdir(i) PROVE Disk
  BY <1>2, <1>7, RmdirDoes
<1>8. ASSUME NEW i \in Runs, NEW n \in run[i].left, Unlink(i, n) PROVE Disk
  <2>1. file' \in FileTypes
    BY <1>8, UnlinkDoes DEF FileTypes
  <2> QED
    BY <1>2, <1>8, <2>1, UnlinkDoes
<1>9. ASSUME NEW w \in Writers, WriteStep(w), run' = run PROVE Disk
  BY <1>2, <1>9, WriteStepTypes
<1>10. ASSUME NEW i \in Runs, RunDies(i) PROVE Disk /\ Talk
  BY <1>2, <1>10, RunDiesDoes
<1>11. ASSUME NEW g \in Granters, GrantReturns(g) PROVE Disk /\ Talk
  BY <1>2, <1>11, GrantReturnsDoes
<1>12. ASSUME NEW g \in Granters, GrantFails(g) PROVE Disk /\ Talk
  BY <1>2, <1>12, GrantFailsDoes
<1>13. ASSUME NEW g \in Granters, NEW verb \in {"allow", "deny"}, NEW x \in Paths, NEW p \in Pids,
              Grant(g, verb, x, p)
       PROVE  Disk /\ Talk
  BY <1>2, <1>13, GrantDoes DEF WriterBecomes
<1>14. ASSUME (\E i \in Runs : Find(i)) \/ cmd' = NoCommand,
              UNCHANGED <<dir, file, run, writer, call, promise, calls, deaths>>
       PROVE  Disk /\ Talk
  <2>1. cmd' \in CommandStates
    BY <1>14, FindDoes, Sets
  <2> QED
    BY <1>2, <1>14, <2>1
<1>15. Disk /\ Talk
  <2> HIDE DEF Disk, Talk
  <2> QED
    BY <1>3, <1>4, <1>5, <1>6, <1>7, <1>8, <1>9, <1>10, <1>11, <1>12, <1>13, <1>14, Steps
<1> QED
  BY <1>1, <1>15 DEF TypeInv, FileTypes, PromiseTypes

-----------------------------------------------------------------------------
(* Where runs, writers and policies are stays so.                          *)

(* Who runs in a step; nobody else's state changes.                        *)
Acts(i) ==
    \/ RunOnly(i) \/ Leaves(i) \/ Own(i) \/ Rmdir(i) \/ RunDies(i)
    \/ \E n \in run[i].left : Unlink(i, n)

LEMMA OwnShape ==
    ASSUME TypeInv, Base, NEW i \in Runs, Acts(i)
    PROVE  RunShape(i)'
<1>1. RunShape(i) /\ run[i] \in RunStates
  BY DEF Base, TypeInv
<1> USE DEF RunShape, RunAs, Ended, Sweeping, InPlace
<1>2. CASE OpenDir(i)
  BY <1>1, <1>2, OpenDirDoes DEF RunStates
<1>3. CASE NoDir(i) \/ RunDies(i)
  BY <1>1, <1>3, NoDirDoes, RunDiesDoes
<1>4. CASE AgentEnds(i)
  BY <1>1, <1>4, AgentEndsDoes
<1>5. CASE OrphanEnds(i)
  BY <1>1, <1>5, OrphanEndsDoes
<1>6. ASSUME NEW p \in Pids, Start(i, p) PROVE RunShape(i)'
  <2>1. NoPid \notin Pids /\ Dirs \subseteq Pids
    BY RunSessionAssumption DEF Dirs
  <2> QED
    BY <1>1, <1>6, <2>1, StartDoes
<1>7. ASSUME NEW p \in Pids, Check(i, p) PROVE RunShape(i)'
  <2>1. run[i].todo \subseteq Pids /\ NoPid \notin Pids
    BY <1>1, RunSessionAssumption DEF RunStates
  <2>2. run[i].pid = p => Alive(p)
    BY DEF Alive
  <2> QED
    BY <1>1, <1>7, <2>1, <2>2, CheckDoes
<1>8. CASE Leaves(i)
  <2>1. CASE \E a \in Pids \cup {OtherPid} : Launch(i, a)
    BY <1>1, <2>1, LaunchDoes
  <2>2. CASE RunFails(i)
    BY <1>1, <2>2, RunFailsDoes
  <2> QED
    BY <1>8, <2>1, <2>2 DEF Leaves
<1>9. CASE Own(i)
  BY <1>1, <1>9, OwnDoes
<1>10. CASE Rmdir(i)
  <2>1. NoPid \notin Pids /\ run[i].todo \subseteq Pids
    BY <1>1, RunSessionAssumption DEF RunStates
  <2> QED
    BY <1>1, <1>10, <2>1, RmdirDoes
<1>11. ASSUME NEW n \in run[i].left, Unlink(i, n) PROVE RunShape(i)'
  BY <1>1, <1>11, UnlinkDoes
<1> QED
  BY <1>2, <1>3, <1>4, <1>5, <1>6, <1>7, <1>8, <1>9, <1>10, <1>11 DEF Acts, RunOnly

LEMMA ActsAlone ==
    ASSUME TypeInv, Base, NEW i \in Runs, Acts(i)
    PROVE  OthersRun(i)
BY RunOnlyDoes, LeavesDoes, OwnDoes, RmdirDoes, RunDiesDoes, UnlinkDoes DEF Acts

LEMMA WhoActs ==
    ASSUME TypeInv, Base, Next
    PROVE  run' = run \/ \E i \in Runs : Acts(i)
<1>1. ASSUME NEW g \in Granters, GrantReturns(g) \/ GrantFails(g) PROVE run' = run
  BY <1>1, GrantReturnsDoes, GrantFailsDoes
<1>2. ASSUME NEW g \in Granters, NEW verb \in {"allow", "deny"}, NEW x \in Paths, NEW p \in Pids,
             Grant(g, verb, x, p)
      PROVE  run' = run
  BY <1>2, GrantDoes
<1> QED
  BY <1>1, <1>2, Steps DEF Acts

LEMMA RunShapeStep ==
    ASSUME TypeInv, Base, Next
    PROVE  \A i \in Runs : RunShape(i)'
<1>1. ASSUME run' = run, NEW j \in Runs PROVE RunShape(j)'
  BY <1>1 DEF Base, RunShape
<1>2. ASSUME NEW i \in Runs, Acts(i), NEW j \in Runs PROVE RunShape(j)'
  <2>1. CASE j = i
    BY <1>2, <2>1, OwnShape DEF Acts
  <2>2. CASE j # i
    BY <1>2, <2>2, ActsAlone DEF OthersRun, Base, RunShape
  <2> QED
    BY <2>1, <2>2
<1> QED
  BY <1>1, <1>2, WhoActs

(* A pid that was free, or the one it had.                                 *)
LEMMA ActsPid ==
    ASSUME TypeInv, Base, NEW i \in Runs, Acts(i)
    PROVE  \/ run'[i].pid = run[i].pid \/ run'[i].pid = NoPid
           \/ \A j \in Runs : run[j].pid # run'[i].pid
<1>1. ASSUME NEW p \in Pids, Start(i, p)
      PROVE  \A j \in Runs : run[j].pid # run'[i].pid
  BY <1>1, StartDoes DEF RunAs, Alive
<1>2. ASSUME NEW p \in Pids, Check(i, p) PROVE run'[i].pid = run[i].pid
  BY <1>2, CheckDoes DEF RunAs
<1>3. ASSUME RunOnly(i) \/ RunDies(i)
      PROVE  \/ run'[i].pid = run[i].pid \/ run'[i].pid = NoPid
             \/ \A j \in Runs : run[j].pid # run'[i].pid
  BY <1>1, <1>2, <1>3, OpenDirDoes, NoDirDoes, AgentEndsDoes, OrphanEndsDoes, RunDiesDoes
     DEF RunOnly, RunAs
<1>4. ASSUME NEW n \in run[i].left, Unlink(i, n) PROVE run'[i].pid = run[i].pid
  BY <1>4, UnlinkDoes DEF RunAs
<1>5. ASSUME Leaves(i) \/ Own(i) \/ Rmdir(i)
      PROVE  run'[i].pid = run[i].pid \/ run'[i].pid = NoPid
  BY <1>5, LeavesDoes, OwnDoes, RmdirDoes DEF RunAs
<1> QED
  BY <1>3, <1>4, <1>5 DEF Acts

LEMMA OnePidStep ==
    ASSUME TypeInv, Base, Next
    PROVE  OnePid'
<1>1. OnePid
  BY DEF Base
<1>2. CASE run' = run
  BY <1>1, <1>2 DEF OnePid
<1>3. ASSUME NEW i \in Runs, Acts(i) PROVE OnePid'
  <2>1. OthersRun(i)
    BY <1>3, ActsAlone
  <2>2. \/ run'[i].pid = run[i].pid \/ run'[i].pid = NoPid
        \/ \A j \in Runs : run[j].pid # run'[i].pid
    BY <1>3, ActsPid
  <2> QED
    BY <1>1, <2>1, <2>2 DEF OnePid, OthersRun
<1> QED
  BY <1>2, <1>3, WhoActs

(* Whether i writes its first policy depends on these steps alone.         *)
LEMMA ActsWrite ==
    ASSUME TypeInv, Base, NEW i \in Runs, RunOnly(i) \/ Rmdir(i) \/ \E n \in run[i].left : Unlink(i, n)
    PROVE  /\ run[i].stage # "write" /\ run'[i].stage # "write"
           /\ \A v \in Writers : v \in Runs =>
                  /\ run'[v].stage = "write" <=> run[v].stage = "write"
                  /\ run[v].stage = "write" => run'[v].pid = run[v].pid
<1>1. ASSUME NEW p \in Pids, Start(i, p) \/ Check(i, p)
      PROVE  run[i].stage # "write" /\ run'[i].stage # "write"
  BY <1>1, StartDoes, CheckDoes DEF RunAs
<1>2. ASSUME RunOnly(i) PROVE run[i].stage # "write" /\ run'[i].stage # "write"
  BY <1>1, <1>2, OpenDirDoes, NoDirDoes, AgentEndsDoes, OrphanEndsDoes DEF RunOnly, RunAs
<1>3. ASSUME Rmdir(i) \/ \E n \in run[i].left : Unlink(i, n)
      PROVE  run[i].stage # "write" /\ run'[i].stage # "write"
  BY <1>3, RmdirDoes, UnlinkDoes DEF RunAs
<1>4. run[i].stage # "write" /\ run'[i].stage # "write"
  BY <1>2, <1>3
<1>5. Acts(i)
  BY DEF Acts
<1>6. \A j \in Runs \ {i} : run'[j] = run[j]
  BY <1>5, ActsAlone DEF OthersRun
<1> QED
  BY <1>4, <1>6

LEMMA WriterShapeRuns ==
    ASSUME TypeInv, Base, Else, NEW i \in Runs,
           RunOnly(i) \/ Rmdir(i) \/ Leaves(i) \/ Own(i), NEW v \in Writers
    PROVE  WriterShape(v)'
<1>1. WriterShape(v) /\ call' = call
  BY DEF Base, Else
<1>2. CASE RunOnly(i) \/ Rmdir(i)
  <2>1. writer' = writer /\ file' = file
    BY <1>2, RunOnlyDoes, RmdirDoes
  <2>2. v \in Runs => /\ run'[v].stage = "write" <=> run[v].stage = "write"
                      /\ run[v].stage = "write" => run'[v].pid = run[v].pid
    BY <1>2, ActsWrite
  <2> QED
    BY <1>1, <2>1, <2>2 DEF WriterShape
<1>3. i \in Writers /\ i \notin Granters
  BY Sets
<1>4. CASE Leaves(i)
  <2>1. /\ file' = file /\ writer'[i] = Idle /\ OthersWrite(i) /\ OthersRun(i)
        /\ run'[i].stage # "write"
    BY <1>4, LeavesDoes
  <2>2. CASE v = i
    BY <1>3, <2>1, <2>2 DEF WriterShape, Idle
  <2>3. CASE v # i
    <3>1. writer'[v] = writer[v] /\ (v \in Runs => run'[v] = run[v])
      BY <2>1, <2>3 DEF OthersWrite, OthersRun
    <3> QED
      BY <1>1, <2>1, <3>1 DEF WriterShape
  <2> QED
    BY <2>2, <2>3
<1>5. CASE Own(i)
  <2>1. /\ file' = file /\ OthersWrite(i) /\ OthersRun(i)
        /\ run'[i].stage = "write" /\ run'[i].pid = run[i].pid /\ run[i].pid \in Pids
        /\ writer'[i].stage = "mkdir" /\ writer'[i].pid = run[i].pid
        /\ writer'[i].policy = Policy(i, {})
    BY <1>5, OwnDoes DEF RunAs, WriterBecomes
  <2>2. CASE v = i
    BY <1>3, <2>1, <2>2, Kinds DEF WriterShape
  <2>3. CASE v # i
    <3>1. writer'[v] = writer[v] /\ (v \in Runs => run'[v] = run[v])
      BY <2>1, <2>3 DEF OthersWrite, OthersRun
    <3> QED
      BY <1>1, <2>1, <3>1 DEF WriterShape
  <2> QED
    BY <2>2, <2>3
<1> QED
  BY <1>2, <1>4, <1>5

LEMMA WriterShapeUnlink ==
    ASSUME TypeInv, Base, Else, NEW i \in Runs, NEW n \in run[i].left, Unlink(i, n),
           NEW v \in Writers
    PROVE  WriterShape(v)'
<1> DEFINE p == run[i].target
<1>1. WriterShape(v) /\ call' = call /\ writer[v] \in WriterStates
  BY DEF Base, Else, TypeInv
<1>2. v \in Runs => /\ run'[v].stage = "write" <=> run[v].stage = "write"
                    /\ run[v].stage = "write" => run'[v].pid = run[v].pid
  BY ActsWrite
<1>3. i \in Writers /\ run[i].stage \in {"swept", "dropped"}
  BY Sets, UnlinkDoes
<1>4. writer[i] = Idle
  BY <1>3 DEF Base, WriterShape
<1>5. /\ writer'[v].stage = writer[v].stage /\ writer'[v].pid = writer[v].pid
      /\ writer'[v].file = writer[v].file /\ writer'[v].policy = writer[v].policy
      /\ writer'[v] = writer[v] \/ (writer[v].pid = p /\ v # i)
      /\ v # i /\ writer[v].pid = p /\ writer[v].file = n[1] /\ writer[v].fd = n[2] =>
             writer'[v].fd = "gone"
      /\ ~ (writer[v].file = n[1] /\ writer[v].fd = n[2]) => writer'[v] = writer[v]
  BY UnlinkDoes
<1>6. p \in Pids
  <2>1. RunShape(i) /\ run[i].pid \in Pids
    BY <1>3 DEF Base, RunShape, Ended
  <2> QED
    BY <1>3, <2>1 DEF RunShape
<1>7. CASE writer[v].stage = "idle"
  <2>1. writer[v].pid = NoPid
    BY <1>1, <1>7 DEF WriterShape, Idle
  <2>2. writer'[v] = writer[v]
    BY <1>5, <1>6, <2>1, RunSessionAssumption
  <2> QED
    BY <1>1, <1>2, <1>7, <2>2 DEF WriterShape
<1>8. CASE writer[v].stage # "idle"
  <2>1. v # i
    BY <1>4, <1>8 DEF Idle
  <2>2. writer'[v].stage = "write" =>
            /\ writer'[v].fd # "none"
            /\ writer'[v].fd # "gone" =>
                   file'[writer'[v].pid][writer'[v].file][writer'[v].fd] # NoFile
    <3> SUFFICES ASSUME writer[v].stage = "write"
                 PROVE  /\ writer'[v].fd # "none"
                        /\ writer'[v].fd # "gone" =>
                               file'[writer[v].pid][writer[v].file][writer'[v].fd] # NoFile
      BY <1>5
    <3>1. /\ writer[v].pid \in Pids /\ writer[v].file \in Files
          /\ writer[v].fd \in {"tmp", "name", "gone"}
          /\ writer[v].fd # "gone" =>
                 file[writer[v].pid][writer[v].file][writer[v].fd] # NoFile
      BY <1>1, <1>8 DEF WriterShape, WriterStates
    <3>2. CASE writer[v].pid = p /\ writer[v].file = n[1] /\ writer[v].fd = n[2]
      BY <1>5, <2>1, <3>2
    <3>3. CASE ~ (writer[v].pid = p /\ writer[v].file = n[1] /\ writer[v].fd = n[2])
      <4>1. writer'[v] = writer[v]
        BY <1>5, <3>3
      <4>2. writer[v].fd # "gone" =>
                file'[writer[v].pid][writer[v].file][writer[v].fd]
                    = file[writer[v].pid][writer[v].file][writer[v].fd]
        <5> SUFFICES ASSUME writer[v].fd # "gone"
                     PROVE  file'[writer[v].pid][writer[v].file][writer[v].fd]
                                = file[writer[v].pid][writer[v].file][writer[v].fd]
          OBVIOUS
        <5>1. writer[v].fd \in Slots
          BY <3>1 DEF Slots
        <5>2. /\ \A q \in Pids : q # p => file'[q] = file[q]
              /\ \A e \in Files : e # n[1] => file'[p][e] = file[p][e]
              /\ \A k \in Slots : k # n[2] => file'[p][n[1]][k] = file[p][n[1]][k]
          BY <1>6, UnlinkDoes
        <5> HIDE DEF p
        <5> QED
          BY <3>1, <3>3, <5>1, <5>2
      <4> QED
        BY <3>1, <4>1, <4>2
    <3> QED
      BY <3>2, <3>3
  <2> QED
    BY <1>1, <1>2, <1>5, <1>8, <2>2 DEF WriterShape
<1> QED
  BY <1>7, <1>8

LEMMA WriterShapeWrites ==
    ASSUME TypeInv, Base, Else, NEW w \in Writers, WriteStep(w), run' = run, NEW v \in Writers
    PROVE  WriterShape(v)'
<1> DEFINE p == writer[w].pid
           f == writer[w].file
           Held(x) == x.fd # "gone" => file'[x.pid][x.file][x.fd] # NoFile
<1>1. /\ WriterShape(v) /\ WriterShape(w) /\ call' = call
      /\ writer[v] \in WriterStates /\ writer[w] \in WriterStates
  BY DEF Base, Else, TypeInv
<1>2. /\ p \in Pids /\ f \in Files /\ writer[w].policy # NoFile /\ writer[w].stage # "idle"
  BY WriterAt DEF WriteStep, MakeDir, OpenTmp, WriteAll, Rename, Writes
<1>3. \A c \in {Empty, Mixed} : c # NoFile
  BY Kinds
<1>4. ASSUME v # w, writer'[v] = writer[v],
             writer[v].stage = "write" => Held(writer[v])
      PROVE  WriterShape(v)'
  BY <1>1, <1>4 DEF WriterShape
<1>5. ASSUME v = w, writer'[w].stage # "idle", writer'[w].pid = p,
             writer'[w].policy = writer[w].policy,
             writer'[w].stage = "write" => writer'[w].fd # "none" /\ Held(writer'[w])
      PROVE  WriterShape(v)'
  BY <1>1, <1>2, <1>5 DEF WriterShape
<1>6. ASSUME writer[v].stage = "write"
      PROVE  /\ writer[v].pid \in Pids /\ writer[v].file \in Files
             /\ writer[v].fd \in {"tmp", "name", "gone"}
             /\ writer[v].fd # "gone" =>
                    file[writer[v].pid][writer[v].file][writer[v].fd] # NoFile
  BY <1>1, <1>6 DEF WriterShape, WriterStates
<1>7. CASE MakeDir(w)
  <2>1. /\ file' = file /\ OthersWrite(w) /\ writer'[w].stage = "open" /\ writer'[w].pid = p
        /\ writer'[w].policy = writer[w].policy
    BY <1>7, MakeDirDoes
  <2>2. CASE v = w
    BY <1>5, <2>1, <2>2
  <2>3. CASE v # w
    BY <1>4, <1>6, <2>1, <2>3 DEF OthersWrite
  <2> QED
    BY <2>2, <2>3
<1>8. CASE OpenTmp(w)
  <2>1. /\ \A q \in Pids : q # p => file'[q] = file[q]
        /\ \A e \in Files : e # f => file'[p][e] = file[p][e]
        /\ file'[p][f].name = file[p][f].name /\ file'[p][f].tmp = Empty
        /\ OthersWrite(w) /\ writer'[w].stage = "write" /\ writer'[w].pid = p
        /\ writer'[w].file = f /\ writer'[w].fd = "tmp"
        /\ writer'[w].policy = writer[w].policy
    BY <1>8, OpenTmpDoes
  <2>2. CASE v = w
    BY <1>3, <1>5, <2>1, <2>2
  <2>3. CASE v # w
    <3>1. ASSUME writer[v].stage = "write" PROVE Held(writer[v])
      <4>1. CASE writer[v].pid = p /\ writer[v].file = f
        BY <1>3, <1>6, <2>1, <3>1, <4>1
      <4>2. CASE ~ (writer[v].pid = p /\ writer[v].file = f)
        BY <1>6, <2>1, <3>1, <4>2
      <4> QED
        BY <4>1, <4>2
    <3> QED
      BY <1>4, <2>1, <2>3, <3>1 DEF OthersWrite
  <2> QED
    BY <2>2, <2>3
<1>9. CASE WriteAll(w)
  <2> DEFINE fd == writer[w].fd
  <2>1. /\ \A q \in Pids : q # p => file'[q] = file[q]
        /\ \A e \in Files : e # f => file'[p][e] = file[p][e]
        /\ \A k \in Slots : k # fd => file'[p][f][k] = file[p][f][k]
        /\ fd = "gone" \/ file'[p][f][fd] \in {writer[w].policy, Mixed}
        /\ OthersWrite(w) /\ writer'[w].stage = "rename" /\ writer'[w].pid = p
        /\ writer'[w].policy = writer[w].policy
    BY <1>9, WriteAllDoes
  <2>2. CASE v = w
    BY <1>5, <2>1, <2>2
  <2>3. CASE v # w
    <3>1. ASSUME writer[v].stage = "write" PROVE Held(writer[v])
      <4>1. CASE writer[v].pid = p /\ writer[v].file = f /\ writer[v].fd = fd
        BY <1>2, <1>3, <1>6, <2>1, <3>1, <4>1
      <4>2. CASE ~ (writer[v].pid = p /\ writer[v].file = f /\ writer[v].fd = fd)
        BY <1>6, <2>1, <3>1, <4>2 DEF Slots
      <4> QED
        BY <4>1, <4>2
    <3> QED
      BY <1>4, <2>1, <2>3, <3>1 DEF OthersWrite
  <2> QED
    BY <2>2, <2>3
<1>10. CASE Rename(w)
  <2>1. /\ \A q \in Pids : q # p => file'[q] = file[q]
        /\ \A e \in Files : e # f => file'[p][e] = file[p][e]
        /\ file'[p][f].name = file[p][f].tmp /\ file[p][f].tmp # NoFile
        /\ writer'[w].stage \in {"mkdir", "done"} /\ writer'[w].pid = p
        /\ writer'[w].policy = writer[w].policy
    <3>1. file'[p][f] = [name |-> file[p][f].tmp, tmp |-> NoFile] /\ file[p][f].tmp # NoFile
      BY <1>10, RenameDoes
    <3> QED
      BY <1>10, <3>1, RenameDoes, SMTT(30)
  <2>2. CASE v = w
    BY <1>5, <2>1, <2>2
  <2>3. CASE v # w
    <3>1. /\ writer'[v].stage = writer[v].stage /\ writer'[v].pid = writer[v].pid
          /\ writer'[v].file = writer[v].file /\ writer'[v].policy = writer[v].policy
          /\ writer'[v] = writer[v] \/ writer[v].pid = p
          /\ writer[v].pid = p /\ writer[v].file = f =>
                 /\ writer[v].fd = "tmp" => writer'[v].fd = "name"
                 /\ writer[v].fd = "name" => writer'[v].fd = "gone"
                 /\ writer[v].fd = "gone" => writer'[v].fd = "gone"
          /\ writer[v].fd # "none" => writer'[v].fd # "none"
          /\ writer[v].file # f => writer'[v] = writer[v]
      BY <1>10, <2>3, RenameDoes
    <3>2. CASE ~ (writer[v].pid = p /\ writer[v].file = f)
      <4>1. writer[v].stage = "write" => Held(writer[v])
        BY <1>6, <2>1, <3>2
      <4>2. writer'[v] = writer[v]
        BY <3>1, <3>2
      <4> QED
        BY <1>4, <2>3, <4>1, <4>2
    <3>3. CASE writer[v].pid = p /\ writer[v].file = f
      <4>1. writer[v].stage # "idle"
        BY <1>1, <1>2, <3>3, RunSessionAssumption DEF WriterShape, Idle
      <4>2. writer[v].stage = "write" => Held(writer'[v]) /\ writer'[v].fd # "none"
        BY <1>6, <2>1, <3>1, <3>3
      <4> QED
        BY <1>1, <3>1, <4>1, <4>2 DEF WriterShape
    <3> QED
      BY <3>2, <3>3
  <2> QED
    BY <2>2, <2>3
<1> QED
  BY <1>7, <1>8, <1>9, <1>10 DEF WriteStep

LEMMA WriterShapeTalks ==
    ASSUME TypeInv, Base, NEW v \in Writers,
           \/ \E i \in Runs : RunDies(i)
           \/ \E g \in Granters : GrantReturns(g) \/ GrantFails(g)
           \/ \E g \in Granters, verb \in {"allow", "deny"}, x \in Paths, p \in Pids :
                  Grant(g, verb, x, p)
    PROVE  WriterShape(v)'
<1>1. WriterShape(v)
  BY DEF Base
<1>2. ASSUME NEW i \in Runs, RunDies(i) PROVE WriterShape(v)'
  <2>1. /\ OthersRun(i) /\ OthersWrite(i) /\ writer'[i] = Idle /\ run'[i].stage = "over"
        /\ call' = call /\ file' = file
    BY <1>2, RunDiesDoes DEF RunAs
  <2>2. i \in Writers /\ i \notin Granters
    BY Sets
  <2>3. CASE v = i
    BY <2>1, <2>2, <2>3 DEF WriterShape, Idle
  <2>4. CASE v # i
    <3>1. writer'[v] = writer[v] /\ (v \in Runs => run'[v] = run[v])
      BY <2>1, <2>4 DEF OthersWrite, OthersRun
    <3> QED
      BY <1>1, <2>1, <3>1 DEF WriterShape
  <2> QED
    BY <2>3, <2>4
<1>3. ASSUME NEW g \in Granters, GrantReturns(g) \/ GrantFails(g) PROVE WriterShape(v)'
  <2>1. /\ run' = run /\ OthersWrite(g) /\ writer'[g] = Idle /\ file' = file
        /\ call'[g] = NoCall /\ \A h \in Granters : h # g => call'[h] = call[h]
    BY <1>3, GrantReturnsDoes, GrantFailsDoes
  <2>2. g \in Writers /\ g \notin Runs
    BY Sets
  <2>3. CASE v = g
    BY <2>1, <2>2, <2>3 DEF WriterShape, Idle
  <2>4. CASE v # g
    <3>1. writer'[v] = writer[v] /\ (v \in Granters => call'[v] = call[v])
      BY <2>1, <2>4 DEF OthersWrite
    <3> QED
      BY <1>1, <2>1, <3>1 DEF WriterShape
  <2> QED
    BY <2>3, <2>4
<1>4. ASSUME NEW g \in Granters, NEW verb \in {"allow", "deny"}, NEW x \in Paths, NEW p \in Pids,
             Grant(g, verb, x, p)
      PROVE  WriterShape(v)'
  <2>1. PICK i \in Runs, new \in SUBSET Paths :
            /\ x \in new <=> verb = "allow"
            /\ run' = run /\ OthersWrite(g) /\ file' = file
            /\ call'[g].verb = verb /\ call'[g].path = {x}
            /\ \A h \in Granters : h # g => call'[h] = call[h]
            /\ writer'[g].stage \in {"done", "mkdir"} /\ writer'[g].pid = p
            /\ writer'[g].policy = Policy(i, new)
    BY <1>4, GrantDoes
  <2>2. g \in Writers /\ g \notin Runs
    BY Sets
  <2>3. call'[g] # NoCall
    BY <2>1 DEF NoCall
  <2>4. CASE v = g
    BY <2>1, <2>2, <2>3, <2>4, Kinds DEF WriterShape
  <2>5. CASE v # g
    <3>1. writer'[v] = writer[v] /\ (v \in Granters => call'[v] = call[v])
      BY <2>1, <2>5 DEF OthersWrite
    <3> QED
      BY <1>1, <2>1, <3>1 DEF WriterShape
  <2> QED
    BY <2>4, <2>5
<1> QED
  BY <1>2, <1>3, <1>4

LEMMA WriterShapeStep ==
    ASSUME TypeInv, Base, Next
    PROVE  \A v \in Writers : WriterShape(v)'
<1> SUFFICES ASSUME NEW v \in Writers PROVE WriterShape(v)'
  OBVIOUS
<1>1. ASSUME UNCHANGED <<dir, file, run, writer, call, promise, calls, deaths>>
      PROVE  WriterShape(v)'
  BY <1>1 DEF Base, WriterShape
<1> QED
  BY <1>1, WriterShapeRuns, WriterShapeUnlink, WriterShapeWrites, WriterShapeTalks, Steps

LEMMA BareStep ==
    ASSUME TypeInv, Base, Next
    PROVE  Bare'
<1>1. Bare
  BY DEF Base
<1>2. ASSUME dir' = dir, file' = file PROVE Bare'
  BY <1>1, <1>2 DEF Bare
<1>3. ASSUME NEW i \in Runs, RunOnly(i) \/ Leaves(i) \/ RunDies(i) PROVE Bare'
  BY <1>2, <1>3, RunOnlyDoes, LeavesDoes, RunDiesDoes
<1>4. ASSUME NEW i \in Runs, Own(i) PROVE Bare'
  BY <1>1, <1>4, OwnDoes DEF Bare
<1>5. ASSUME NEW i \in Runs, Rmdir(i) PROVE Bare'
  <2> SUFFICES ASSUME NEW p \in Pids, ~ dir'[p], NEW f \in Files, NEW k \in Slots
               PROVE  file'[p][f][k] = NoFile
    BY DEF Bare
  <2>1. file' = file /\ (p # run[i].target => dir'[p] = dir[p])
        /\ (p = run[i].target => Names(p) = {})
    BY <1>5, RmdirDoes
  <2>2. CASE p = run[i].target
    <3>1. <<f, k>> \notin Names(p)
      BY <2>1, <2>2
    <3>2. <<f, k>> \in Files \X {"name", "tmp"}
      BY DEF Slots
    <3> QED
      BY <2>1, <3>1, <3>2 DEF Names
  <2>3. CASE p # run[i].target
    BY <1>1, <2>1, <2>3 DEF Bare
  <2> QED
    BY <2>2, <2>3
<1>6. ASSUME NEW i \in Runs, NEW n \in run[i].left, Unlink(i, n) PROVE Bare'
  <2> SUFFICES ASSUME NEW p \in Pids, ~ dir'[p], NEW f \in Files, NEW k \in Slots
               PROVE  file'[p][f][k] = NoFile
    BY DEF Bare
  <2>1. dir' = dir /\ n[1] \in Files /\ n[2] \in Slots
        /\ (p # run[i].target => file'[p] = file[p])
        /\ (p = run[i].target =>
               /\ \A e \in Files : e # n[1] => file'[p][e] = file[p][e]
               /\ \A s \in Slots : s # n[2] => file'[p][n[1]][s] = file[p][n[1]][s]
               /\ file'[p][n[1]][n[2]] = NoFile)
    BY <1>6, UnlinkDoes
  <2>2. file[p][f][k] = NoFile
    BY <1>1, <2>1 DEF Bare
  <2> QED
    BY <2>1, <2>2
<1>7. ASSUME NEW w \in Writers, WriteStep(w) PROVE Bare'
  <2> DEFINE p == writer[w].pid
             f == writer[w].file
             fd == writer[w].fd
  <2>1. p \in Pids /\ f \in Files
    BY <1>7, WriterAt DEF WriteStep, MakeDir, OpenTmp, WriteAll, Rename, Writes
  <2>2. CASE MakeDir(w)
    BY <1>1, <2>2, MakeDirDoes DEF Bare
  <2>3. CASE OpenTmp(w)
    <3>1. dir' = dir /\ dir[p] /\ \A q \in Pids : q # p => file'[q] = file[q]
      BY <2>3, OpenTmpDoes
    <3> QED
      BY <1>1, <3>1 DEF Bare
  <2>4. CASE WriteAll(w)
    <3>1. /\ dir' = dir /\ \A q \in Pids : q # p => file'[q] = file[q]
          /\ \A e \in Files : e # f => file'[p][e] = file[p][e]
          /\ \A k \in Slots : k # fd => file'[p][f][k] = file[p][f][k]
          /\ writer[w].stage = "write"
      BY <2>4, WriteAllDoes
    <3>2. fd # "gone" => fd \in Slots /\ dir[p]
      <4> SUFFICES ASSUME fd # "gone" PROVE fd \in Slots /\ dir[p]
        OBVIOUS
      <4>1. fd \in Slots /\ file[p][f][fd] # NoFile
        BY <3>1 DEF Base, WriterShape, TypeInv, WriterStates, Slots
      <4> QED
        BY <1>1, <2>1, <4>1 DEF Bare
    <3> SUFFICES ASSUME NEW q \in Pids, ~ dir'[q], NEW e \in Files, NEW k \in Slots
                 PROVE  file'[q][e][k] = NoFile
      BY DEF Bare
    <3>3. file[q][e][k] = NoFile
      BY <1>1, <3>1 DEF Bare
    <3>4. CASE fd = "gone"
      <4>1. file'[q][e][k] = file[q][e][k]
        BY <2>1, <3>1, <3>4 DEF Slots
      <4> QED
        BY <3>3, <4>1
    <3>5. CASE fd # "gone"
      BY <3>1, <3>2, <3>3, <3>5
    <3> QED
      BY <3>4, <3>5
  <2>5. CASE Rename(w)
    <3>1. dir' = dir /\ file[p][f].tmp # NoFile
          /\ \A q \in Pids : q # p => file'[q] = file[q]
      BY <2>5, RenameDoes
    <3>2. dir[p]
      BY <1>1, <2>1, <3>1 DEF Bare, Slots
    <3> QED
      BY <1>1, <3>1, <3>2 DEF Bare
  <2> QED
    BY <1>7, <2>2, <2>3, <2>4, <2>5, SMTT(30) DEF WriteStep
<1>8. ASSUME NEW g \in Granters, GrantReturns(g) \/ GrantFails(g) PROVE Bare'
  BY <1>2, <1>8, GrantReturnsDoes, GrantFailsDoes
<1>9. ASSUME NEW g \in Granters, NEW verb \in {"allow", "deny"}, NEW x \in Paths, NEW p \in Pids,
             Grant(g, verb, x, p)
      PROVE  Bare'
  BY <1>2, <1>9, GrantDoes
<1>10. ASSUME UNCHANGED <<dir, file, run, writer, call, promise, calls, deaths>> PROVE Bare'
  BY <1>2, <1>10
<1> QED
  BY <1>3, <1>4, <1>5, <1>6, <1>7, <1>8, <1>9, <1>10, Steps

(* What is written was there, or is the policy of who writes there.        *)
LEMMA NewContents ==
    ASSUME TypeInv, Base, Next, NEW p \in Pids, NEW f \in Files, NEW k \in Slots, NEW i \in Runs,
           file'[p][f][k].run = i
    PROVE  \/ \E e \in Files, s \in Slots : file[p][e][s].run = i
           \/ \E w \in Writers : writer[w].pid = p /\ writer[w].policy.run = i
<1> DEFINE Goal == \/ \E e \in Files, s \in Slots : file[p][e][s].run = i
                   \/ \E w \in Writers : writer[w].pid = p /\ writer[w].policy.run = i
<1>1. ASSUME file'[p][f][k] = file[p][f][k] PROVE Goal
  BY <1>1
<1>2. \A c \in {NoFile, Empty, Mixed} : c.run # i
  BY Kinds
<1>3. ASSUME NEW j \in Runs, RunOnly(j) \/ Leaves(j) \/ RunDies(j) \/ Own(j) \/ Rmdir(j)
      PROVE  Goal
  BY <1>1, <1>3, RunOnlyDoes, LeavesDoes, RunDiesDoes, OwnDoes, RmdirDoes
<1>4. ASSUME NEW j \in Runs, NEW n \in run[j].left, Unlink(j, n) PROVE Goal
  <2>1. /\ p # run[j].target => file'[p] = file[p]
        /\ p = run[j].target =>
               /\ \A e \in Files : e # n[1] => file'[p][e] = file[p][e]
               /\ \A s \in Slots : s # n[2] => file'[p][n[1]][s] = file[p][n[1]][s]
               /\ file'[p][n[1]][n[2]] = NoFile
    BY <1>4, UnlinkDoes
  <2>2. file'[p][f][k] = file[p][f][k]
    BY <1>2, <2>1
  <2> QED
    BY <1>1, <2>2
<1>5. ASSUME NEW w \in Writers, WriteStep(w) PROVE Goal
  <2> DEFINE q == writer[w].pid
             g == writer[w].file
             fd == writer[w].fd
  <2>1. CASE MakeDir(w)
    BY <1>1, <2>1, MakeDirDoes
  <2>2. CASE OpenTmp(w)
    <3>1. /\ p # q => file'[p] = file[p]
          /\ p = q => /\ \A e \in Files : e # g => file'[p][e] = file[p][e]
                      /\ file'[p][g].name = file[p][g].name /\ file'[p][g].tmp = Empty
      BY <2>2, OpenTmpDoes
    <3>2. file'[p][f][k] = file[p][f][k]
      BY <1>2, <3>1 DEF Slots
    <3> QED
      BY <1>1, <3>2
  <2>3. CASE WriteAll(w)
    <3>1. /\ p # q => file'[p] = file[p]
          /\ p = q => /\ \A e \in Files : e # g => file'[p][e] = file[p][e]
                      /\ \A s \in Slots : s # fd => file'[p][g][s] = file[p][g][s]
          /\ fd = "gone" \/ file'[q][g][fd] \in {writer[w].policy, Mixed}
      BY <2>3, WriteAllDoes, SMTT(30)
    <3>2. CASE p = q /\ f = g /\ k = fd
      <4>1. fd # "gone"
        BY <3>2 DEF Slots
      <4>2. file'[p][f][k] = writer[w].policy
        BY <1>2, <3>1, <3>2, <4>1
      <4> QED
        BY <3>2, <4>2
    <3>3. CASE ~ (p = q /\ f = g /\ k = fd)
      <4>1. file'[p][f][k] = file[p][f][k]
        BY <3>1, <3>3
      <4> QED
        BY <1>1, <4>1
    <3> QED
      BY <3>2, <3>3
  <2>4. CASE Rename(w)
    <3>1. /\ p # q => file'[p] = file[p]
          /\ p = q => /\ \A e \in Files : e # g => file'[p][e] = file[p][e]
                      /\ file'[p][g].name = file[p][g].tmp /\ file'[p][g].tmp = NoFile
      <4>1. file'[q][g] = [name |-> file[q][g].tmp, tmp |-> NoFile]
        BY <2>4, RenameDoes
      <4> QED
        BY <2>4, <4>1, RenameDoes, SMTT(30)
    <3>2. file'[p][f][k] \in {file[p][f][k], file[p][f]["tmp"]}
      BY <1>2, <3>1 DEF Slots
    <3> QED
      BY <3>2, SMTT(30) DEF Slots
  <2> QED
    BY <1>5, <2>1, <2>2, <2>3, <2>4 DEF WriteStep
<1>6. ASSUME NEW g \in Granters, GrantReturns(g) \/ GrantFails(g) PROVE Goal
  BY <1>1, <1>6, GrantReturnsDoes, GrantFailsDoes
<1>7. ASSUME NEW g \in Granters, NEW verb \in {"allow", "deny"}, NEW x \in Paths, NEW q \in Pids,
             Grant(g, verb, x, q)
      PROVE  Goal
  BY <1>1, <1>7, GrantDoes
<1>8. ASSUME UNCHANGED <<dir, file, run, writer, call, promise, calls, deaths>> PROVE Goal
  BY <1>1, <1>8
<1> QED
  BY <1>3, <1>4, <1>5, <1>6, <1>7, <1>8, Steps

LEMMA NewPolicies ==
    ASSUME TypeInv, Base, Next, NEW v \in Writers, NEW i \in Runs, writer'[v].policy.run = i
    PROVE  \/ writer[v].policy.run = i /\ writer'[v].pid = writer[v].pid
           \/ v = i /\ Own(i)
           \/ writer'[v].pid \in Pids /\ file[writer'[v].pid]["record"].name.run = i
<1> DEFINE Goal == \/ writer[v].policy.run = i /\ writer'[v].pid = writer[v].pid
                   \/ v = i /\ Own(i)
                   \/ writer'[v].pid \in Pids /\ file[writer'[v].pid]["record"].name.run = i
<1>1. writer'[v] # Idle
  BY Kinds DEF Idle
<1>2. ASSUME writer'[v] = writer[v] PROVE Goal
  BY <1>2
<1>3. ASSUME NEW j \in Runs, RunOnly(j) \/ Leaves(j) \/ RunDies(j) \/ Rmdir(j) PROVE Goal
  BY <1>1, <1>2, <1>3, RunOnlyDoes, LeavesDoes, RunDiesDoes, RmdirDoes DEF OthersWrite
<1>4. ASSUME NEW j \in Runs, NEW n \in run[j].left, Unlink(j, n) PROVE Goal
  BY <1>4, UnlinkDoes
<1>5. ASSUME NEW j \in Runs, Own(j) PROVE Goal
  <2>1. OthersWrite(j) /\ writer'[j].policy = Policy(j, {})
    BY <1>5, OwnDoes DEF WriterBecomes
  <2>2. CASE v = j
    <3>1. i = j
      BY <2>1, <2>2, Kinds
    <3> QED
      BY <1>5, <2>2, <3>1
  <2>3. CASE v # j
    BY <1>2, <2>1, <2>3 DEF OthersWrite
  <2> QED
    BY <2>2, <2>3
<1>6. ASSUME NEW w \in Writers, WriteStep(w)
      PROVE  Goal
  <2>1. writer'[v].policy = writer[v].policy /\ writer'[v].pid = writer[v].pid
    <3>1. CASE v = w
      <4>1. CASE MakeDir(w)
        BY <3>1, <4>1, MakeDirDoes
      <4>2. CASE OpenTmp(w)
        BY <3>1, <4>2, OpenTmpDoes
      <4>3. CASE WriteAll(w)
        BY <3>1, <4>3, WriteAllDoes
      <4>4. CASE Rename(w)
        BY <3>1, <4>4, RenameDoes
      <4> QED
        BY <1>6, <4>1, <4>2, <4>3, <4>4 DEF WriteStep
    <3>2. CASE v # w
      <4>1. ASSUME OthersWrite(w)
            PROVE  writer'[v].policy = writer[v].policy /\ writer'[v].pid = writer[v].pid
        BY <3>2, <4>1 DEF OthersWrite
      <4>2. CASE Rename(w)
        BY <3>2, <4>2, RenameDoes
      <4>3. CASE MakeDir(w) \/ OpenTmp(w) \/ WriteAll(w)
        BY <4>1, <4>3, MakeDirDoes, OpenTmpDoes, WriteAllDoes
      <4> QED
        BY <1>6, <4>2, <4>3 DEF WriteStep
    <3> QED
      BY <3>1, <3>2
  <2> QED
    BY <2>1
<1>7. ASSUME NEW g \in Granters, GrantReturns(g) \/ GrantFails(g) PROVE Goal
  BY <1>1, <1>2, <1>7, GrantReturnsDoes, GrantFailsDoes DEF OthersWrite
<1>8. ASSUME NEW g \in Granters, NEW verb \in {"allow", "deny"}, NEW x \in Paths, NEW q \in Pids,
             Grant(g, verb, x, q)
      PROVE  Goal
  <2>1. PICK j \in Runs, new \in SUBSET Paths :
            /\ file[q]["record"].name.run = j /\ OthersWrite(g)
            /\ writer'[g].pid = q /\ writer'[g].policy = Policy(j, new)
    BY <1>8, GrantDoes
  <2>2. CASE v = g
    BY <2>1, <2>2, Kinds
  <2>3. CASE v # g
    BY <1>2, <2>1, <2>3 DEF OthersWrite
  <2> QED
    BY <2>2, <2>3
<1>9. ASSUME UNCHANGED <<dir, file, run, writer, call, promise, calls, deaths>> PROVE Goal
  BY <1>2, <1>9
<1> QED
  BY <1>3, <1>4, <1>5, <1>6, <1>7, <1>8, <1>9, Steps

LEMMA Phases ==
    ASSUME TypeInv, Base, Next, NEW i \in Runs
    PROVE  /\ run'[i].stage \notin Ended =>
                  \/ run[i].stage \notin Ended /\ run'[i].pid = run[i].pid
                  \/ run[i].stage = "new" /\ run'[i].stage = "sweep"
           /\ run'[i].stage \in {"new"} \cup Sweeping => run[i].stage \in {"new"} \cup Sweeping
           /\ run'[i].stage = "write" => run[i].stage = "write" \/ Own(i)
           /\ Own(i) => run'[i].stage = "write" /\ writer'[i].pid = run'[i].pid
<1> DEFINE Goal == /\ run'[i].stage \notin Ended =>
                          \/ run[i].stage \notin Ended /\ run'[i].pid = run[i].pid
                          \/ run[i].stage = "new" /\ run'[i].stage = "sweep"
                   /\ run'[i].stage \in {"new"} \cup Sweeping =>
                          run[i].stage \in {"new"} \cup Sweeping
                   /\ run'[i].stage = "write" => run[i].stage = "write" \/ Own(i)
<1>1. ASSUME run'[i] = run[i] PROVE Goal
  BY <1>1
<1>2. ASSUME Acts(i) PROVE Goal
  <2> USE DEF Ended, Sweeping, RunAs
  <2>1. CASE OpenDir(i) \/ NoDir(i) \/ AgentEnds(i) \/ OrphanEnds(i)
    BY <2>1, OpenDirDoes, NoDirDoes, AgentEndsDoes, OrphanEndsDoes
  <2>2. ASSUME NEW p \in Pids, Start(i, p) \/ Check(i, p) PROVE Goal
    BY <2>2, StartDoes, CheckDoes
  <2>3. CASE Leaves(i)
    BY <2>3, LeavesDoes
  <2>4. CASE Own(i)
    BY <2>4, OwnDoes
  <2>5. CASE Rmdir(i) \/ RunDies(i)
    BY <2>5, RmdirDoes, RunDiesDoes
  <2>6. ASSUME NEW n \in run[i].left, Unlink(i, n) PROVE Goal
    BY <2>6, UnlinkDoes
  <2> QED
    BY <1>2, <2>1, <2>2, <2>3, <2>4, <2>5, <2>6 DEF Acts, RunOnly
<1>3. Goal
  BY <1>1, <1>2, WhoActs, ActsAlone DEF OthersRun
<1>4. Own(i) => run'[i].stage = "write" /\ writer'[i].pid = run'[i].pid
  BY OwnDoes DEF RunAs, WriterBecomes
<1> QED
  BY <1>3, <1>4

(* A promise changes when a call reads the run's record, and when it       *)
(* returns having written it.                                              *)
LEMMA NewPromises ==
    ASSUME TypeInv, Base, Next, NEW i \in Runs, NEW x \in Paths, promise'[i][x] # promise[i][x]
    PROVE  /\ run' = run
           /\ \/ \E g \in Granters, p \in Pids :
                     /\ file[p]["record"].name.run = i /\ writer'[g].pid = p /\ OthersWrite(g)
                     /\ writer[g].stage = "idle"
              \/ \E g \in Granters :
                     writer[g].policy.run = i /\ writer[g].stage = "done"
<1>1. ASSUME NEW g \in Granters, NEW verb \in {"allow", "deny"}, NEW y \in Paths, NEW p \in Pids,
             Grant(g, verb, y, p)
      PROVE  /\ run' = run /\ writer'[g].pid = p /\ OthersWrite(g)
             /\ file[p]["record"].name.run = i /\ writer[g].stage = "idle"
  BY <1>1, GrantDoes
<1>2. ASSUME NEW g \in Granters, GrantReturns(g)
      PROVE  run' = run /\ writer[g].policy.run = i /\ writer[g].stage = "done"
  BY <1>2, GrantReturnsDoes
<1>3. ASSUME NEW g \in Granters, GrantFails(g) PROVE FALSE
  BY <1>3, GrantFailsDoes
<1>4. ~ Else
  BY DEF Else
<1>5. ASSUME NEW j \in Runs, RunDies(j) PROVE FALSE
  BY <1>5, RunDiesDoes
<1> QED
  BY <1>1, <1>2, <1>3, <1>4, <1>5, Steps

(* Two at work are a clash.                                                *)
LEMMA TwoAtWork ==
    ASSUME NEW p \in Pids, ~ Clashes(p)
    PROVE  /\ \A v, w \in Writers : writer[v].pid = p /\ writer[w].pid = p => v = w
           /\ \A i \in Runs, w \in Writers : run[i].target = p /\ writer[w].pid = p => i = w
           /\ \A i, j \in Runs : run[i].target = p /\ run[j].target = p => i = j
           /\ \A i, j \in Runs : p \in run[i].todo /\ run[j].target = p => i = j
           /\ \A i \in Runs, w \in Writers :
                  p \in run[i].todo /\ ~ Alive(p) /\ writer[w].pid = p => i = w
           /\ \A i \in Runs : run[i].agent = p => ~ dir[p]
           /\ cmd.at = p => \A i \in Runs : writer[i].pid = p => i = cmd.run
BY DEF Clashes, AtWork

Calmed == \A p \in Pids \ clash : ~ Clashes(p)

LEMMA HistoryDoes ==
    ASSUME TypeInv, Next, NEW p \in Pids, p \notin clash'
    PROVE  /\ ~ Clashes(p)'
           /\ p \notin clash \/ Forgotten(p)'
           /\ p \notin broken' => (p \notin broken /\ p \notin Interrupted) \/ Forgotten(p)'
<1>1. History
  BY Steps
<1>2. (p \notin clash /\ ~ Clashes(p)') \/ Forgotten(p)'
  BY <1>1 DEF History
<1>3. ASSUME Forgotten(p)' PROVE ~ Clashes(p)'
  <2>1. (AtWork(p) = {})'
    BY <1>3 DEF Forgotten, AtWork
  <2> QED
    BY <1>3, <2>1, Sets DEF Forgotten, Clashes
<1>4. p \notin broken' => (p \notin broken /\ p \notin Interrupted) \/ Forgotten(p)'
  BY <1>1 DEF History
<1> QED
  BY <1>2, <1>3, <1>4

LEMMA HomeStep ==
    ASSUME TypeInv, Base, Calmed, Next, NEW i \in Runs
    PROVE  Home(i)'
<1>1. Home(i) /\ RunShape(i) /\ RunShape(i)'
  BY RunShapeStep DEF Base
<1>2. /\ run'[i].stage \notin Ended =>
             \/ run[i].stage \notin Ended /\ run'[i].pid = run[i].pid
             \/ run[i].stage = "new" /\ run'[i].stage = "sweep"
      /\ run'[i].stage \in {"new"} \cup Sweeping => run[i].stage \in {"new"} \cup Sweeping
      /\ run'[i].stage = "write" => run[i].stage = "write" \/ Own(i)
      /\ Own(i) => run'[i].stage = "write" /\ writer'[i].pid = run'[i].pid
  BY Phases
<1>3. /\ Own(i) => run[i].stage = "sweep" /\ run'[i].pid = run[i].pid
      /\ "write" \notin {"new"} \cup Sweeping /\ "sweep" \in Sweeping
  BY OwnDoes DEF RunAs, Sweeping
<1>4. ASSUME run[i].stage \in {"new"} \cup Sweeping
      PROVE  /\ \A p \in Pids, f \in Files, k \in Slots : file'[p][f][k].run # i
             /\ \A w \in Writers : writer'[w].policy.run = i => w = i /\ Own(i)
  <2>1. /\ \A p \in Pids, f \in Files, k \in Slots : file[p][f][k].run # i
        /\ \A w \in Writers : writer[w].policy.run # i
    BY <1>1, <1>4 DEF Home
  <2> QED
    BY <2>1, NewContents, NewPolicies, Sets, SMTT(30) DEF Slots
<1>5. ASSUME run[i].stage \notin Ended, run'[i].pid = run[i].pid
      PROVE  /\ \A p \in Pids, f \in Files, k \in Slots :
                    file'[p][f][k].run = i => p = run'[i].pid
             /\ \A w \in Writers : writer'[w].policy.run = i => writer'[w].pid = run'[i].pid
  <2>1. /\ \A p \in Pids, f \in Files, k \in Slots : file[p][f][k].run = i => p = run[i].pid
        /\ \A w \in Writers : writer[w].policy.run = i => writer[w].pid = run[i].pid
    BY <1>1, <1>5 DEF Home
  <2>2. \A w \in Writers : writer'[w].policy.run = i => writer'[w].pid = run'[i].pid
    BY <1>2, <1>5, <2>1, NewPolicies, Sets DEF Slots
  <2> QED
    BY <1>5, <2>1, <2>2, NewContents
<1>6. ASSUME run'[i].stage \notin Ended
      PROVE  /\ \A p \in Pids, f \in Files, k \in Slots :
                    file'[p][f][k].run = i => p = run'[i].pid
             /\ \A w \in Writers : writer'[w].policy.run = i => writer'[w].pid = run'[i].pid
  BY <1>2, <1>4, <1>5, <1>6
<1>7. ASSUME run'[i].stage \in {"new"} \cup Sweeping
      PROVE  /\ AllDenied(i)'
             /\ \A p \in Pids, f \in Files, k \in Slots : file'[p][f][k].run # i
             /\ \A w \in Writers : writer'[w].policy.run # i
  <2>1. /\ AllDenied(i) /\ run[i].stage \in {"new"} \cup Sweeping /\ ~ Own(i)
        /\ \A p \in Pids, f \in Files, k \in Slots : file[p][f][k].run # i
        /\ \A w \in Writers : writer[w].policy.run # i
    BY <1>1, <1>2, <1>3, <1>7 DEF Home
  <2>2. \A x \in Paths : promise'[i][x] = promise[i][x]
    BY <2>1, NewPromises, Sets DEF Slots
  <2> QED
    BY <1>4, <2>1, <2>2 DEF AllDenied
<1>8. ASSUME run'[i].stage = "write", run'[i].pid \notin clash' PROVE AllDenied(i)'
  <2>0. run'[i].pid \in Pids
    BY <1>1, <1>8 DEF RunShape, Ended
  <2>1. PICK p \in Pids : p = run'[i].pid /\ p # NoPid
    BY <2>0, RunSessionAssumption
  <2>2. ~ Clashes(p)' /\ p \notin clash
    <3>1. ~ Forgotten(p)'
      BY <2>1 DEF Forgotten
    <3> QED
      BY <1>8, <2>1, <3>1, HistoryDoes
  <2>3. ~ Clashes(p)
    BY <2>1, <2>2 DEF Calmed
  <2>4. CASE Own(i)
    <3>1. AllDenied(i) /\ \A q \in Pids, f \in Files, k \in Slots : file[q][f][k].run # i
      BY <1>1, <1>3, <2>4 DEF Home
    <3>2. \A w \in Writers : writer[w].policy.run # i
      BY <1>1, <1>3, <2>4 DEF Home
    <3>3. \A x \in Paths : promise'[i][x] = promise[i][x]
      BY <3>1, <3>2, NewPromises, Sets DEF Slots
    <3> QED
      BY <3>1, <3>3 DEF AllDenied
  <2>5. CASE run[i].stage = "write"
    <3>1. run[i].pid = p /\ run[i].stage \notin Ended
      BY <1>2, <1>8, <2>1, <2>5 DEF Ended
    <3>2. AllDenied(i)
      BY <1>1, <2>2, <2>5, <3>1 DEF Home
    <3>3. i \in Writers /\ writer[i].pid = p
      BY <2>5, <3>1, Sets DEF Base, WriterShape
    <3>4. /\ \A q \in Pids, f \in Files, k \in Slots : file[q][f][k].run = i => q = p
          /\ \A w \in Writers : writer[w].policy.run = i => writer[w].pid = p
      BY <1>1, <3>1 DEF Home
    <3>5. ASSUME NEW g \in Granters, NEW q \in Pids, file[q]["record"].name.run = i,
                 writer'[g].pid = q, OthersWrite(g)
          PROVE  FALSE
      <4>1. q = p
        BY <3>4, <3>5, Sets DEF Slots
      <4>2. writer'[i].pid = p /\ g \in Writers /\ g # i
        BY <3>3, <3>5, Sets DEF OthersWrite
      <4>3. \A v, w \in Writers : writer'[v].pid = p /\ writer'[w].pid = p => v = w
        BY <2>1, <2>2 DEF Clashes, AtWork
      <4> QED
        BY <3>3, <3>5, <4>1, <4>2, <4>3
    <3>6. ASSUME NEW g \in Granters, writer[g].policy.run = i PROVE FALSE
      <4>1. writer[g].pid = p /\ g \in Writers /\ g # i
        BY <3>4, <3>6, Sets
      <4> QED
        BY <2>1, <2>3, <3>3, <4>1, TwoAtWork
    <3>7. \A x \in Paths : promise'[i][x] = promise[i][x]
      BY <3>5, <3>6, NewPromises
    <3> QED
      BY <3>2, <3>7 DEF AllDenied
  <2> QED
    BY <1>2, <1>8, <2>4, <2>5
<1> QED
  BY <1>6, <1>7, <1>8 DEF Home

-----------------------------------------------------------------------------
(* A directory in no clash, from step to step.                             *)

LEMMA TwoAtWorkNext ==
    ASSUME NEW p \in Pids, ~ Clashes(p)'
    PROVE  /\ \A v, w \in Writers : writer'[v].pid = p /\ writer'[w].pid = p => v = w
           /\ \A i \in Runs, w \in Writers : run'[i].target = p /\ writer'[w].pid = p => i = w
           /\ \A i, j \in Runs : run'[i].target = p /\ run'[j].target = p => i = j
           /\ \A i, j \in Runs : p \in run'[i].todo /\ run'[j].target = p => i = j
           /\ cmd'.at = p => \A i \in Runs : writer'[i].pid = p => i = cmd'.run
BY DEF Clashes, AtWork

(* Forgotten, it is as at the start.                                       *)
LEMMA ForgottenSettled ==
    ASSUME NEW p \in Pids, TypeInv', Base', Forgotten(p)'
    PROVE  Settled(p)'
<1>1. /\ ~ dir'[p] /\ cmd'.at # p /\ \A w \in Writers : writer'[w].pid # p
      /\ \A i \in Runs : run'[i].pid # p /\ run'[i].target # p /\ p \notin run'[i].todo
  BY DEF Forgotten
<1>2. \A f \in Files : file'[p][f].name = NoFile /\ file'[p][f].tmp = NoFile
  BY <1>1 DEF Base, Bare, Slots
<1>3. There(p)' /\ Unheld(p)' /\ Listed(p)' /\ Written(p)' /\ Same(p)'
  BY <1>1 DEF There, Unheld, Listed, Written, Same, Calm
<1>4. Clean(p)'
  BY <1>2, Kinds DEF Clean
<1>5. Theirs(p)' /\ Kept(p)' /\ Found(p)' /\ HasRun(p)'
  BY <1>1 DEF Theirs, Kept, Found, HasRun
<1> QED
  BY <1>3, <1>4, <1>5 DEF Settled

Clear(p) == TypeInv /\ Base /\ ~ Clashes(p) /\ Settled(p)
StaysClear(p) ==
    /\ TypeInv' /\ Base' /\ ~ Clashes(p)'
    /\ p \notin broken' => p \notin broken /\ p \notin Interrupted

(* What a running session was promised, where nothing of it changes.       *)
LEMMA KeptStays ==
    ASSUME NEW p \in Pids, Kept(p),
           p \notin broken' => p \notin broken,
           file'[p]["policy"].name = file[p]["policy"].name,
           \A g \in Granters : writer'[g].pid = p =>
               /\ writer[g].pid = p /\ writer'[g].policy = writer[g].policy
               /\ call'[g] = call[g],
           \A j \in Runs : run'[j].stage = "running" /\ run'[j].pid = p =>
               run[j].stage = "running" /\ run[j].pid = p /\ promise'[j] = promise[j]
    PROVE  Kept(p)'
<1> SUFFICES ASSUME NEW j \in Runs, run'[j].stage = "running", run'[j].pid = p, p \notin broken'
             PROVE  /\ Keeps(j, file[p]["policy"].name.grants)'
                    /\ \A g \in Granters : writer'[g].pid = p =>
                           /\ Keeps(j, writer[g].policy.grants)'
                           /\ \A x \in call'[g].path : promise'[j][x] = "unknown"
  BY DEF Kept
<1>1. /\ Keeps(j, file[p]["policy"].name.grants)
      /\ \A g \in Granters : writer[g].pid = p =>
             /\ Keeps(j, writer[g].policy.grants)
             /\ \A x \in call[g].path : promise[j][x] = "unknown"
  BY DEF Kept
<1> QED
  BY <1>1 DEF Keeps

LEMMA ByRunOnly ==
    ASSUME NEW p \in Pids, p \notin clash, Clear(p), StaysClear(p),
           Else, NEW i \in Runs, RunOnly(i)
    PROVE  Settled(p)'
<1>1. /\ There(p) /\ Unheld(p) /\ Listed(p) /\ Clean(p) /\ Written(p)
      /\ Same(p) /\ Theirs(p) /\ Kept(p) /\ Found(p) /\ HasRun(p)
      /\ TypeInv /\ Base /\ RunShape(i)
  BY DEF Clear, Settled, Base
<1>2. /\ \A j \in Runs : j # i => run'[j] = run[j]
      /\ dir' = dir /\ file' = file /\ writer' = writer
      /\ call' = call /\ cmd' = cmd /\ promise' = promise /\ deaths' = deaths
      /\ p \notin broken' => p \notin broken
  BY <1>1, RunOnlyDoes DEF Else, StaysClear, OthersRun
<1>3. PICK d \in Pids \cup {NoPid} :
          \/ OpenDir(i) \/ NoDir(i) \/ AgentEnds(i) \/ OrphanEnds(i)
          \/ d \in Pids /\ Start(i, d)
          \/ d \in Pids /\ Check(i, d)
  BY DEF RunOnly
<1>4. /\ run'[i].stage # "running"
      /\ run'[i].target = p => \/ run[i].target = p \/ p \in run[i].todo
                               \/ run[i].pid = p /\ run[i].stage \in InPlace
      /\ p \in run'[i].todo => p \in run[i].todo \/ dir[p]
      /\ run'[i].stage \in InPlace => run[i].stage \in InPlace /\ run'[i].pid = run[i].pid
      /\ run[i].target = p => run'[i].target = p \/ ~ dir[p]
      /\ run[i].pid = p /\ run[i].stage \in InPlace =>
             (run'[i].pid = p /\ run'[i].stage \in InPlace) \/ ~ dir[p]
      /\ run'[i].stage \in Sweeping /\ run'[i].target = p =>
             \/ ~ Alive(p) /\ run'[i].pid = run[i].pid
             \/ run[i].stage \in Sweeping /\ run[i].target = p /\ run'[i].pid = run[i].pid
      /\ \/ run'[i].pid = run[i].pid \/ run'[i].pid = NoPid
         \/ run'[i].todo = Dirs
      /\ run'[i].stage \in {"swept", "dropped"} => run'[i].left = Names(run'[i].target)
  <2> USE DEF RunAs, InPlace, Sweeping
  <2>1. NoPid # p
    BY RunSessionAssumption
  <2>2. CASE OpenDir(i)
    BY <1>1, <2>2, OpenDirDoes
  <2>3. CASE NoDir(i)
    BY <1>1, <2>1, <2>3, NoDirDoes DEF RunShape
  <2>4. CASE AgentEnds(i)
    BY <1>1, <2>1, <2>4, AgentEndsDoes DEF RunShape
  <2>5. CASE OrphanEnds(i)
    BY <1>1, <2>1, <2>5, OrphanEndsDoes
  <2>6. CASE d \in Pids /\ Start(i, d)
    <3>1. run[i] = NotStarted
      BY <1>1, <2>6, StartDoes DEF RunShape
    <3> QED
      BY <1>1, <2>1, <2>6, <3>1, StartDoes DEF Dirs, NotStarted
  <2>7. CASE d \in Pids /\ Check(i, d)
    BY <1>1, <2>1, <2>7, CheckDoes
  <2> QED
    BY <1>3, <2>2, <2>3, <2>4, <2>5, <2>6, <2>7
<1>5. There(p)'
  BY <1>1, <1>2, <1>4 DEF There
<1>6. Unheld(p)'
  <2> SUFFICES ASSUME NEW k \in Runs, run'[k].stage \in Sweeping, run'[k].target = p,
                      NEW j \in Runs, run'[j].pid = p
               PROVE  FALSE
    BY DEF Unheld
  <2>1. p # NoPid
    BY RunSessionAssumption
  <2>2. \A v, u \in Runs : p \in run'[v].todo /\ run'[u].target = p => v = u
    BY TwoAtWorkNext DEF StaysClear
  <2>3. ASSUME run[j].pid = p, k = i PROVE FALSE
    BY <1>1, <1>4, <2>3 DEF Unheld, Alive
  <2>4. ASSUME run[j].pid = p, k # i PROVE FALSE
    BY <1>1, <1>2, <2>4 DEF Unheld
  <2>5. ASSUME run[j].pid # p PROVE FALSE
    <3>1. j = i /\ run'[i].todo = Dirs
      BY <1>2, <1>4, <2>1, <2>5
    <3>2. CASE k = i
      BY <1>4, <2>5, <3>1, <3>2
    <3>3. CASE k # i
      <4>1. run[k].target = p
        BY <1>2, <3>3
      <4>2. dir[p]
        BY <1>1, <4>1 DEF There
      <4> QED
        BY <2>2, <3>1, <3>3, <4>2 DEF Dirs
    <3> QED
      BY <3>2, <3>3
  <2> QED
    BY <2>3, <2>4, <2>5
<1>7. Listed(p)'
  BY <1>1, <1>2, <1>4 DEF Listed, Names
<1>8. Clean(p)' /\ Written(p)'
  BY <1>1, <1>2 DEF Clean, Written, Finished
<1>9. Same(p)'
  BY <1>1, <1>2, <1>4 DEF Same, Calm
<1>10. Theirs(p)' /\ Kept(p)' /\ Found(p)'
  <2>1. \A j \in Runs : run'[j].stage = "running" => j # i /\ run'[j] = run[j]
    BY <1>2, <1>4
  <2>2. Theirs(p)'
    BY <1>1, <1>2, <2>1 DEF Theirs
  <2>3. Kept(p)'
    BY <1>1, <1>2, <2>1, KeptStays
  <2>4. Found(p)'
    BY <1>1, <1>2 DEF Found
  <2> QED
    BY <2>2, <2>3, <2>4
<1>11. HasRun(p)'
  BY <1>1, <1>2, <1>4 DEF HasRun
<1> QED
  BY <1>5, <1>6, <1>7, <1>8, <1>9, <1>10, <1>11 DEF Settled

LEMMA ByLeaves ==
    ASSUME NEW p \in Pids, p \notin clash, Clear(p), StaysClear(p), Else, NEW i \in Runs, Leaves(i)
    PROVE  Settled(p)'
<1>1. /\ There(p) /\ Unheld(p) /\ Listed(p) /\ Clean(p) /\ Written(p)
      /\ Same(p) /\ Theirs(p) /\ Kept(p) /\ Found(p) /\ HasRun(p)
      /\ TypeInv /\ Base /\ RunShape(i) /\ WriterShape(i) /\ Home(i)
  BY Sets DEF Clear, Settled, Base
<1>2. /\ \A j \in Runs : j # i => run'[j] = run[j]
      /\ \A v \in Writers : v # i => writer'[v] = writer[v]
      /\ writer'[i] = Idle /\ dir' = dir /\ file' = file
      /\ call' = call /\ cmd' = cmd /\ promise' = promise /\ deaths' = deaths
      /\ p \notin broken' => p \notin broken
  BY <1>1, LeavesDoes DEF Else, StaysClear, OthersRun, OthersWrite
<1>3. /\ run[i].stage = "write" /\ run[i].target = NoPid
      /\ run'[i].pid = run[i].pid /\ run'[i].todo = run[i].todo
      /\ \/ writer[i].stage = "done" /\ run'[i].stage = "running" /\ run'[i].target = NoPid
         \/ run'[i].stage = "drop" /\ run'[i].target = run[i].pid
  BY <1>1, LeavesDoes DEF RunShape
<1>4. /\ writer[i].stage # "idle" /\ writer[i].pid = run[i].pid /\ i \in Writers
      /\ writer[i].policy = Policy(i, {}) /\ p # NoPid /\ Idle.pid = NoPid
  BY <1>1, <1>3, RunSessionAssumption, Sets DEF WriterShape, Idle
<1>5. /\ \A j \in Runs : run'[j].pid = run[j].pid /\ run'[j].todo = run[j].todo
      /\ \A v \in Writers : writer'[v].pid = p => v # i /\ writer'[v] = writer[v]
  BY <1>2, <1>3, <1>4
<1>6. ASSUME run[i].pid = p, run'[i].stage = "running"
      PROVE  /\ \A f \in Files : file[p][f] = [name |-> Policy(i, {}), tmp |-> NoFile]
             /\ \A v \in Writers : writer'[v].pid # p
             /\ AllDenied(i)
  <2>1. writer[i].stage = "done"
    BY <1>3, <1>6
  <2>2. Finished(p, "record", writer[i].policy) /\ Finished(p, "policy", writer[i].policy)
    BY <1>1, <1>4, <1>6, <2>1 DEF Written
  <2>3. \A v \in Writers : writer'[v].pid # p
    BY <1>4, <1>5, <1>6, TwoAtWork DEF Clear
  <2>4. AllDenied(i)
    BY <1>1, <1>3, <1>6 DEF Home
  <2> QED
    BY <1>4, <2>2, <2>3, <2>4 DEF Finished, Files
<1>7. There(p)'
  <2>1. "write" \in InPlace
    BY DEF InPlace
  <2>2. (run[i].pid = p => dir[p]) /\ \A j \in Runs : run'[j].target = p => dir[p]
    BY <1>1, <1>2, <1>3, <1>4, <2>1 DEF There
  <2> QED
    BY <1>1, <1>2, <1>4, <1>5, <2>2 DEF There
<1>8. Unheld(p)' /\ Listed(p)'
  <2>1. run'[i].stage \notin Sweeping \cup {"dropped"} /\ "swept" \in Sweeping
    BY <1>3 DEF Sweeping
  <2> QED
    BY <1>1, <1>2, <1>5, <2>1 DEF Unheld, Listed, Names
<1>9. Clean(p)' /\ Written(p)'
  BY <1>1, <1>2, <1>5 DEF Clean, Written, Finished
<1>10. Same(p)'
  <2> SUFFICES ASSUME Calm(p)'
               PROVE  file[p]["record"] = file[p]["policy"] /\ file[p]["record"].tmp = NoFile
    BY <1>2 DEF Same
  <2>1. CASE run[i].pid = p
    <3>1. run'[i].stage = "running"
      BY <1>3, <2>1 DEF Calm
    <3> QED
      BY <1>6, <2>1, <3>1, Sets
  <2>2. CASE run[i].pid # p
    <3>1. Calm(p)
      BY <1>2, <1>3, <1>4, <2>2 DEF Calm
    <3> QED
      BY <1>1, <3>1 DEF Same
  <2> QED
    BY <2>1, <2>2
<1>11. Theirs(p)'
  <2> SUFFICES ASSUME NEW j \in Runs, run'[j].stage = "running", run'[j].pid = p
               PROVE  /\ \A f \in Files : file[p][f].name.run = j
                      /\ \A v \in Writers : writer'[v].pid = p => writer'[v].policy.run = j
    BY <1>2 DEF Theirs
  <2>1. CASE j = i
    BY <1>5, <1>6, <2>1, Kinds
  <2>2. CASE j # i
    BY <1>1, <1>2, <1>5, <2>2 DEF Theirs
  <2> QED
    BY <2>1, <2>2
<1>12. Kept(p)'
  <2> SUFFICES ASSUME NEW j \in Runs, run'[j].stage = "running", run'[j].pid = p, p \notin broken'
               PROVE  /\ Keeps(j, file[p]["policy"].name.grants)'
                      /\ \A g \in Granters : writer'[g].pid = p =>
                             /\ Keeps(j, writer[g].policy.grants)'
                             /\ \A x \in call'[g].path : promise'[j][x] = "unknown"
    BY DEF Kept
  <2>1. CASE j = i
    <3>1. /\ \A v \in Writers : writer'[v].pid # p
          /\ \A x \in Paths : promise'[i][x] = "denied"
          /\ file'[p]["policy"].name.grants = {}
      BY <1>2, <1>5, <1>6, <2>1, Kinds, Sets DEF AllDenied
    <3> QED
      BY <2>1, <3>1, Sets DEF Keeps
  <2>2. CASE j # i
    <3>1. /\ Keeps(j, file[p]["policy"].name.grants)
          /\ \A g \in Granters : writer[g].pid = p =>
                 /\ Keeps(j, writer[g].policy.grants)
                 /\ \A x \in call[g].path : promise[j][x] = "unknown"
      BY <1>1, <1>2, <2>2 DEF Kept
    <3>2. \A g \in Granters : writer'[g] = writer[g]
      BY <1>2, Sets
    <3> QED
      BY <1>2, <3>1, <3>2 DEF Keeps
  <2> QED
    BY <2>1, <2>2
<1>13. Found(p)' /\ HasRun(p)'
  <2>1. run'[i].stage \in InPlace
    BY <1>3 DEF InPlace
  <2> QED
    BY <1>1, <1>2, <1>5, <2>1 DEF Found, HasRun
<1> QED
  BY <1>7, <1>8, <1>9, <1>10, <1>11, <1>12, <1>13 DEF Settled

LEMMA ByOwn ==
    ASSUME NEW p \in Pids, Clear(p), StaysClear(p), Else, NEW i \in Runs, Own(i)
    PROVE  Settled(p)'
<1>1. /\ There(p) /\ Unheld(p) /\ Listed(p) /\ Clean(p) /\ Written(p)
      /\ Same(p) /\ Theirs(p) /\ Kept(p) /\ Found(p) /\ HasRun(p)
      /\ TypeInv /\ Base /\ OnePid /\ WriterShape(i) /\ i \in Writers
  BY Sets DEF Clear, Settled, Base
<1>2. /\ \A j \in Runs : j # i => run'[j] = run[j]
      /\ \A v \in Writers : v # i => writer'[v] = writer[v]
      /\ file' = file /\ dir'[run[i].pid] /\ \A q \in Pids : q # run[i].pid => dir'[q] = dir[q]
      /\ call' = call /\ cmd' = cmd /\ promise' = promise /\ deaths' = deaths
      /\ p \notin broken' => p \notin broken
  BY <1>1, OwnDoes DEF Else, StaysClear, OthersRun, OthersWrite, WriterBecomes
<1>3. /\ run[i].stage = "sweep" /\ run[i].target = NoPid /\ run[i].todo = {}
      /\ run'[i].stage = "write" /\ run'[i].pid = run[i].pid
      /\ run'[i].target = NoPid /\ run'[i].todo = {} /\ p # NoPid
  BY <1>1, OwnDoes, RunSessionAssumption DEF RunAs
<1>4. /\ writer'[i].stage = "mkdir" /\ writer'[i].pid = run[i].pid /\ writer'[i].file = "record"
      /\ writer'[i].policy.run = i /\ writer[i].pid # p
  <2>1. writer[i] = Idle
    BY <1>1, <1>3 DEF WriterShape
  <2> QED
    BY <1>1, <1>3, <2>1, OwnDoes, Kinds DEF WriterBecomes, Idle
<1>5. /\ \A j \in Runs : run'[j].pid = run[j].pid /\ run'[j].target = run[j].target
                            /\ run'[j].todo = run[j].todo
      /\ \A j \in Runs : run'[j].stage \in Sweeping => run[j].stage \in Sweeping
      /\ \A j \in Runs : run'[j].stage \in {"running", "swept", "dropped"} =>
             j # i /\ run'[j] = run[j]
      /\ \A j \in Runs : run[j].stage \in InPlace => run'[j].stage \in InPlace
  BY <1>2, <1>3 DEF Sweeping, InPlace
<1>6. There(p)'
  BY <1>1, <1>2, <1>3, <1>4 DEF There
<1>7. Unheld(p)' /\ Listed(p)' /\ Clean(p)'
  BY <1>1, <1>2, <1>5 DEF Unheld, Listed, Clean, Names
<1>8. Written(p)'
  BY <1>1, <1>2, <1>4 DEF Written, Finished
<1>9. Same(p)'
  <2>1. Calm(p)' => Calm(p)
    BY <1>1, <1>2, <1>4, <1>5 DEF Calm
  <2> QED
    BY <1>1, <1>2, <2>1 DEF Same
<1>10. Theirs(p)' /\ Kept(p)'
  <2>1. \A j \in Runs : run'[j].stage = "running" /\ run'[j].pid = p => run[i].pid # p
    BY <1>1, <1>3, <1>5 DEF OnePid
  <2>2. \A j \in Runs : run'[j].stage = "running" /\ run'[j].pid = p =>
            \A v \in Writers : writer'[v].pid = p => writer'[v] = writer[v]
    BY <1>2, <1>4, <2>1
  <2>3. Theirs(p)'
    BY <1>1, <1>2, <1>5, <2>2 DEF Theirs
  <2>4. Kept(p)'
    BY <1>1, <1>2, <1>5, Sets, KeptStays
  <2> QED
    BY <2>3, <2>4
<1>11. Found(p)'
  BY <1>1, <1>2, <1>4, TwoAtWorkNext DEF StaysClear, Found
<1>12. HasRun(p)'
  <2>1. run'[i].stage \in InPlace
    BY <1>3 DEF InPlace
  <2>2. CASE run[i].pid = p
    BY <1>3, <2>1, <2>2 DEF HasRun
  <2>3. CASE run[i].pid # p
    BY <1>1, <1>2, <1>5, <2>3 DEF HasRun
  <2> QED
    BY <2>2, <2>3
<1> QED
  BY <1>6, <1>7, <1>8, <1>9, <1>10, <1>11, <1>12 DEF Settled

LEMMA ByRmdir ==
    ASSUME NEW p \in Pids, Clear(p), StaysClear(p), Else, NEW i \in Runs, Rmdir(i)
    PROVE  Settled(p)'
<1>1. /\ There(p) /\ Unheld(p) /\ Listed(p) /\ Clean(p) /\ Written(p)
      /\ Same(p) /\ Theirs(p) /\ Kept(p) /\ Found(p) /\ HasRun(p)
      /\ TypeInv /\ Base /\ OnePid /\ RunShape(i) /\ WriterShape(i) /\ i \in Writers
      /\ p # NoPid
  BY RunSessionAssumption, Sets DEF Clear, Settled, Base
<1>2. /\ \A j \in Runs : j # i => run'[j] = run[j]
      /\ writer' = writer /\ file' = file
      /\ \A q \in Pids : q # run[i].target => dir'[q] = dir[q]
      /\ p = run[i].target => (dir'[p] <=> Names(p) # {})
      /\ call' = call /\ cmd' = cmd /\ promise' = promise /\ deaths' = deaths
      /\ p \notin broken' => p \notin broken
  BY <1>1, RmdirDoes DEF Else, StaysClear, OthersRun
<1>3. /\ run[i].stage \in {"swept", "dropped"} /\ run[i].left = {}
      /\ run'[i].target = NoPid /\ run'[i].stage \in {"sweep", "over"}
      /\ run'[i].pid \in {run[i].pid, NoPid} /\ run'[i].todo \in {run[i].todo, {}}
  BY <1>1, RmdirDoes DEF RunAs
<1>4. /\ \A j \in Runs : run'[j].target = p => j # i
      /\ \A j \in Runs : run'[j].pid = p => run[j].pid = p
      /\ \A j \in Runs : p \in run'[j].todo => p \in run[j].todo
      /\ \A j \in Runs : run'[j].stage \in InPlace \cup {"swept"} => j # i
  BY <1>1, <1>2, <1>3 DEF InPlace
<1>5. ASSUME run[i].target = p
      PROVE  /\ ~ dir'[p]
             /\ \A j \in Runs : j # i => /\ run[j].target # p /\ p \notin run[j].todo
                                         /\ ~ (run[j].pid = p /\ run[j].stage \in InPlace)
             /\ p \notin run[i].todo
             /\ \A v \in Writers : writer[v].pid # p
  <2>1. Names(p) = {}
    BY <1>1, <1>3, <1>5 DEF Listed
  <2>2. p \notin run[i].todo
    BY <1>1, <1>3, <1>5 DEF RunShape, Sweeping, InPlace
  <2>3. \A j \in Runs : j # i => run[j].target # p /\ p \notin run[j].todo
    BY <1>5, TwoAtWork DEF Clear
  <2>4. \A j \in Runs : j # i => run[j].pid # p
    BY <1>1, <1>3, <1>5 DEF RunShape, Unheld, OnePid, Sweeping
  <2>5. writer[i].pid # p
    BY <1>1, <1>3 DEF WriterShape, Idle
  <2>6. \A v \in Writers : writer[v].pid # p
    BY <1>5, <2>5, TwoAtWork DEF Clear
  <2> QED
    BY <1>2, <1>5, <2>1, <2>2, <2>3, <2>4, <2>6
<1>6. There(p)'
  <2>1. CASE run[i].target = p
    BY <1>2, <1>4, <1>5, <2>1 DEF There
  <2>2. CASE run[i].target # p
    BY <1>1, <1>2, <1>4, <2>2 DEF There
  <2> QED
    BY <2>1, <2>2
<1>7. Unheld(p)' /\ Listed(p)' /\ Clean(p)' /\ Written(p)'
  BY <1>1, <1>2, <1>4 DEF Unheld, Listed, Clean, Names, Written, Finished
<1>8. Same(p)'
  <2>1. Calm(p)' => Calm(p)
    BY <1>1, <1>2, <1>5 DEF Calm
  <2> QED
    BY <1>1, <1>2, <2>1 DEF Same
<1>9. Theirs(p)' /\ Kept(p)' /\ Found(p)'
  <2>1. \A j \in Runs : run'[j].stage = "running" => j # i /\ run'[j] = run[j]
    BY <1>2, <1>3
  <2> QED
    BY <1>1, <1>2, <2>1, KeptStays DEF Theirs, Found
<1>10. HasRun(p)'
  <2>1. CASE run[i].target = p
    BY <1>5, <2>1 DEF HasRun
  <2>2. CASE run[i].target # p
    <3>1. ~ (run[i].pid = p /\ run[i].stage \in InPlace)
      BY <1>1, <1>3, <2>2 DEF RunShape, InPlace
    <3> QED
      BY <1>1, <1>2, <2>2, <3>1 DEF HasRun
  <2> QED
    BY <2>1, <2>2
<1> QED
  BY <1>6, <1>7, <1>8, <1>9, <1>10 DEF Settled

LEMMA ByUnlink ==
    ASSUME NEW p \in Pids, Clear(p), StaysClear(p), Else, NEW i \in Runs,
           NEW n \in run[i].left, Unlink(i, n)
    PROVE  Settled(p)'
<1>1. /\ There(p) /\ Unheld(p) /\ Listed(p) /\ Clean(p) /\ Written(p)
      /\ Same(p) /\ Theirs(p) /\ Kept(p) /\ Found(p) /\ HasRun(p)
      /\ TypeInv /\ Base /\ OnePid /\ RunShape(i) /\ WriterShape(i) /\ i \in Writers
      /\ p # NoPid
  BY RunSessionAssumption, Sets DEF Clear, Settled, Base
<1>2. /\ \A j \in Runs : j # i => run'[j] = run[j]
      /\ dir' = dir
      /\ call' = call /\ cmd' = cmd /\ promise' = promise /\ deaths' = deaths
      /\ p \notin broken' => p \notin broken
  BY <1>1, UnlinkDoes DEF Else, StaysClear, OthersRun
<1>3. /\ run[i].stage \in {"swept", "dropped"} /\ run'[i].stage = run[i].stage
      /\ run'[i].target = run[i].target /\ run'[i].left = run[i].left \ {n}
      /\ run'[i].pid = run[i].pid /\ run'[i].todo = run[i].todo
  BY <1>1, UnlinkDoes DEF RunAs
<1>4. \A j \in Runs :
          /\ run'[j].stage = run[j].stage /\ run'[j].pid = run[j].pid
          /\ run'[j].target = run[j].target /\ run'[j].todo = run[j].todo
  BY <1>2, <1>3
<1>5. \A v \in Writers :
          /\ writer'[v].pid = writer[v].pid /\ writer'[v].policy = writer[v].policy
          /\ writer'[v] = writer[v] \/ writer[v].pid = run[i].target
  BY <1>1, UnlinkDoes
<1>6. There(p)' /\ Unheld(p)' /\ HasRun(p)'
  BY <1>1, <1>2, <1>4, <1>5 DEF There, Unheld, HasRun
<1>7. CASE run[i].target # p
  <2>1. file'[p] = file[p] /\ \A v \in Writers : writer'[v].pid = p => writer'[v] = writer[v]
    BY <1>1, <1>5, <1>7, UnlinkDoes
  <2>2. Listed(p)' /\ Clean(p)' /\ Written(p)'
    BY <1>1, <1>2, <1>3, <1>5, <1>7, <2>1 DEF Listed, Clean, Names, Written, Finished
  <2>3. Calm(p)' => Calm(p)
    BY <1>2, <1>4, <1>5 DEF Calm
  <2>4. Same(p)'
    BY <1>1, <2>1, <2>3 DEF Same
  <2>5. Theirs(p)' /\ Found(p)'
    BY <1>1, <1>2, <1>4, <1>5, <2>1 DEF Theirs, Found
  <2>6. Kept(p)'
    BY <1>1, <1>2, <1>4, <1>5, <2>1, Sets, KeptStays
  <2> QED
    BY <1>6, <2>2, <2>4, <2>5, <2>6 DEF Settled
<1>8. CASE run[i].target = p
  <2>1. /\ n[1] \in Files /\ n[2] \in Slots /\ n = <<n[1], n[2]>>
        /\ \A e \in Files : e # n[1] => file'[p][e] = file[p][e]
        /\ \A k \in Slots : k # n[2] => file'[p][n[1]][k] = file[p][n[1]][k]
        /\ file'[p][n[1]][n[2]] = NoFile
    BY <1>1, <1>8, UnlinkDoes
  <2>2. \A v \in Writers : writer[v].pid # p /\ writer'[v].pid # p
    <3>1. writer[i].pid # p
      BY <1>1, <1>3 DEF WriterShape, Idle
    <3> QED
      BY <1>5, <1>8, <3>1, TwoAtWork DEF Clear
  <2>3. \A f \in Files, k \in Slots :
            file'[p][f][k] = IF <<f, k>> = n THEN NoFile ELSE file[p][f][k]
    BY <2>1
  <2>4. Listed(p)'
    <3>1. Names(p)' = Names(p) \ {n}
      BY <2>3 DEF Names, Slots
    <3>2. \A j \in Runs : run'[j].target = p => j = i
      BY <1>4, <1>8, TwoAtWork DEF Clear
    <3> QED
      BY <1>1, <1>3, <1>8, <3>1, <3>2 DEF Listed
  <2>5. \A f \in Files : /\ file'[p][f].name \in {NoFile, file[p][f].name}
                         /\ file'[p][f].tmp \in {NoFile, file[p][f].tmp}
    BY <2>3 DEF Slots
  <2>6. Clean(p)' /\ Written(p)' /\ Found(p)'
    BY <1>1, <1>2, <2>2, <2>5, Kinds DEF Clean, Written, Found
  <2>7. Same(p)'
    BY <1>3, <1>8 DEF Same, Calm
  <2>8. \A j \in Runs : ~ (run'[j].stage = "running" /\ run'[j].pid = p)
    BY <1>1, <1>3, <1>4, <1>8 DEF RunShape, Unheld, OnePid, Sweeping
  <2>9. Theirs(p)' /\ Kept(p)'
    BY <2>8 DEF Theirs, Kept
  <2> QED
    BY <1>6, <2>4, <2>6, <2>7, <2>9 DEF Settled
<1> QED
  BY <1>7, <1>8

(* Writing to a directory that is there for sure.                          *)
LEMMA WritesThere ==
    ASSUME TypeInv, Base, NEW w \in Writers, WriteStep(w)
    PROVE  /\ Writes(w)
           /\ dir'[writer[w].pid] \/ dir' = dir
           /\ \A q \in Pids : q # writer[w].pid => dir'[q] = dir[q] /\ file'[q] = file[q]
           /\ \A v \in Writers :
                  /\ writer'[v].pid = writer[v].pid /\ writer'[v].policy = writer[v].policy
                  /\ writer[v].pid # writer[w].pid => writer'[v] = writer[v]
<1>1. CASE MakeDir(w)
  BY <1>1, MakeDirDoes DEF Writes, OthersWrite
<1>2. CASE OpenTmp(w)
  BY <1>2, OpenTmpDoes DEF Writes, OthersWrite
<1>3. CASE WriteAll(w)
  BY <1>3, WriteAllDoes DEF Writes, OthersWrite
<1>4. CASE Rename(w)
  BY <1>4, RenameDoes, ZenonT(40) DEF Writes
<1> QED
  BY <1>1, <1>2, <1>3, <1>4 DEF WriteStep

(* The only writer of a directory in no clash leaves whole files.          *)
LEMMA WritesWhole ==
    ASSUME NEW p \in Pids, Clear(p), NEW w \in Writers, WriteStep(w), writer[w].pid = p
    PROVE  LET f == writer[w].file  policy == writer[w].policy IN
           /\ \A e \in Files : /\ file'[p][e].name \in {file[p][e].name, policy}
                               /\ file'[p][e].tmp \in {file[p][e].tmp, NoFile, Empty, policy}
           /\ writer'[w].stage = "write" =>
                  writer'[w].fd = "tmp" /\ file'[p][writer'[w].file].tmp = Empty
           /\ writer'[w].stage = "rename" => file'[p][writer'[w].file].tmp = policy
           /\ writer'[w].file = "policy" =>
                  file'[p]["record"] = [name |-> policy, tmp |-> NoFile]
           /\ writer'[w].stage = "done" =>
                  /\ file'[p]["record"] = [name |-> policy, tmp |-> NoFile]
                  /\ file'[p]["policy"] = [name |-> policy, tmp |-> NoFile]
<1> DEFINE f == writer[w].file
           policy == writer[w].policy
<1>1. /\ TypeInv /\ Base /\ Written(p) /\ Writes(w) /\ f \in Files
      /\ "record" # "policy" /\ Files = {"record", "policy"}
  BY WritesThere, WriterAt DEF Clear, Settled, Files
<1>2. /\ writer[w].stage = "write" => writer[w].fd = "tmp" /\ file[p][f].tmp = Empty
      /\ writer[w].stage = "rename" => file[p][f].tmp = policy
      /\ f = "policy" => file[p]["record"] = [name |-> policy, tmp |-> NoFile]
  BY <1>1 DEF Written, Finished
<1>3. CASE MakeDir(w)
  BY <1>1, <1>2, <1>3, MakeDirDoes
<1>4. CASE OpenTmp(w)
  BY <1>1, <1>2, <1>4, OpenTmpDoes, SMTT(30)
<1>5. CASE WriteAll(w)
  <2>1. writer[w].fd = "tmp" /\ file[p][f].tmp = Empty /\ "name" # "tmp" /\ "tmp" # "gone"
    BY <1>1, <1>2, <1>5, WriteAllDoes
  <2>2. /\ file'[p][f].tmp = policy /\ file'[p][f].name = file[p][f].name
        /\ \A e \in Files : e # f => file'[p][e] = file[p][e]
        /\ writer'[w].stage = "rename" /\ writer'[w].file = f
    BY <1>1, <1>5, <2>1, WriteAllDoes, SMTT(30) DEF Slots
  <2> QED
    BY <1>1, <1>2, <2>2
<1>6. CASE Rename(w)
  <2>1. /\ file'[p][f] = [name |-> file[p][f].tmp, tmp |-> NoFile]
        /\ \A e \in Files : e # f => file'[p][e] = file[p][e]
        /\ writer'[w].stage = (IF f = "record" THEN "mkdir" ELSE "done")
        /\ writer[w].stage = "rename"
    BY <1>1, <1>6, RenameDoes
  <2>2. file'[p][f] = [name |-> policy, tmp |-> NoFile]
    BY <1>2, <2>1
  <2> QED
    BY <1>1, <1>2, <2>1, <2>2
<1> QED
  BY <1>3, <1>4, <1>5, <1>6 DEF WriteStep

LEMMA ByWrite ==
    ASSUME NEW p \in Pids, Clear(p), StaysClear(p), Else, run' = run,
           NEW w \in Writers, WriteStep(w)
    PROVE  Settled(p)'
<1> DEFINE policy == writer[w].policy
<1>1. /\ There(p) /\ Unheld(p) /\ Listed(p) /\ Clean(p) /\ Written(p)
      /\ Same(p) /\ Theirs(p) /\ Kept(p) /\ Found(p) /\ HasRun(p)
      /\ TypeInv /\ Base /\ OnePid
  BY DEF Clear, Settled, Base
<1>2. /\ run' = run /\ call' = call /\ cmd' = cmd /\ promise' = promise /\ deaths' = deaths
      /\ p \notin broken' => p \notin broken
  BY DEF Else, StaysClear
<1>3. /\ Writes(w)
      /\ dir'[writer[w].pid] \/ dir' = dir
      /\ \A v \in Writers :
             /\ writer'[v].pid = writer[v].pid /\ writer'[v].policy = writer[v].policy
             /\ writer[v].pid # writer[w].pid => writer'[v] = writer[v]
  BY <1>1, WritesThere
<1>4. CASE writer[w].pid # p
  <2>1. /\ dir'[p] = dir[p] /\ file'[p] = file[p]
        /\ \A v \in Writers : writer'[v].pid = p => writer'[v] = writer[v]
    BY <1>1, <1>3, <1>4, WritesThere
  <2>2. There(p)' /\ Unheld(p)' /\ HasRun(p)' /\ Listed(p)' /\ Clean(p)'
    BY <1>1, <1>2, <1>3, <2>1 DEF There, Unheld, HasRun, Listed, Clean, Names
  <2>3. Written(p)' /\ Theirs(p)' /\ Found(p)'
    BY <1>1, <1>2, <1>3, <2>1 DEF Written, Finished, Theirs, Found
  <2>4. Calm(p)' => Calm(p)
    BY <1>2, <1>3, <2>1 DEF Calm
  <2>5. Same(p)'
    BY <1>1, <2>1, <2>4 DEF Same
  <2>6. Kept(p)'
    BY <1>1, <1>2, <1>3, <2>1, Sets, KeptStays
  <2> QED
    BY <2>2, <2>3, <2>5, <2>6 DEF Settled
<1>5. CASE writer[w].pid = p
  <2>1. /\ dir[p] /\ dir'[p]
        /\ \A v \in Writers : writer'[v].pid = p => v = w
    BY <1>1, <1>3, <1>5, TwoAtWork DEF There, Clear
  <2>2. \A i \in Runs : run[i].target # p
    <3> SUFFICES ASSUME NEW i \in Runs, run[i].target = p PROVE FALSE
      OBVIOUS
    <3>1. i = w /\ WriterShape(i) /\ RunShape(i)
      BY <1>1, <1>5, Sets, TwoAtWork DEF Clear, Base
    <3> QED
      BY <1>3, <3>1, RunSessionAssumption DEF WriterShape, RunShape, Writes
  <2>3. /\ policy \in Contents /\ policy.kind = "whole" /\ policy.run \in Runs
    BY <1>1, <1>3, WriterAt
  <2>4. \A e \in Files : /\ file'[p][e].name \in {file[p][e].name, policy}
                         /\ file'[p][e].tmp \in {file[p][e].tmp, NoFile, Empty, policy}
    BY <1>5, WritesWhole
  <2>5. There(p)' /\ Unheld(p)' /\ Listed(p)' /\ Same(p)' /\ HasRun(p)'
    BY <1>1, <1>2, <1>3, <1>5, <2>1, <2>2
       DEF There, Unheld, Listed, Same, Calm, HasRun
  <2>6. Clean(p)'
    BY <1>1, <2>3, <2>4, Kinds, SMTT(30) DEF Clean
  <2>7. Written(p)'
    <3>1. /\ writer'[w].pid = p /\ writer'[w].policy = policy
          /\ \A v \in Writers : writer'[v].pid = p => v = w
      BY <1>3, <1>5, <2>1
    <3>2. /\ writer'[w].stage = "write" =>
                 writer'[w].fd = "tmp" /\ file'[p][writer'[w].file].tmp = Empty
          /\ writer'[w].stage = "rename" => file'[p][writer'[w].file].tmp = policy
          /\ writer'[w].file = "policy" => file'[p]["record"] = [name |-> policy, tmp |-> NoFile]
          /\ writer'[w].stage = "done" =>
                 /\ file'[p]["record"] = [name |-> policy, tmp |-> NoFile]
                 /\ file'[p]["policy"] = [name |-> policy, tmp |-> NoFile]
      BY <1>5, WritesWhole
    <3> HIDE DEF policy
    <3> QED
      BY <3>1, <3>2 DEF Written, Finished
  <2>8. Theirs(p)'
    <3> SUFFICES ASSUME NEW j \in Runs, run[j].stage = "running", run[j].pid = p
                 PROVE  /\ \A f \in Files : file'[p][f].name.run = j
                        /\ \A v \in Writers : writer'[v].pid = p => writer'[v].policy.run = j
      BY <1>2 DEF Theirs
    <3>1. /\ \A f \in Files : file[p][f].name.run = j
          /\ policy.run = j
      BY <1>1, <1>5 DEF Theirs
    <3> QED
      BY <1>3, <2>1, <2>4, <3>1
  <2>9. Found(p)'
    <3> SUFFICES ASSUME cmd.at = p
                 PROVE  /\ cmd.run \in Runs
                        /\ \A f \in Files : file'[p][f].name = NoFile
                                            \/ file'[p][f].name.run = cmd.run
                        /\ \A v \in Writers : writer'[v].pid = p => writer'[v].policy.run = cmd.run
      BY <1>2 DEF Found
    <3>1. /\ cmd.run \in Runs /\ policy.run = cmd.run
          /\ \A f \in Files : file[p][f].name = NoFile \/ file[p][f].name.run = cmd.run
      BY <1>1, <1>5 DEF Found
    <3> QED
      BY <1>3, <2>1, <2>4, <3>1
  <2>10. Kept(p)'
    <3> SUFFICES ASSUME NEW j \in Runs, run[j].stage = "running", run[j].pid = p, p \notin broken
                 PROVE  /\ Keeps(j, file'[p]["policy"].name.grants)
                        /\ \A g \in Granters : writer'[g].pid = p =>
                               /\ Keeps(j, writer'[g].policy.grants)
                               /\ \A x \in call[g].path : promise[j][x] = "unknown"
      BY <1>2 DEF Kept, Keeps
    <3>1. /\ Keeps(j, file[p]["policy"].name.grants)
          /\ \A g \in Granters : writer[g].pid = p =>
                 /\ Keeps(j, writer[g].policy.grants)
                 /\ \A x \in call[g].path : promise[j][x] = "unknown"
      BY <1>1 DEF Kept
    <3>2. w \in Granters
      <4> SUFFICES ASSUME w \in Runs PROVE FALSE
        BY DEF Writers
      <4>1. run[w].stage = "write" /\ run[w].pid = p
        BY <1>1, <1>3, <1>5 DEF Base, WriterShape, Writes
      <4>2. p # NoPid
        BY RunSessionAssumption
      <4> QED
        BY <1>1, <4>1, <4>2 DEF OnePid
    <3>3. Keeps(j, policy.grants)
      BY <1>5, <3>1, <3>2
    <3>4. Keeps(j, file'[p]["policy"].name.grants)
      BY <2>4, <3>1, <3>3, Sets
    <3> QED
      BY <1>3, <3>1, <3>4, Sets
  <2> QED
    BY <2>5, <2>6, <2>7, <2>8, <2>9, <2>10 DEF Settled
<1> QED
  BY <1>4, <1>5

LEMMA ByDeath ==
    ASSUME NEW p \in Pids, Clear(p), StaysClear(p), NEW i \in Runs, RunDies(i)
    PROVE  Settled(p)'
<1>1. /\ There(p) /\ Unheld(p) /\ Listed(p) /\ Clean(p) /\ Written(p)
      /\ Same(p) /\ Theirs(p) /\ Kept(p) /\ Found(p)
      /\ TypeInv /\ Base /\ p # NoPid /\ i \in Writers
  BY RunSessionAssumption, Sets DEF Clear, Settled, Base
<1>2. /\ \A j \in Runs : j # i => run'[j] = run[j]
      /\ \A v \in Writers : v # i => writer'[v] = writer[v]
      /\ run[i].stage \notin Ended
      /\ run'[i].stage = "over" /\ run'[i].pid = NoPid /\ run'[i].target = NoPid
      /\ run'[i].todo = {} /\ writer'[i] = Idle
      /\ dir' = dir /\ file' = file /\ call' = call /\ cmd' = cmd /\ promise' = promise
      /\ deaths' # deaths /\ deaths' # 0
  BY <1>1, RunDiesDoes DEF RunAs, OthersRun, OthersWrite
<1>3. \A v \in Writers : writer'[v].pid = p => v # i /\ writer'[v] = writer[v]
  BY <1>1, <1>2 DEF Idle
<1>4. \A j \in Runs : run'[j].pid = p \/ run'[j].target = p \/ p \in run'[j].todo =>
          j # i /\ run'[j] = run[j]
  BY <1>1, <1>2
<1>5. p \notin broken' => p \notin broken /\ run[i].target # p /\ writer[i].pid # p
  <2>1. p \notin broken' => p \notin broken /\ p \notin Interrupted
    BY DEF StaysClear
  <2>2. run'[i] # run[i]
    BY <1>2 DEF Ended
  <2>3. run[i].target = p => p \in Interrupted
    BY <1>2, <2>2 DEF Interrupted
  <2>4. writer[i].pid = p => p \in Interrupted
    BY <1>1, <1>2 DEF Interrupted, Idle
  <2> QED
    BY <2>1, <2>3, <2>4
<1>6. There(p)' /\ Unheld(p)' /\ Listed(p)'
  BY <1>1, <1>2, <1>3, <1>4 DEF There, Unheld, Listed, Names
<1>7. Clean(p)' /\ Written(p)'
  BY <1>1, <1>2, <1>3, <1>5 DEF Clean, Written, Finished
<1>8. Same(p)'
  <2>1. Calm(p)' => Calm(p)
    BY <1>2, <1>5 DEF Calm
  <2> QED
    BY <1>1, <1>2, <2>1 DEF Same
<1>9. Theirs(p)' /\ Found(p)'
  BY <1>1, <1>2, <1>3, <1>4 DEF Theirs, Found
<1>10. Kept(p)'
  BY <1>1, <1>2, <1>3, <1>4, <1>5, Sets, KeptStays
<1>11. HasRun(p)'
  BY <1>2 DEF HasRun
<1> QED
  BY <1>6, <1>7, <1>8, <1>9, <1>10, <1>11 DEF Settled

LEMMA ByFailedGrant ==
    ASSUME NEW p \in Pids, Clear(p), StaysClear(p), NEW g \in Granters, GrantFails(g)
    PROVE  Settled(p)'
<1>1. /\ There(p) /\ Unheld(p) /\ Listed(p) /\ Clean(p) /\ Written(p)
      /\ Same(p) /\ Theirs(p) /\ Kept(p) /\ Found(p) /\ HasRun(p)
      /\ TypeInv /\ Base /\ p # NoPid /\ g \in Writers /\ WriterShape(g)
  BY RunSessionAssumption, Sets DEF Clear, Settled, Base
<1>2. /\ dir' = dir /\ file' = file /\ run' = run /\ cmd' = cmd /\ promise' = promise
      /\ \A h \in Granters : h # g => call'[h] = call[h]
      /\ \A v \in Writers : v # g => writer'[v] = writer[v]
      /\ writer'[g] = Idle
  BY <1>1, GrantFailsDoes DEF OthersWrite
<1>3. \A v \in Writers : writer'[v].pid = p => v # g /\ writer'[v] = writer[v]
  BY <1>1, GrantFailsDoes DEF Idle, OthersWrite
<1>4. ASSUME p \notin broken' PROVE p \notin broken /\ writer[g].pid # p
  <2> SUFFICES ASSUME writer[g].pid = p PROVE FALSE
    BY <1>4 DEF StaysClear
  <2>1. Writes(g)
    BY <1>1 DEF WriterShape, Idle, Writes
  <2>2. dir[p]
    BY <1>1 DEF There
  <2>3. writer[g].stage = "rename" => file[p][writer[g].file].tmp # NoFile
    BY <1>1, <2>1, WriterAt DEF Written
  <2>4. deaths' # deaths
    BY <1>1, <2>2, <2>3, GrantFailsDoes DEF WriteFails
  <2>5. p \in Interrupted
    BY <1>1, <2>4, GrantFailsDoes DEF Interrupted, Idle
  <2> QED
    BY <1>4, <2>5 DEF StaysClear
<1>5. There(p)' /\ Unheld(p)' /\ Listed(p)'
  BY <1>1, <1>2, <1>3 DEF There, Unheld, Listed, Names
<1>6. Clean(p)' /\ Written(p)'
  BY <1>1, <1>2, <1>3, <1>4 DEF Clean, Written, Finished
<1>7. Same(p)'
  <2>1. Calm(p)' => Calm(p)
    BY <1>2, <1>4 DEF Calm
  <2> QED
    BY <1>1, <1>2, <2>1 DEF Same
<1>8. Theirs(p)' /\ Found(p)'
  BY <1>1, <1>2, <1>3 DEF Theirs, Found
<1>9. Kept(p)'
  BY <1>1, <1>2, <1>3, <1>4, Sets, KeptStays
<1>10. HasRun(p)'
  BY <1>1, <1>2, GrantFailsDoes DEF HasRun
<1> QED
  BY <1>5, <1>6, <1>7, <1>8, <1>9, <1>10 DEF Settled

LEMMA ByReturn ==
    ASSUME NEW p \in Pids, Clear(p), StaysClear(p), NEW g \in Granters, GrantReturns(g)
    PROVE  Settled(p)'
<1> DEFINE i == writer[g].policy.run
           policy == writer[g].policy
<1>1. /\ There(p) /\ Unheld(p) /\ Listed(p) /\ Clean(p) /\ Written(p)
      /\ Same(p) /\ Theirs(p) /\ Kept(p) /\ Found(p) /\ HasRun(p)
      /\ TypeInv /\ Base /\ p # NoPid /\ g \in Writers /\ g \notin Runs /\ WriterShape(g)
      /\ p \notin broken' => p \notin broken
  BY RunSessionAssumption, Sets DEF Clear, StaysClear, Settled, Base
<1>2. /\ dir' = dir /\ file' = file /\ run' = run /\ cmd' = cmd /\ deaths' = deaths
      /\ \A h \in Granters : h # g => call'[h] = call[h]
      /\ \A v \in Writers : v # g => writer'[v] = writer[v]
      /\ writer'[g] = Idle /\ writer[g].stage = "done" /\ call[g] # NoCall /\ i \in Runs
      /\ \A j \in Runs : j # i => promise'[j] = promise[j]
      /\ \A x \in Paths :
             promise'[i][x] = IF x \in call[g].path THEN Says(call[g].verb) ELSE promise[i][x]
  BY <1>1, GrantReturnsDoes DEF OthersWrite
<1>3. \A v \in Writers : writer'[v].pid = p => v # g /\ writer'[v] = writer[v]
  BY <1>1, <1>2 DEF Idle
<1>4. There(p)' /\ Unheld(p)' /\ Listed(p)' /\ Clean(p)' /\ HasRun(p)'
  BY <1>1, <1>2, <1>3 DEF There, Unheld, Listed, Names, Clean, HasRun
<1>5. Written(p)' /\ Theirs(p)' /\ Found(p)'
  BY <1>1, <1>2, <1>3 DEF Written, Finished, Theirs, Found
<1>6. CASE writer[g].pid # p
  <2>1. Calm(p)' => Calm(p)
    BY <1>1, <1>2, <1>6 DEF Calm
  <2>2. Same(p)'
    BY <1>1, <1>2, <2>1 DEF Same
  <2>3. \A j \in Runs : run[j].stage = "running" /\ run[j].pid = p => j # i
    BY <1>1, <1>6 DEF Base, Home, Ended
  <2>4. Kept(p)'
    BY <1>1, <1>2, <1>3, <2>3, Sets, KeptStays
  <2> QED
    BY <1>4, <1>5, <2>2, <2>4 DEF Settled
<1>7. CASE writer[g].pid = p
  <2>1. p \notin broken => /\ file[p]["record"] = [name |-> policy, tmp |-> NoFile]
                           /\ file[p]["policy"] = [name |-> policy, tmp |-> NoFile]
    BY <1>1, <1>2, <1>7 DEF Written, Finished
  <2>2. Same(p)'
    BY <1>1, <1>2, <2>1 DEF Same, Calm
  <2>3. \A v \in Writers : writer'[v].pid # p
    BY <1>3, <1>7, <1>1, TwoAtWork DEF Clear
  <2>4. Kept(p)'
    <3> SUFFICES ASSUME NEW j \in Runs, run[j].stage = "running", run[j].pid = p, p \notin broken
                 PROVE  Keeps(j, file[p]["policy"].name.grants)'
      BY <1>1, <1>2, <2>3, Sets DEF Kept
    <3>1. j = i /\ Keeps(j, policy.grants)
      BY <1>1, <1>7 DEF Theirs, Kept
    <3>2. file'[p]["policy"].name.grants = policy.grants
      BY <1>2, <2>1
    <3>3. \A x \in call[g].path : x \in policy.grants <=> call[g].verb = "allow"
      BY <1>1, <1>2 DEF WriterShape
    <3>4. ASSUME NEW x \in Paths
          PROVE  /\ promise'[i][x] = "allowed" => x \in policy.grants
                 /\ promise'[i][x] = "denied" => x \notin policy.grants
      BY <1>2, <3>1, <3>3 DEF Keeps, Says
    <3> QED
      BY <3>1, <3>2, <3>4 DEF Keeps
  <2> QED
    BY <1>4, <1>5, <2>2, <2>4 DEF Settled
<1> QED
  BY <1>6, <1>7

(* A call starts from the record.  In its own directory nobody else works. *)
LEMMA ByGrant ==
    ASSUME NEW p \in Pids, Clear(p), StaysClear(p), NEW g \in Granters,
           NEW verb \in {"allow", "deny"}, NEW x \in Paths, NEW q \in Pids, Grant(g, verb, x, q)
    PROVE  Settled(p)'
<1>1. /\ There(p) /\ Unheld(p) /\ Listed(p) /\ Clean(p) /\ Written(p)
      /\ Same(p) /\ Theirs(p) /\ Kept(p) /\ Found(p) /\ HasRun(p)
      /\ TypeInv /\ Base /\ p # NoPid /\ g \in Writers /\ g \notin Runs /\ WriterShape(g)
      /\ p \notin broken' => p \notin broken
  BY RunSessionAssumption, Sets DEF Clear, StaysClear, Settled, Base
<1>2. PICK i \in Runs, old \in SUBSET Paths, new \in SUBSET Paths :
          /\ file[q]["record"].name.run = i /\ file[q]["record"].name = Policy(i, old)
          /\ dir[q] /\ writer[g].stage = "idle"
          /\ \A y \in Paths : y # x => (y \in new <=> y \in old)
          /\ dir' = dir /\ file' = file /\ run' = run /\ cmd' = cmd /\ deaths' = deaths
          /\ \A h \in Granters : h # g => call'[h] = call[h]
          /\ call'[g].path = {x} /\ promise'[i][x] = "unknown"
          /\ \A j \in Runs, y \in Paths : j # i \/ y # x => promise'[j][y] = promise[j][y]
          /\ promise' \in PromiseTypes
          /\ OthersWrite(g)
          /\ writer'[g].stage = (IF new = old THEN "done" ELSE "mkdir")
          /\ writer'[g].pid = q /\ writer'[g].file = "record" /\ writer'[g].fd = "none"
          /\ writer'[g].policy = Policy(i, new)
  BY <1>1, GrantDoes, SMTT(30)
<1>3. /\ writer[g].pid # p
      /\ \A v \in Writers : v # g => writer'[v] = writer[v]
  BY <1>1, <1>2 DEF WriterShape, Idle, OthersWrite
<1>4. Unheld(p)' /\ Listed(p)' /\ Clean(p)' /\ HasRun(p)'
  BY <1>1, <1>2 DEF Unheld, Listed, Names, Clean, HasRun
<1>5. CASE q # p
  <2>1. \A v \in Writers : writer'[v].pid = p => v # g /\ writer'[v] = writer[v]
    BY <1>2, <1>3, <1>5
  <2>2. There(p)' /\ Written(p)' /\ Theirs(p)' /\ Found(p)'
    BY <1>1, <1>2, <2>1 DEF There, Written, Finished, Theirs, Found
  <2>3. Calm(p)' => Calm(p)
    BY <1>1, <1>2, <1>3 DEF Calm
  <2>4. Same(p)'
    BY <1>1, <1>2, <2>3 DEF Same
  <2>5. ASSUME NEW j \in Runs, run[j].stage = "running", run[j].pid = p
        PROVE  promise'[j] = promise[j]
    <3>1. j # i
      BY <1>1, <1>2, <1>5, <2>5, Sets DEF Base, Home, Ended, Slots
    <3>2. promise[j] \in [Paths -> {"denied", "allowed", "unknown"}]
      BY <1>1 DEF TypeInv
    <3>3. promise'[j] \in [Paths -> {"denied", "allowed", "unknown"}]
      BY <1>2 DEF PromiseTypes
    <3> QED
      BY <1>2, <3>1, <3>2, <3>3
  <2>6. Kept(p)'
    BY <1>1, <1>2, <2>1, <2>5, Sets, KeptStays
  <2> QED
    BY <1>4, <2>2, <2>4, <2>6 DEF Settled
<1>6. CASE q = p
  <2>1. /\ \A v \in Writers : writer'[v].pid = p => v = g
        /\ \A j \in Runs : run[j].target # p
    BY <1>1, <1>2, <1>6, TwoAtWorkNext DEF StaysClear
  <2>2. p \notin broken => /\ file[p]["record"] = file[p]["policy"]
                           /\ file[p]["record"].tmp = NoFile
    <3>1. \A v \in Writers : writer[v].pid # p
      BY <1>3, <2>1
    <3> QED
      BY <1>1, <1>2, <1>6, <2>1, <3>1 DEF Same, Calm
  <2>3. There(p)' /\ Same(p)'
    BY <1>1, <1>2, <1>6 DEF There, Same, Calm
  <2>4. Written(p)'
    <3>1. CASE new # old \/ p \in broken'
      BY <1>1, <1>2, <2>1, <3>1 DEF Written
    <3>2. CASE new = old /\ p \notin broken'
      <4>1. /\ file[p]["record"] = file[p]["policy"] /\ file[p]["record"].tmp = NoFile
            /\ file[p]["record"].name = Policy(i, new)
        BY <1>1, <1>2, <1>6, <2>2, <3>2
      <4>2. file[p]["record"] \in [name : Contents, tmp : Contents]
        BY <1>1, Sets DEF TypeInv
      <4>3. /\ file[p]["record"] = [name |-> Policy(i, new), tmp |-> NoFile]
            /\ file[p]["policy"] = [name |-> Policy(i, new), tmp |-> NoFile]
        BY <4>1, <4>2
      <4> QED
        BY <1>2, <2>1, <4>3 DEF Written, Finished
    <3> QED
      BY <3>1, <3>2
  <2>5. Policy(i, new).run = i /\ Policy(i, new).grants = new /\ Policy(i, old).grants = old
        /\ Policy(i, old).run = i /\ Policy(i, old) # NoFile
    BY Kinds
  <2>6. Theirs(p)'
    <3>1. \A j \in Runs : run[j].stage = "running" /\ run[j].pid = p => j = i
      BY <1>1, <1>2, <1>6, Sets DEF Theirs
    <3> QED
      BY <1>1, <1>2, <2>1, <2>5, <3>1 DEF Theirs
  <2>7. Found(p)'
    <3>1. cmd.at = p => cmd.run = i
      BY <1>1, <1>2, <1>6, <2>5, Sets DEF Found
    <3> QED
      BY <1>1, <1>2, <2>1, <2>5, <3>1 DEF Found
  <2>8. Kept(p)'
    <3> SUFFICES ASSUME NEW j \in Runs, run[j].stage = "running", run[j].pid = p, p \notin broken
                 PROVE  /\ Keeps(j, file[p]["policy"].name.grants)'
                        /\ \A h \in Granters : writer'[h].pid = p =>
                               /\ Keeps(j, writer[h].policy.grants)'
                               /\ \A y \in call'[h].path : promise'[j][y] = "unknown"
      BY <1>1, <1>2 DEF Kept
    <3>1. j = i /\ Keeps(j, file[p]["policy"].name.grants)
      BY <1>1, <1>2, <1>6, Sets DEF Theirs, Kept
    <3>2. file[p]["policy"].name.grants = old /\ file'[p]["policy"].name.grants = old
      BY <1>2, <1>6, <2>2, <2>5
    <3>3. Keeps(j, old)' /\ Keeps(j, new)'
      BY <1>2, <3>1, <3>2 DEF Keeps
    <3>4. Keeps(j, file[p]["policy"].name.grants)'
      BY <3>2, <3>3 DEF Keeps
    <3>5. writer'[g].policy.grants = new
      BY <1>2, <2>5
    <3>6. Keeps(j, writer[g].policy.grants)'
      BY <3>3, <3>5 DEF Keeps
    <3>7. \A y \in call'[g].path : promise'[j][y] = "unknown"
      BY <1>2, <3>1
    <3>8. \A h \in Granters : writer'[h].pid = p => h = g
      BY <2>1, Sets
    <3> QED
      BY <3>4, <3>6, <3>7, <3>8
  <2> QED
    BY <1>4, <2>3, <2>4, <2>6, <2>7, <2>8 DEF Settled
<1> QED
  BY <1>5, <1>6

LEMMA ByCommand ==
    ASSUME NEW p \in Pids, Clear(p), StaysClear(p),
           (\E i \in Runs : Find(i)) \/ cmd' = NoCommand,
           UNCHANGED <<dir, file, run, writer, call, promise, calls, deaths>>
    PROVE  Settled(p)'
<1>1. /\ There(p) /\ Unheld(p) /\ Listed(p) /\ Clean(p) /\ Written(p)
      /\ Same(p) /\ Theirs(p) /\ Kept(p) /\ HasRun(p)
      /\ TypeInv /\ Base /\ p # NoPid
  BY RunSessionAssumption DEF Clear, Settled
<1>2. There(p)' /\ Unheld(p)' /\ Listed(p)' /\ Clean(p)' /\ HasRun(p)'
  BY <1>1 DEF There, Unheld, Listed, Names, Clean, HasRun
<1>3. p \notin broken' => p \notin broken
  BY DEF StaysClear
<1>4. Written(p)' /\ Same(p)' /\ Theirs(p)'
  BY <1>1, <1>3 DEF Written, Finished, Same, Calm, Theirs
<1>5. Kept(p)'
  BY <1>1, <1>3, KeptStays
<1>6. Found(p)'
  <2>1. CASE cmd' = NoCommand
    BY <1>1, <2>1 DEF Found, NoCommand
  <2>2. ASSUME NEW i \in Runs, Find(i), cmd'.at = p PROVE Found(p)'
    <3>1. cmd'.run = i /\ run[i].stage = "running" /\ run[i].pid = p
      BY <1>1, <2>2, FindDoes, TwoAtWork DEF Clear
    <3> QED
      BY <1>1, <3>1 DEF Found, Theirs
  <2> QED
    BY <2>1, <2>2 DEF Found
<1> QED
  BY <1>2, <1>4, <1>5, <1>6 DEF Settled

LEMMA SettledStep ==
    ASSUME IInv, Next, TypeInv', Base', NEW p \in Pids, p \notin clash'
    PROVE  ~ Clashes(p)' /\ Settled(p)'
<1>1. /\ ~ Clashes(p)'
      /\ p \notin clash \/ Forgotten(p)'
      /\ p \notin broken' => (p \notin broken /\ p \notin Interrupted) \/ Forgotten(p)'
  BY HistoryDoes DEF IInv
<1>2. CASE Forgotten(p)'
  BY <1>1, <1>2, ForgottenSettled
<1>3. CASE ~ Forgotten(p)'
  <2>1. p \notin clash /\ Clear(p) /\ StaysClear(p)
    BY <1>1, <1>3 DEF IInv, Clear, StaysClear
  <2>2. ASSUME Else, NEW i \in Runs,
               \/ RunOnly(i) \/ Leaves(i) \/ Own(i) \/ Rmdir(i)
               \/ \E n \in run[i].left : Unlink(i, n)
        PROVE  Settled(p)'
    BY <2>1, <2>2, ByRunOnly, ByLeaves, ByOwn, ByRmdir, ByUnlink
  <2>3. ASSUME Else, run' = run, NEW w \in Writers, WriteStep(w) PROVE Settled(p)'
    BY <2>1, <2>3, ByWrite
  <2>4. ASSUME NEW i \in Runs, RunDies(i) PROVE Settled(p)'
    BY <2>1, <2>4, ByDeath
  <2>5. ASSUME NEW g \in Granters, GrantReturns(g) \/ GrantFails(g) PROVE Settled(p)'
    BY <2>1, <2>5, ByReturn, ByFailedGrant
  <2>6. ASSUME NEW g \in Granters, NEW verb \in {"allow", "deny"}, NEW x \in Paths,
               NEW q \in Pids, Grant(g, verb, x, q)
        PROVE  Settled(p)'
    BY <2>1, <2>6, ByGrant
  <2>7. ASSUME (\E i \in Runs : Find(i)) \/ cmd' = NoCommand,
               UNCHANGED <<dir, file, run, writer, call, promise, calls, deaths>>
        PROVE  Settled(p)'
    BY <2>1, <2>7, ByCommand
  <2>8. Settled(p)'
    BY <2>2, <2>3, <2>4, <2>5, <2>6, <2>7, Steps
  <2> QED
    BY <1>1, <2>8
<1> QED
  BY <1>2, <1>3

-----------------------------------------------------------------------------
(* The invariant.                                                          *)

LEMMA InitOk == Init => IInv
<1> SUFFICES ASSUME Init PROVE IInv
  OBVIOUS
<1> USE DEF Init
<1>1. /\ \A i \in Runs : run[i] = NotStarted /\ \A x \in Paths : promise[i][x] = "denied"
      /\ \A w \in Writers : writer[w] = Idle
      /\ \A g \in Granters : call[g] = NoCall
      /\ \A p \in Pids : ~ dir[p] /\ \A f \in Files, k \in Slots : file[p][f][k] = NoFile
      /\ cmd = NoCommand
  BY DEF Slots
<1>2. TypeInv
  BY Sets DEF TypeInv
<1>3. \A i \in Runs : RunShape(i)
  BY <1>1 DEF RunShape, NotStarted, Ended, Sweeping, InPlace
<1>4. OnePid
  BY <1>1 DEF OnePid, NotStarted
<1>5. \A w \in Writers : WriterShape(w)
  <2> SUFFICES ASSUME NEW w \in Writers PROVE WriterShape(w)
    OBVIOUS
  <2>1. writer[w] = Idle /\ writer[w].stage = "idle"
    BY <1>1 DEF Idle
  <2>2. w \in Runs => run[w].stage = "new"
    BY <1>1 DEF NotStarted
  <2> QED
    BY <1>1, <2>1, <2>2 DEF WriterShape
<1>6. Bare
  BY <1>1 DEF Bare
<1>7. \A i \in Runs : Home(i)
  <2>1. /\ \A i \in Runs : NoFile.run # i /\ AllDenied(i)
        /\ \A i \in Runs, w \in Writers : writer[w].policy.run # i
    BY <1>1, Kinds DEF Idle, AllDenied
  <2> QED
    BY <1>1, <2>1 DEF Home
<1>8. ASSUME NEW p \in Pids PROVE ~ Clashes(p) /\ Settled(p)
  <2>1. /\ \A i \in Runs : /\ run[i].stage = "new" /\ run[i].pid # p /\ run[i].target # p
                           /\ run[i].agent # p /\ p \notin run[i].todo
        /\ \A w \in Writers : writer[w].pid # p
        /\ cmd.at # p /\ ~ dir[p]
    BY <1>1, RunSessionAssumption DEF NotStarted, Idle, NoCommand
  <2>2. ~ Clashes(p)
    BY <2>1 DEF Clashes, AtWork
  <2>3. There(p) /\ Unheld(p) /\ Listed(p) /\ Written(p) /\ Same(p)
    BY <2>1 DEF There, Unheld, Listed, Written, Same, Calm
  <2>4. Clean(p) /\ Theirs(p) /\ Kept(p) /\ Found(p) /\ HasRun(p)
    BY <1>1, <2>1, Kinds DEF Clean, Theirs, Kept, Found, HasRun, Slots
  <2> QED
    BY <2>2, <2>3, <2>4 DEF Settled
<1> QED
  BY <1>2, <1>3, <1>4, <1>5, <1>6, <1>7, <1>8 DEF IInv, Base

LEMMA StepOk == IInv /\ [Next]_vars => IInv'
<1>1. ASSUME IInv, Next PROVE IInv'
  <2>1. TypeInv /\ Base /\ Calmed
    BY <1>1 DEF IInv, Calmed
  <2>2. TypeInv' /\ Base'
    BY <1>1, <2>1, TypeStep, RunShapeStep, OnePidStep, WriterShapeStep, BareStep, HomeStep
       DEF Base
  <2>3. \A p \in Pids : p \notin clash' => ~ Clashes(p)' /\ Settled(p)'
    BY <1>1, <2>2, SettledStep
  <2> QED
    BY <2>2, <2>3 DEF IInv
<1>2. ASSUME IInv, UNCHANGED vars PROVE IInv'
  <2>1. /\ dir' = dir /\ file' = file /\ run' = run /\ writer' = writer /\ call' = call
        /\ cmd' = cmd /\ promise' = promise /\ clash' = clash /\ broken' = broken
        /\ calls' = calls /\ deaths' = deaths
    BY <1>2 DEF vars, disk
  <2>2. TypeInv' /\ Base'
    BY <1>2, <2>1, SMTT(30) DEF IInv, TypeInv, Base, RunShape, OnePid, WriterShape, Bare, Home, AllDenied
  <2>3. ASSUME NEW p \in Pids, p \notin clash' PROVE ~ Clashes(p)' /\ Settled(p)'
    <3>1. ~ Clashes(p) /\ Settled(p)
      BY <1>2, <2>1, <2>3 DEF IInv
    <3>2. ~ Clashes(p)'
      BY <2>1, <3>1 DEF Clashes, AtWork, Alive
    <3>3. There(p)' /\ Unheld(p)' /\ Listed(p)' /\ Written(p)' /\ Same(p)'
      BY <2>1, <3>1 DEF Settled, There, Unheld, Listed, Names, Written, Finished, Same, Calm
    <3>4. Clean(p)' /\ Theirs(p)' /\ Kept(p)' /\ Found(p)' /\ HasRun(p)'
      BY <2>1, <3>1 DEF Settled, Clean, Theirs, Kept, Keeps, Found, HasRun
    <3> QED
      BY <3>2, <3>3, <3>4 DEF Settled
  <2> QED
    BY <2>2, <2>3 DEF IInv
<1> QED
  BY <1>1, <1>2

LEMMA Invariant == Spec => []IInv
BY InitOk, StepOk, PTL DEF Spec

-----------------------------------------------------------------------------
(* What the runs check.                                                    *)

(* What `nd7 allow` and `nd7 deny` said is what the session's next command *)
(* gets: however many runs, terminals and kills there are, the profile of  *)
(* a running session is its own and follows the last call about every      *)
(* path, unless two processes worked on its directory at once or one died  *)
(* in it.                                                                  *)
THEOREM PromisesHold == Spec => []GrantsTakeEffectUndisturbed
<1>1. ASSUME IInv PROVE GrantsTakeEffectUndisturbed
  <2> SUFFICES ASSUME NEW i \in Runs, Running(i), run[i].pid \notin clash \cup broken
               PROVE  PromisesKept(i)
    BY DEF GrantsTakeEffectUndisturbed
  <2>1. run[i].stage = "running" /\ run[i].pid \in Pids
    BY <1>1 DEF IInv, Base, RunShape, Running, Ended
  <2>2. PICK p \in Pids : p = run[i].pid /\ p \notin clash /\ p \notin broken
    BY <2>1
  <2>3. Theirs(p) /\ Kept(p)
    BY <1>1, <2>2 DEF IInv, Settled
  <2>4. /\ file[p]["policy"].name.run = i
        /\ Keeps(i, file[p]["policy"].name.grants)
    BY <2>1, <2>2, <2>3, Sets DEF Theirs, Kept
  <2>5. file[p]["policy"].name \in Contents
    BY <1>1, Sets DEF IInv, TypeInv
  <2>6. file[p]["policy"].name.kind = "whole"
    BY <2>4, <2>5, Kinds
  <2> QED
    BY <2>2, <2>4, <2>6 DEF PromisesKept, Keeps
<1> QED
  BY <1>1, Invariant, PTL

(* The record that allow and deny start from and the profile that commands *)
(* run under agree in every directory that nobody is at work on.           *)
THEOREM FilesAgree == Spec => []RecordIsProfile
<1>1. ASSUME IInv PROVE RecordIsProfile
  <2> SUFFICES ASSUME NEW p \in Pids, dir[p], AtWork(p) = {}, p \notin clash \cup broken
               PROVE  file[p]["record"] = file[p]["policy"]
    BY DEF RecordIsProfile
  <2>1. Calm(p)
    BY DEF AtWork, Calm
  <2> QED
    BY <1>1, <2>1 DEF IInv, Settled, Same
<1> QED
  BY <1>1, Invariant, PTL

(* Where no process was killed and no two worked at once, every directory  *)
(* is that of a run that is still there: Drop removes its own, and a sweep *)
(* leaves nothing of what it began to remove.                              *)
THEOREM NothingIsLeft == Spec => []LeftoversHaveCause
<1>1. ASSUME IInv PROVE LeftoversHaveCause
  BY <1>1 DEF IInv, Settled, HasRun, LeftoversHaveCause
<1> QED
  BY <1>1, Invariant, PTL

(* A command runs under a whole profile of its own run, whichever process  *)
(* held the directory's pid before and whatever pid the agent has got.     *)
THEOREM CommandsRunUnderTheirs == Spec => OwnProfileUndisturbed
<1> DEFINE OwnProfile == Apply /\ cmd.at \notin clash =>
                             Profile.kind = "whole" /\ Profile.run = cmd.run
<1>1. ASSUME IInv PROVE OwnProfile
  <2> SUFFICES ASSUME Apply, cmd.at \notin clash
               PROVE  Profile.kind = "whole" /\ Profile.run = cmd.run
    OBVIOUS
  <2>1. Profile.kind \in {"whole", "mixed"} /\ cmd.at \in Pids \cup {NoPid}
    BY <1>1 DEF Apply, IInv, TypeInv, CommandStates
  <2>2. cmd.at \in Pids
    BY <2>1, Kinds DEF Profile
  <2>3. PICK p \in Pids : p = cmd.at /\ p \notin clash /\ p # NoPid
    BY <2>2, RunSessionAssumption
  <2>4. Profile = file[p]["policy"].name
    BY <2>3 DEF Profile
  <2>5. Clean(p) /\ Found(p)
    BY <1>1, <2>3 DEF IInv, Settled
  <2>6. Profile.kind = "whole" /\ Profile # NoFile
    BY <2>1, <2>4, <2>5, Kinds, Sets DEF Clean
  <2> QED
    BY <2>3, <2>4, <2>5, <2>6, Sets DEF Found
<1>2. IInv => [OwnProfile]_vars
  BY <1>1
<1> QED
  BY <1>2, Invariant, PTL DEF OwnProfileUndisturbed

(* Nothing a kill left stands in the way of the next run: its sweep fails, *)
(* and its start with it, only where another process was at work too.      *)
THEOREM SweepsGetThrough == Spec => SweepFailsOnlyInClash
<1> DEFINE Through ==
               \A i \in Runs :
                   run[i].stage \in Sweeping /\ run'[i].stage = "over" /\ deaths' = deaths
                       => run[i].target \in clash
<1>1. ASSUME IInv, [Next]_vars PROVE Through
  <2> SUFFICES ASSUME NEW i \in Runs, run[i].stage \in Sweeping, run'[i].stage = "over",
                      deaths' = deaths
               PROVE  run[i].target \in clash
    OBVIOUS
  <2>1. TypeInv /\ Base /\ run'[i] # run[i]
    BY <1>1 DEF IInv, Sweeping
  <2>2. Acts(i)
    <3>1. Next
      BY <1>1, <2>1 DEF vars
    <3> QED
      BY <2>1, <3>1, WhoActs, ActsAlone DEF OthersRun
  <2>3. CASE NoDir(i)
    <3>1. run[i].target \in Pids /\ ~ dir[run[i].target]
      BY <2>1, <2>3, NoDirDoes
    <3> QED
      BY <1>1, <3>1 DEF IInv, Settled, There
  <2>4. CASE Rmdir(i)
    <3>1. /\ run[i].stage = "swept" /\ run[i].left = {} /\ Names(run[i].target) # {}
      BY <2>1, <2>4, RmdirDoes DEF RunAs, Sweeping
    <3>2. run[i].target \in Pids
      BY <2>1, <3>1 DEF Base, RunShape
    <3> QED
      BY <1>1, <3>1, <3>2 DEF IInv, Settled, Listed
  <2>5. ASSUME ~ NoDir(i), ~ Rmdir(i) PROVE FALSE
    <3> USE DEF Sweeping, RunAs
    <3>1. CASE OpenDir(i) \/ AgentEnds(i) \/ OrphanEnds(i)
      BY <2>1, <3>1, OpenDirDoes, AgentEndsDoes, OrphanEndsDoes
    <3>2. ASSUME NEW p \in Pids, Start(i, p) \/ Check(i, p) PROVE FALSE
      BY <2>1, <3>2, StartDoes, CheckDoes
    <3>3. CASE Leaves(i) \/ Own(i) \/ RunDies(i)
      BY <2>1, <3>3, LeavesDoes, OwnDoes, RunDiesDoes
    <3>4. ASSUME NEW n \in run[i].left, Unlink(i, n) PROVE FALSE
      BY <2>1, <3>4, UnlinkDoes
    <3> QED
      BY <2>2, <2>5, <3>1, <3>2, <3>3, <3>4 DEF Acts, RunOnly
  <2> QED
    BY <2>3, <2>4, <2>5
<1>2. IInv /\ [Next]_vars => [Through]_vars
  BY <1>1
<1> QED
  BY <1>2, Invariant, PTL DEF Spec, SweepFailsOnlyInClash, Sweeping
=============================================================================
