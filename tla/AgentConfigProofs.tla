------------------------- MODULE AgentConfigProofs -------------------------
(***************************************************************************)
(* What AgentConfig promises for any number of inits and checkouts, any    *)
(* edits of the files and any bounds: nd7's hooks and the tables of        *)
(* Codex's file are there once, the user's own hooks stay, a second call   *)
(* writes nothing, and an approval `nd7 run` counts on is that of the hook *)
(* it stands for.                                                          *)
(*                                                                         *)
(* What is inductive is that an init which runs alone, in files nobody     *)
(* edits meanwhile, has read what it is about to add to.  The rest is      *)
(* about texts: which positions Only keeps, and how many hooks of an event *)
(* stand in front of another.                                              *)
(***************************************************************************)
EXTENDS AgentConfig, SequenceTheorems, FiniteSetTheorems, TLAPS

Events == {"SessionStart", PreToolUse}
Kinds == {"own", "none", "cut", "prefix", "record"}
Paths == Binaries \cup {NoBinary}
Commands == [kind : Kinds, nd7 : Paths]
Tables == {"hook", "trust", "group", "torn"}
(* A hook has a command, and one of the user's is no nd7's.                *)
Items ==
    {x \in [t : Tables, event : Events, command : Commands, at : Nat] :
        x.t = "hook" => /\ x.at = 0 /\ x.command.kind \notin {"none", "cut"}
                        /\ x.command.kind = "own" => x.command = Own}
Texts == Seq(Items)

Stages == {"off", "read settings", "write settings", "fill settings", "rename settings",
           "read config", "append config", "read rc", "append rc"}
(* An init that has settings.json.tmp open, and one that has read them.    *)
Writing == {"fill settings", "rename settings"}
Holding == {"write settings"} \cup Writing
Memory == [stage : Stages, nd7 : Paths, agents : SUBSET Agents, text : Texts,
           sourced : BOOLEAN]

TypeInv ==
    /\ settings \in Texts /\ config \in Texts /\ rc \in Nat
    /\ tmp \in SUBSET Texts /\ open \in [Inits -> {"none", "tmp", "name", "gone"}]
    /\ mixed \in SUBSET Inits
    /\ init \in [Inits -> Memory]
    /\ \A p \in Inits : init[p].stage # "off" => init[p].nd7 \in Binaries
    /\ own \subseteq Events /\ settled \in Paths
    /\ overlap \in BOOLEAN /\ shared \in BOOLEAN /\ raced \in BOOLEAN
    /\ cut \in BOOLEAN /\ moved \in BOOLEAN
    /\ starts \in Nat /\ edits \in Nat /\ failures \in Nat

-----------------------------------------------------------------------------
(* The invariant.                                                          *)

(* Until two overlap, one init runs at a time.                             *)
AloneInv == overlap \/ \A p, q \in Active : p = q

(* Until two have the temporary open at once, whoever writes has it to     *)
(* himself, nobody has the settings themselves open, and what is renamed   *)
(* is all that was to be written.                                          *)
OpenIs(p) ==
    /\ open[p] = IF init[p].stage \in Writing THEN "tmp" ELSE "none"
    /\ init[p].stage = "rename settings" => tmp = {NewSettings(p)}
TmpInv ==
    /\ shared => overlap
    /\ \/ shared
       \/ /\ mixed = {}
          /\ \A p \in Inits : OpenIs(p)
          /\ \A p, q \in Inits : open[p] = "tmp" /\ open[q] = "tmp" => p = q

(* What it has read is what there is.                                      *)
FreshInv ==
    overlap \/ raced \/ \A p \in Inits :
        /\ init[p].stage \in Holding => init[p].text = settings
        /\ init[p].stage = "append config" => init[p].text = config
        /\ init[p].stage = "append rc" => init[p].sourced = (rc > 0)

(* Only an append that was cut off leaves an approval without its hash.    *)
Hashed(text) == \A j \in Trusts(text) : text[j].command # NoHash
HashInv == cut \/ Hashed(config)

(* The user's hooks are in the settings, and in what was read of them.     *)
HasOwn(text) == \A e \in own : \E i \in DOMAIN text : text[i] = Hook(e, Own)
OwnInv ==
    \/ raced \/ shared
    \/ /\ HasOwn(settings)
       /\ \A p \in Inits : init[p].stage \in Holding => HasOwn(init[p].text)

(* Where there is an approval with a whole hash, the hook of that place is *)
(* approved.                                                               *)
Covers(text, i, j) == Key(text, i) = <<text[j].event, text[j].at>> /\ Approved(text, i)
Placed(text) ==
    \A j \in Trusts(text) :
        text[j].command \notin Partial => \E i \in Hooks(text) : Covers(text, i, j)
PlacedInv == moved \/ raced \/ overlap \/ Placed(config)

(* What an init leaves behind: no hook is missing, and in Codex's file no  *)
(* approval of one of its own.                                             *)
Wanted(nd7) == {Prefix(nd7)} \cup {Record(e, nd7) : e \in Events}
AllInstalled(text) == \A nd7 \in Paths : \A hook \in Wanted(nd7) : Installed(text, hook)
AllApproved(text, nd7) == \A i \in Ours(text, nd7) : Key(text, i) \in KeysPresent(text)
PastSettings == {"read config", "append config", "read rc", "append rc"}
PastConfig == {"read rc", "append rc"}
SettledInv ==
    \/ overlap
    \/ /\ settled # NoBinary =>
              /\ ~ raced /\ AllInstalled(settings)
              /\ AllInstalled(config) /\ AllApproved(config, settled)
       /\ raced \/ \A p \in Inits :
              /\ init[p].stage \in PastSettings /\ "claude" \in init[p].agents =>
                     AllInstalled(settings)
              /\ init[p].stage \in PastConfig /\ "codex" \in init[p].agents =>
                     AllInstalled(config) /\ AllApproved(config, init[p].nd7)

IInv ==
    /\ TypeInv /\ AloneInv /\ TmpInv /\ FreshInv /\ HashInv
    /\ NoDuplicateTables /\ OneHookEach /\ OwnInv /\ PlacedInv /\ SettledInv

-----------------------------------------------------------------------------
(* Counting positions.                                                     *)

(* How many of a finite set of numbers are no greater than one of them     *)
(* tells them apart, and takes every value up to their number.             *)
Rank(I, i) == Cardinality({j \in I : j <= i})

LEMMA RankType ==
    ASSUME NEW n \in Nat, NEW I \in SUBSET (1 .. n)
    PROVE  /\ IsFiniteSet(I) /\ Cardinality(I) \in Nat
           /\ \A i \in I : Rank(I, i) \in 1 .. Cardinality(I)
<1>1. IsFiniteSet(I) /\ Cardinality(I) \in Nat
  <2>1. IsFiniteSet(1 .. n)
    BY FS_Interval
  <2> QED
    BY <2>1, FS_Subset, FS_CardinalityType
<1>2. ASSUME NEW i \in I PROVE Rank(I, i) \in 1 .. Cardinality(I)
  <2> DEFINE J == {j \in I : j <= i}
  <2>1. IsFiniteSet(J) /\ Cardinality(J) <= Cardinality(I)
    BY <1>1, FS_Subset
  <2>2. i \in J
    OBVIOUS
  <2>3. Cardinality(J) \in Nat /\ Cardinality(J) # 0
    BY <2>1, <2>2, FS_CardinalityType, FS_EmptySet
  <2> QED
    BY <1>1, <2>1, <2>3 DEF Rank
<1> QED
  BY <1>1, <1>2

LEMMA RankGrows ==
    ASSUME NEW n \in Nat, NEW I \in SUBSET (1 .. n), NEW i \in I, NEW j \in I, i < j
    PROVE  Rank(I, i) < Rank(I, j)
<1> DEFINE A == {k \in I : k <= i}
           B == {k \in I : k <= j}
<1>0. i \in Int /\ j \in Int /\ \A k \in I : k \in Int
  OBVIOUS
<1>1. A \subseteq B /\ j \in B /\ j \notin A
  <2>1. \A k \in I : k <= i => k <= j
    BY <1>0
  <2>2. j <= j /\ ~ j <= i
    BY <1>0
  <2> QED
    BY <2>1, <2>2
<1>2. IsFiniteSet(B)
  BY RankType, FS_Subset
<1>3. /\ IsFiniteSet(A) /\ Cardinality(A) <= Cardinality(B)
      /\ Cardinality(B) = Cardinality(A) => B = A
  BY <1>1, <1>2, FS_Subset
<1>4. Cardinality(A) \in Nat /\ Cardinality(B) \in Nat
  BY <1>2, <1>3, FS_CardinalityType
<1> QED
  BY <1>1, <1>3, <1>4 DEF Rank

LEMMA NthDoes ==
    ASSUME NEW n \in Nat, NEW I \in SUBSET (1 .. n)
    PROVE  /\ Cardinality(I) \in Nat
           /\ \A k \in 1 .. Cardinality(I) : Nth(I, k) \in I /\ Rank(I, Nth(I, k)) = k
           /\ \A i \in I : \E k \in 1 .. Cardinality(I) : Nth(I, k) = i
           /\ \A k, m \in 1 .. Cardinality(I) : k < m => Nth(I, k) < Nth(I, m)
<1>0. \A k \in I : k \in Int
  OBVIOUS
<1> DEFINE c == Cardinality(I)
           r == [i \in I |-> Rank(I, i)]
<1>1. IsFiniteSet(I) /\ c \in Nat /\ \A i \in I : Rank(I, i) \in 1 .. c
  BY RankType
<1>2. \A i, j \in I : i # j => Rank(I, i) # Rank(I, j)
  <2> SUFFICES ASSUME NEW i \in I, NEW j \in I, i # j PROVE Rank(I, i) # Rank(I, j)
    OBVIOUS
  <2>1. Rank(I, i) \in Nat /\ Rank(I, j) \in Nat
    BY <1>1
  <2>2. CASE i < j
    <3>1. Rank(I, i) < Rank(I, j)
      BY <2>2, RankGrows
    <3> QED
      BY <2>1, <3>1
  <2>3. CASE j < i
    <3>1. Rank(I, j) < Rank(I, i)
      BY <2>3, RankGrows
    <3> QED
      BY <2>1, <3>1
  <2>4. i \in Int /\ j \in Int
    BY <1>0
  <2>5. i < j \/ j < i
    BY <2>4
  <2> QED
    BY <2>2, <2>3, <2>5
<1>3. r \in Injection(I, 1 .. c)
  BY <1>1, <1>2 DEF Injection, IsInjective
<1>4. IsFiniteSet(1 .. c) /\ Cardinality(1 .. c) = c
  BY <1>1, FS_Interval
<1>5. r \in Surjection(I, 1 .. c)
  BY <1>3, <1>4, FS_Injection
<1>6. \A k \in 1 .. c : \E i \in I : Rank(I, i) = k
  BY <1>5 DEF Surjection
<1>7. \A k \in 1 .. c : Nth(I, k) \in I /\ Rank(I, Nth(I, k)) = k
  BY <1>6 DEF Nth, Rank
<1>8. \A i \in I : Nth(I, Rank(I, i)) = i
  BY <1>1, <1>2, <1>7
<1>9. ASSUME NEW k \in 1 .. c, NEW m \in 1 .. c, k < m PROVE Nth(I, k) < Nth(I, m)
  <2>1. /\ Nth(I, k) \in I /\ Rank(I, Nth(I, k)) = k
        /\ Nth(I, m) \in I /\ Rank(I, Nth(I, m)) = m
    BY <1>7
  <2>2. Nth(I, k) # Nth(I, m)
    BY <1>9, <2>1
  <2>3. ~ Nth(I, m) < Nth(I, k)
    <3>1. Nth(I, m) < Nth(I, k) => m < k
      BY <2>1, RankGrows
    <3> QED
      BY <1>1, <1>9, <3>1
  <2>4. Nth(I, k) \in Int /\ Nth(I, m) \in Int
    BY <1>0, <2>1
  <2> QED
    BY <2>2, <2>3, <2>4
<1> QED
  BY <1>1, <1>7, <1>8, <1>9

-----------------------------------------------------------------------------
(* Texts put together and taken apart.                                     *)

LEMMA TextDomain ==
    ASSUME NEW s \in Texts
    PROVE  /\ Len(s) \in Nat /\ DOMAIN s = 1 .. Len(s)
           /\ \A i \in DOMAIN s : s[i] \in Items /\ i \in Int
  BY LenProperties DEF Texts

LEMMA Joined ==
    ASSUME NEW s \in Texts, NEW t \in Texts
    PROVE  /\ s \o t \in Texts /\ Len(s) \in Nat /\ Len(s \o t) = Len(s) + Len(t)
           /\ \A i \in DOMAIN s : i \in Int /\ i <= Len(s) /\ i \in DOMAIN (s \o t) /\ (s \o t)[i] = s[i]
           /\ \A i \in DOMAIN t : /\ i \in Int /\ i >= 1 /\ Len(s) + i \in DOMAIN (s \o t)
                                  /\ (s \o t)[Len(s) + i] = t[i]
           /\ \A n \in DOMAIN (s \o t) :
                  n \in DOMAIN s \/ \E i \in DOMAIN t : n = Len(s) + i
<1>1. /\ Len(s) \in Nat /\ DOMAIN s = 1 .. Len(s)
      /\ Len(t) \in Nat /\ DOMAIN t = 1 .. Len(t)
  BY TextDomain
<1>2. /\ s \o t \in Texts /\ Len(s \o t) = Len(s) + Len(t)
      /\ \A i \in 1 .. Len(s) + Len(t) :
             (s \o t)[i] = IF i <= Len(s) THEN s[i] ELSE t[i - Len(s)]
  BY ConcatProperties DEF Texts
<1>3. DOMAIN (s \o t) = 1 .. Len(s) + Len(t)
  BY <1>2, TextDomain
<1>4. ASSUME NEW i \in DOMAIN s
      PROVE i \in Int /\ i <= Len(s) /\ i \in DOMAIN (s \o t) /\ (s \o t)[i] = s[i]
  BY <1>1, <1>2, <1>3
<1>5. ASSUME NEW i \in DOMAIN t
      PROVE  /\ i \in Int /\ i >= 1 /\ Len(s) + i \in DOMAIN (s \o t)
             /\ (s \o t)[Len(s) + i] = t[i]
  <2>1. i \in Int /\ i >= 1 /\ Len(s) + i \in 1 .. Len(s) + Len(t) /\ ~ Len(s) + i <= Len(s)
    BY <1>1
  <2>2. (Len(s) + i) - Len(s) = i
    BY <1>1, <2>1
  <2> QED
    BY <1>2, <1>3, <2>1, <2>2
<1>6. ASSUME NEW n \in DOMAIN (s \o t), n \notin DOMAIN s
      PROVE  \E i \in DOMAIN t : n = Len(s) + i
  <2>1. n - Len(s) \in 1 .. Len(t) /\ n = Len(s) + (n - Len(s))
    BY <1>1, <1>3, <1>6
  <2> QED
    BY <1>1, <2>1
<1> QED
  BY <1>1, <1>2, <1>4, <1>5, <1>6

(* A text that keeps some of another's items in their order.               *)
Embeds(f, t, s) ==
    /\ f \in [DOMAIN t -> DOMAIN s] /\ t \in Texts
    /\ \A k \in DOMAIN t : t[k] = s[f[k]]
    /\ \A k, m \in DOMAIN t : k < m => f[k] < f[m]

LEMMA OnlyDoes ==
    ASSUME NEW s \in Texts, NEW I \in SUBSET (DOMAIN s)
    PROVE  LET f == [k \in DOMAIN Only(s, I) |-> Nth(I, k)]
           IN  /\ Embeds(f, Only(s, I), s)
               /\ \A k \in DOMAIN Only(s, I) : f[k] \in I
               /\ \A i \in I : \E k \in DOMAIN Only(s, I) : f[k] = i
               /\ I = {} => Only(s, I) = <<>>
<1> DEFINE c == Cardinality(I)
           o == Only(s, I)
           f == [k \in DOMAIN o |-> Nth(I, k)]
<1>1. Len(s) \in Nat /\ I \in SUBSET (1 .. Len(s)) /\ \A i \in DOMAIN s : s[i] \in Items
  BY TextDomain
<1>2. /\ c \in Nat
      /\ \A k \in 1 .. c : Nth(I, k) \in I
      /\ \A i \in I : \E k \in 1 .. c : Nth(I, k) = i
      /\ \A k, m \in 1 .. c : k < m => Nth(I, k) < Nth(I, m)
  BY <1>1, NthDoes
<1>3. DOMAIN o = 1 .. c /\ \A k \in 1 .. c : o[k] = s[Nth(I, k)]
  BY DEF Only
<1>4. o \in Texts
  <2>1. o = [k \in 1 .. c |-> s[Nth(I, k)]] /\ \A k \in 1 .. c : s[Nth(I, k)] \in Items
    BY <1>1, <1>2 DEF Only
  <2> QED
    BY <1>2, <2>1 DEF Texts
<1>5. I = {} => o = <<>>
  <2>1. I = {} => c = 0
    BY FS_EmptySet
  <2> QED
    BY <2>1 DEF Only
<1> HIDE DEF o, c
<1>6. Embeds(f, o, s)
  BY <1>1, <1>2, <1>3, <1>4 DEF Embeds
<1> QED
  BY <1>2, <1>3, <1>5, <1>6 DEF o

LEMMA RemoveDoes ==
    ASSUME NEW s \in Texts, NEW i \in DOMAIN s
    PROVE  LET f == [k \in DOMAIN RemoveAt(s, i) |-> IF k < i THEN k ELSE k + 1]
           IN  /\ Embeds(f, RemoveAt(s, i), s)
               /\ \A j \in DOMAIN s : j # i => \E k \in DOMAIN RemoveAt(s, i) : f[k] = j
<1> DEFINE a == SubSeq(s, 1, i - 1)
           b == SubSeq(s, i + 1, Len(s))
           o == RemoveAt(s, i)
           n == Len(s)
<1>1. n \in Nat /\ DOMAIN s = 1 .. n /\ i \in 1 .. n /\ \A j \in 1 .. n : s[j] \in Items
  BY TextDomain
<1>2. a \in Texts /\ Len(a) = i - 1 /\ \A k \in 1 .. i - 1 : a[k] = s[k]
  <2>1. \A k \in 1 .. i - 1 : s[k] \in Items
    BY <1>1
  <2>2. /\ a \in Seq(Items) /\ Len(a) = IF 1 <= i - 1 THEN (i - 1) - 1 + 1 ELSE 0
        /\ \A k \in 1 .. (i - 1) - 1 + 1 : a[k] = s[1 + k - 1]
    BY <1>1, <2>1, SubSeqProperties
  <2> QED
    BY <1>1, <2>2 DEF Texts
<1>3. b \in Texts /\ Len(b) = n - i /\ \A k \in 1 .. n - i : b[k] = s[i + k]
  <2>1. \A k \in i + 1 .. n : s[k] \in Items
    BY <1>1
  <2>2. /\ b \in Seq(Items) /\ Len(b) = IF i + 1 <= n THEN n - (i + 1) + 1 ELSE 0
        /\ \A k \in 1 .. n - (i + 1) + 1 : b[k] = s[i + 1 + k - 1]
    BY <1>1, <2>1, SubSeqProperties
  <2>3. n - (i + 1) + 1 = n - i /\ \A k \in 1 .. n - i : i + 1 + k - 1 = i + k
    BY <1>1
  <2>4. Len(b) = n - i
    BY <1>1, <2>2
  <2> HIDE DEF b, n
  <2> QED
    BY <2>2, <2>3, <2>4 DEF Texts
<1>4. o = a \o b
  BY DEF RemoveAt
<1> HIDE DEF a, b, n
<1>5. /\ o \in Texts /\ Len(o) = n - 1
      /\ \A k \in 1 .. n - 1 : o[k] = IF k <= i - 1 THEN a[k] ELSE b[k - (i - 1)]
  <2>1. a \in Seq(Items) /\ b \in Seq(Items)
    BY <1>2, <1>3 DEF Texts
  <2>2. /\ a \o b \in Seq(Items) /\ Len(a \o b) = Len(a) + Len(b)
        /\ \A k \in 1 .. Len(a) + Len(b) : (a \o b)[k] = IF k <= Len(a) THEN a[k] ELSE b[k - Len(a)]
    BY ONLY <2>1, ConcatProperties
  <2>3. Len(a) = i - 1 /\ Len(a) + Len(b) = n - 1
    BY <1>1, <1>2, <1>3
  <2> HIDE DEF o
  <2> QED
    BY <1>4, <2>2, <2>3 DEF Texts
<1>6. DOMAIN o = 1 .. n - 1
  BY <1>1, <1>5, TextDomain
<1> DEFINE f == [k \in DOMAIN o |-> IF k < i THEN k ELSE k + 1]
<1>7. ASSUME NEW k \in 1 .. n - 1 PROVE f[k] \in 1 .. n /\ o[k] = s[f[k]]
  <2>1. CASE k < i
    BY <1>1, <1>2, <1>5, <1>6, <2>1
  <2>2. CASE ~ k < i
    <3>1. k - (i - 1) \in 1 .. n - i /\ i + (k - (i - 1)) = k + 1 /\ ~ k <= i - 1
      BY <1>1, <2>2
    <3>2. o[k] = s[k + 1]
      BY <1>3, <1>5, <3>1
    <3> QED
      BY <1>1, <1>6, <2>2, <3>2
  <2> QED
    BY <2>1, <2>2
<1>8. \A k, m \in 1 .. n - 1 : k < m => f[k] < f[m]
  BY <1>1, <1>6
<1>9. ASSUME NEW j \in 1 .. n, j # i PROVE \E k \in 1 .. n - 1 : f[k] = j
  <2>1. CASE j < i
    <3>1. j \in 1 .. n - 1 /\ f[j] = j
      BY <1>1, <1>6, <2>1
    <3> QED
      BY <3>1
  <2>2. CASE ~ j < i
    <3>1. j - 1 \in 1 .. n - 1 /\ f[j - 1] = j
      BY <1>1, <1>6, <1>9, <2>2
    <3> QED
      BY <3>1
  <2> QED
    BY <2>1, <2>2
<1>10. f \in [DOMAIN o -> DOMAIN s]
  <2>1. \A k \in DOMAIN o : (IF k < i THEN k ELSE k + 1) \in DOMAIN s
    BY <1>1, <1>6
  <2> QED
    BY <2>1
<1> HIDE DEF f
<1>11. Embeds(f, o, s)
  BY <1>5, <1>6, <1>7, <1>8, <1>10 DEF Embeds
<1> QED
  BY <1>1, <1>6, <1>9, <1>11 DEF f

(* What holds of every two items holds of a text that keeps some.          *)
LEMMA EmbedsApart ==
    ASSUME NEW s \in Texts, NEW t, NEW f, Embeds(f, t, s)
    PROVE  \A k, m \in DOMAIN t : f[k] = f[m] => k = m
<1> SUFFICES ASSUME NEW k \in DOMAIN t, NEW m \in DOMAIN t, k # m PROVE f[k] # f[m]
  OBVIOUS
<1>1. k \in Int /\ m \in Int
  BY TextDomain DEF Embeds
<1>2. f[k] \in Int /\ f[m] \in Int
  <2>1. f[k] \in DOMAIN s /\ f[m] \in DOMAIN s
    BY DEF Embeds
  <2> QED
    BY <2>1, TextDomain
<1>3. k < m \/ m < k
  BY <1>1
<1>4. f[k] < f[m] \/ f[m] < f[k]
  BY <1>3 DEF Embeds
<1> QED
  BY <1>2, <1>4

LEMMA EmbedsKeeps ==
    ASSUME NEW s \in Texts, NEW t, NEW f, Embeds(f, t, s)
    PROVE  (Once(s) => Once(t)) /\ (Valid(s) => Valid(t)) /\ (Hashed(s) => Hashed(t))
<1>1. /\ \A k, m \in DOMAIN t : f[k] = f[m] => k = m
      /\ \A k \in DOMAIN t : f[k] \in DOMAIN s /\ t[k] = s[f[k]]
  BY EmbedsApart DEF Embeds
<1>2. /\ \A k \in Hooks(t) : k \in DOMAIN t /\ f[k] \in Hooks(s)
      /\ \A k \in Trusts(t) : k \in DOMAIN t /\ f[k] \in Trusts(s)
  BY <1>1 DEF Hooks, Trusts
<1>3. Once(s) => Once(t)
  BY <1>1, <1>2 DEF Once
<1>4. Valid(s) => Valid(t)
  BY <1>1, <1>2 DEF Valid
<1>5. Hashed(s) => Hashed(t)
  BY <1>1, <1>2 DEF Hashed
<1> QED
  BY <1>3, <1>4, <1>5

(* Where the hooks and the approvals of a joined text are.                 *)
LEMMA JoinedItems ==
    ASSUME NEW s \in Texts, NEW t \in Texts
    PROVE  /\ \A n \in Hooks(s \o t) : n \in Hooks(s) \/ \E i \in Hooks(t) : n = Len(s) + i
           /\ \A n \in Trusts(s \o t) : n \in Trusts(s) \/ \E i \in Trusts(t) : n = Len(s) + i
           /\ \A n \in Groups(s \o t) : n \in Groups(s) \/ \E i \in Groups(t) : n = Len(s) + i
           /\ Groups(s) \subseteq Groups(s \o t)
           /\ Hooks(s) \subseteq Hooks(s \o t) /\ Trusts(s) \subseteq Trusts(s \o t)
           /\ \A i \in Hooks(t) : Len(s) + i \in Hooks(s \o t)
           /\ \A i \in Trusts(t) : Len(s) + i \in Trusts(s \o t)
<1> DEFINE u == s \o t
<1>1. /\ \A i \in DOMAIN s : i \in DOMAIN u /\ u[i] = s[i]
      /\ \A i \in DOMAIN t : Len(s) + i \in DOMAIN u /\ u[Len(s) + i] = t[i]
      /\ \A n \in DOMAIN u : n \in DOMAIN s \/ \E i \in DOMAIN t : n = Len(s) + i
  BY Joined
<1> HIDE DEF u
<1>2. \A n \in Hooks(u) : n \in Hooks(s) \/ \E i \in Hooks(t) : n = Len(s) + i
  BY <1>1 DEF Hooks
<1>3. \A n \in Trusts(u) : n \in Trusts(s) \/ \E i \in Trusts(t) : n = Len(s) + i
  BY <1>1 DEF Trusts
<1>4. Hooks(s) \subseteq Hooks(u) /\ \A i \in Hooks(t) : Len(s) + i \in Hooks(u)
  BY <1>1 DEF Hooks
<1>5. Trusts(s) \subseteq Trusts(u) /\ \A i \in Trusts(t) : Len(s) + i \in Trusts(u)
  BY <1>1 DEF Trusts
<1>6. /\ \A n \in Groups(u) : n \in Groups(s) \/ \E i \in Groups(t) : n = Len(s) + i
      /\ Groups(s) \subseteq Groups(u)
  BY <1>1 DEF Groups
<1> QED
  BY <1>2, <1>3, <1>4, <1>5, <1>6 DEF u

(* Two hooks are one nd7's of one kind for one event, or both the user's.  *)
Alike(x, y) == x.event = y.event /\ x.command.kind = y.command.kind
SameTable(x, y) == x.event = y.event /\ x.at = y.at

LEMMA JoinedOnce ==
    ASSUME NEW s \in Texts, NEW t \in Texts, Once(s), Once(t),
           \A i \in Hooks(s), j \in Hooks(t) : Alike(s[i], t[j]) => s[i].command = Own /\ t[j].command = Own
    PROVE  Once(s \o t)
<1> DEFINE u == s \o t
<1>1. \A i \in Hooks(s) : u[i] = s[i]
  BY Joined DEF Hooks
<1>2. \A i \in Hooks(t) : u[Len(s) + i] = t[i]
  BY Joined DEF Hooks
<1> HIDE DEF u
<1> SUFFICES ASSUME NEW n \in Hooks(u), NEW m \in Hooks(u), Alike(u[n], u[m])
             PROVE  n = m \/ u[n].command = Own
  BY DEF Once, Alike, u
<1>3. /\ n \in Hooks(s) \/ \E i \in Hooks(t) : n = Len(s) + i
      /\ m \in Hooks(s) \/ \E i \in Hooks(t) : m = Len(s) + i
  BY JoinedItems DEF u
<1>4. CASE n \in Hooks(s) /\ m \in Hooks(s)
  BY <1>1, <1>4 DEF Once, Alike
<1>5. ASSUME n \in Hooks(s), NEW j \in Hooks(t), m = Len(s) + j PROVE u[n].command = Own
  BY <1>1, <1>2, <1>5
<1>6. ASSUME NEW i \in Hooks(t), n = Len(s) + i, m \in Hooks(s) PROVE u[n].command = Own
  BY <1>1, <1>2, <1>6 DEF Alike
<1>7. ASSUME NEW i \in Hooks(t), n = Len(s) + i, NEW j \in Hooks(t), m = Len(s) + j
      PROVE  n = m \/ u[n].command = Own
  BY <1>2, <1>7 DEF Once, Alike
<1> QED
  BY <1>3, <1>4, <1>5, <1>6, <1>7

LEMMA JoinedValid ==
    ASSUME NEW s \in Texts, NEW t \in Texts, Valid(s), Valid(t),
           \A i \in Trusts(s), j \in Trusts(t) : ~ SameTable(s[i], t[j])
    PROVE  Valid(s \o t)
<1> DEFINE u == s \o t
<1>1. \A i \in Trusts(s) : u[i] = s[i]
  BY Joined DEF Trusts
<1>2. \A i \in Trusts(t) : u[Len(s) + i] = t[i]
  BY Joined DEF Trusts
<1> HIDE DEF u
<1> SUFFICES ASSUME NEW n \in Trusts(u), NEW m \in Trusts(u), SameTable(u[n], u[m])
             PROVE  n = m
  BY DEF Valid, SameTable, u
<1>3. /\ n \in Trusts(s) \/ \E i \in Trusts(t) : n = Len(s) + i
      /\ m \in Trusts(s) \/ \E i \in Trusts(t) : m = Len(s) + i
  BY JoinedItems DEF u
<1>4. CASE n \in Trusts(s) /\ m \in Trusts(s)
  BY <1>1, <1>4 DEF Valid, SameTable
<1>5. ASSUME n \in Trusts(s), NEW j \in Trusts(t), m = Len(s) + j PROVE FALSE
  BY <1>1, <1>2, <1>5
<1>6. ASSUME NEW i \in Trusts(t), n = Len(s) + i, m \in Trusts(s) PROVE FALSE
  BY <1>1, <1>2, <1>6 DEF SameTable
<1>7. ASSUME NEW i \in Trusts(t), n = Len(s) + i, NEW j \in Trusts(t), m = Len(s) + j
      PROVE  n = m
  BY <1>2, <1>7 DEF Valid, SameTable
<1> QED
  BY <1>3, <1>4, <1>5, <1>6, <1>7

LEMMA JoinedHashed ==
    ASSUME NEW s \in Texts, NEW t \in Texts, Hashed(s), Hashed(t)
    PROVE  Hashed(s \o t)
<1> DEFINE u == s \o t
<1>1. \A i \in Trusts(s) : u[i] = s[i]
  BY Joined DEF Trusts
<1>2. \A i \in Trusts(t) : u[Len(s) + i] = t[i]
  BY Joined DEF Trusts
<1>3. \A n \in Trusts(u) : n \in Trusts(s) \/ \E i \in Trusts(t) : n = Len(s) + i
  BY JoinedItems
<1> HIDE DEF u
<1>4. Hashed(u)
  BY <1>1, <1>2, <1>3 DEF Hashed
<1> QED
  BY <1>4 DEF u

-----------------------------------------------------------------------------
(* The place of a hook: how many groups of its event stand in front of it. *)

Before(text, i) == {j \in Groups(text) : j < i /\ text[j].event = text[i].event}

LEMMA PlaceType ==
    ASSUME NEW s \in Texts, NEW i
    PROVE  IsFiniteSet(Before(s, i)) /\ Place(s, i) \in Nat /\ Place(s, i) = Cardinality(Before(s, i))
<1>1. Len(s) \in Nat /\ Before(s, i) \in SUBSET (1 .. Len(s))
  BY TextDomain DEF Before, Groups
<1>2. IsFiniteSet(Before(s, i)) /\ Cardinality(Before(s, i)) \in Nat
  BY <1>1, RankType
<1> QED
  BY <1>2 DEF Place, Before

(* No two hooks of an event have the same.                                 *)
LEMMA PlaceApart ==
    ASSUME NEW s \in Texts, NEW i \in Hooks(s), NEW j \in Hooks(s), Key(s, i) = Key(s, j)
    PROVE  i = j
<1>1. s[i].event = s[j].event /\ Place(s, i) = Place(s, j)
  BY DEF Key
<1>0. Hooks(s) \subseteq Groups(s)
  BY DEF Hooks, Groups
<1>2. ASSUME NEW m \in Groups(s), NEW n \in Groups(s), m < n, s[m].event = s[n].event
      PROVE  Place(s, m) # Place(s, n)
  <2>1. m \in Int /\ n \in Int /\ \A k \in Groups(s) : k \in Int
    BY TextDomain DEF Groups
  <2>2. Before(s, m) \subseteq Before(s, n)
    <3>1. \A k \in Groups(s) : k < m => k < n
      BY <1>2, <2>1
    <3> QED
      BY <1>2, <3>1 DEF Before
  <2>3. m \in Before(s, n) /\ m \notin Before(s, m)
    BY <1>2, <2>1 DEF Before
  <2>4. Cardinality(Before(s, m)) # Cardinality(Before(s, n))
    BY <2>2, <2>3, PlaceType, FS_Subset
  <2> QED
    BY <2>4, PlaceType
<1>3. i \in Int /\ j \in Int
  BY TextDomain DEF Hooks
<1>4. ~ i < j /\ ~ j < i
  BY <1>0, <1>1, <1>2
<1> QED
  BY <1>3, <1>4

(* What is added behind does not move a hook.                              *)
LEMMA PlaceStays ==
    ASSUME NEW s \in Texts, NEW t \in Texts, NEW i \in DOMAIN s
    PROVE  Place(s \o t, i) = Place(s, i) /\ Key(s \o t, i) = Key(s, i)
<1> DEFINE u == s \o t
<1>1. /\ Len(s) \in Nat /\ u[i] = s[i] /\ i \in Int /\ i <= Len(s)
      /\ \A j \in Groups(s) : j \in Groups(u) /\ u[j] = s[j] /\ j \in Int
  BY Joined, JoinedItems DEF Groups
<1>2. \A j \in Groups(u) : j < i => j \in Groups(s)
  <2> SUFFICES ASSUME NEW j \in Groups(u), j < i, j \notin Groups(s) PROVE FALSE
    OBVIOUS
  <2>1. PICK k \in Groups(t) : j = Len(s) + k
    BY JoinedItems
  <2>2. k \in Int /\ k >= 1
    BY Joined DEF Groups
  <2> QED
    BY <1>1, <2>1, <2>2
<1> HIDE DEF u
<1>3. Before(u, i) = Before(s, i)
  BY <1>1, <1>2 DEF Before
<1>4. Place(u, i) = Place(s, i)
  BY <1>3 DEF Place, Before
<1> QED
  BY <1>1, <1>4 DEF u, Key

(* Nor does what is taken out, as long as no group is.                     *)
LEMMA PlaceEmbeds ==
    ASSUME NEW s \in Texts, NEW t, NEW f, Embeds(f, t, s), NEW k \in DOMAIN t,
           \A i \in Groups(s) : \E m \in DOMAIN t : f[m] = i
    PROVE  Place(t, k) = Place(s, f[k]) /\ Key(t, k) = Key(s, f[k])
<1> DEFINE g == [m \in Before(t, k) |-> f[m]]
<1>1. t \in Texts /\ f \in [DOMAIN t -> DOMAIN s] /\ f[k] \in DOMAIN s /\ t[k] = s[f[k]]
  BY DEF Embeds
<1>2. \A m \in DOMAIN t : m \in Int /\ f[m] \in Int
  BY <1>1, TextDomain
<1>3. \A m \in DOMAIN t : m < k <=> f[m] < f[k]
  <2> SUFFICES ASSUME NEW m \in DOMAIN t PROVE m < k <=> f[m] < f[k]
    OBVIOUS
  <2>1. m < k => f[m] < f[k]
    BY DEF Embeds
  <2>2. k < m => f[k] < f[m]
    BY DEF Embeds
  <2>3. m \in Int /\ k \in Int /\ f[m] \in Int /\ f[k] \in Int
    BY <1>2
  <2>4. m < k \/ m = k \/ k < m
    BY <2>3
  <2>5. ~ f[k] < f[k] /\ (f[k] < f[m] => ~ f[m] < f[k])
    BY <2>3
  <2> QED
    BY <2>1, <2>2, <2>4, <2>5
<1>4. \A m \in DOMAIN t : m \in Before(t, k) <=> f[m] \in Before(s, f[k])
  BY <1>1, <1>3 DEF Before, Groups, Embeds
<1>5. Before(t, k) \subseteq DOMAIN t /\ Before(s, f[k]) \subseteq Groups(s)
  BY DEF Before, Groups
<1>6. g \in [Before(t, k) -> Before(s, f[k])]
  BY <1>4, <1>5
<1>7. \A m, n \in Before(t, k) : g[m] = g[n] => m = n
  BY <1>5, EmbedsApart
<1>8. \A i \in Before(s, f[k]) : \E m \in Before(t, k) : g[m] = i
  BY <1>4, <1>5
<1>9. g \in Bijection(Before(t, k), Before(s, f[k]))
  BY <1>6, <1>7, <1>8 DEF Bijection, Injection, Surjection, IsInjective
<1>10. ExistsBijection(Before(t, k), Before(s, f[k]))
  BY <1>9 DEF ExistsBijection
<1>11. Cardinality(Before(s, f[k])) = Cardinality(Before(t, k))
  BY <1>1, <1>10, PlaceType, FS_Bijection
<1>12. Place(t, k) = Place(s, f[k])
  BY <1>1, <1>11, PlaceType
<1> QED
  BY <1>1, <1>12 DEF Key

-----------------------------------------------------------------------------
(* What an install adds.                                                   *)

(* Hooks of one nd7, no two of them alike, that are all it wants.          *)
Wants(w, nd7) ==
    /\ w \in Texts
    /\ \A k \in DOMAIN w : w[k] \in Wanted(nd7)
    /\ \A hook \in Wanted(nd7) : \E k \in DOMAIN w : w[k] = hook
    /\ \A k, m \in DOMAIN w : Alike(w[k], w[m]) => k = m

LEMMA WantedItems ==
    ASSUME NEW nd7 \in Paths, NEW hook \in Wanted(nd7)
    PROVE  hook \in Items /\ hook.t = "hook" /\ hook.command.kind # "own"
<1>1. hook.command.kind \in {"prefix", "record"} /\ hook.event \in Events
  BY DEF Wanted, Prefix, Record, Hook, Command, Events
<1>2. hook \in [t : Tables, event : Events, command : Commands, at : Nat]
  BY DEF Wanted, Prefix, Record, Hook, Command, Commands, Kinds, Events, Tables
<1>3. hook.t = "hook" /\ hook.at = 0
  BY DEF Wanted, Prefix, Record, Hook
<1> QED
  BY <1>1, <1>2, <1>3 DEF Items

LEMMA WantedDoes ==
    ASSUME NEW nd7 \in Paths
    PROVE  Wants(<<Prefix(nd7)>> \o Records(nd7), nd7) /\ Wants(Records(nd7) \o <<Prefix(nd7)>>, nd7)
<1> DEFINE a == Prefix(nd7)
           b == Record("SessionStart", nd7)
           c == Record(PreToolUse, nd7)
<1>1. Wanted(nd7) = {a, b, c}
  BY DEF Wanted, Events
<1>2. a \in Items /\ b \in Items /\ c \in Items
  BY <1>1, WantedItems
<1>3. Records(nd7) = <<b, c>>
  BY DEF Records, RecordEvents
<1>5. ~ Alike(a, b) /\ ~ Alike(b, a) /\ ~ Alike(a, c) /\ ~ Alike(c, a)
      /\ ~ Alike(b, c) /\ ~ Alike(c, b)
  BY DEF Alike, Prefix, Record, Hook, Command, PreToolUse
<1> HIDE DEF a, b, c
<1>6. ASSUME NEW w \in Texts, DOMAIN w = {1, 2, 3}, {w[1], w[2], w[3]} = Wanted(nd7),
             ~ Alike(w[1], w[2]), ~ Alike(w[2], w[1]), ~ Alike(w[1], w[3]),
             ~ Alike(w[3], w[1]), ~ Alike(w[2], w[3]), ~ Alike(w[3], w[2])
      PROVE  Wants(w, nd7)
  BY <1>6 DEF Wants
<1> DEFINE d == <<a>>
           e == <<b, c>>
<1>7. d \in Texts /\ Len(d) = 1 /\ d[1] = a /\ e \in Texts /\ Len(e) = 2 /\ e[1] = b /\ e[2] = c
  BY <1>2 DEF Texts
<1> HIDE DEF d, e
<1>8. /\ d \o e \in Texts /\ Len(d \o e) = 3
      /\ (d \o e)[1] = a /\ (d \o e)[2] = b /\ (d \o e)[3] = c
  <2>1. /\ d \o e \in Texts /\ Len(d \o e) = Len(d) + Len(e)
        /\ \A i \in 1 .. Len(d) + Len(e) : (d \o e)[i] = IF i <= Len(d) THEN d[i] ELSE e[i - Len(d)]
    BY <1>7, ConcatProperties DEF Texts
  <2>2. /\ (d \o e)[1] = IF 1 <= 1 THEN d[1] ELSE e[1 - 1]
        /\ (d \o e)[2] = IF 2 <= 1 THEN d[2] ELSE e[2 - 1]
        /\ (d \o e)[3] = IF 3 <= 1 THEN d[3] ELSE e[3 - 1]
    BY <1>7, <2>1
  <2> QED
    BY <1>7, <2>1, <2>2
<1>9. /\ e \o d \in Texts /\ Len(e \o d) = 3
      /\ (e \o d)[1] = b /\ (e \o d)[2] = c /\ (e \o d)[3] = a
  BY <1>7, ConcatProperties DEF Texts
<1>10. DOMAIN (d \o e) = {1, 2, 3} /\ DOMAIN (e \o d) = {1, 2, 3}
  <2>1. DOMAIN (d \o e) = 1 .. 3 /\ DOMAIN (e \o d) = 1 .. 3
    BY <1>8, <1>9, TextDomain
  <2> QED
    BY <2>1
<1>11. Wants(d \o e, nd7)
  BY <1>1, <1>5, <1>6, <1>8, <1>10
<1>12. Wants(e \o d, nd7)
  <2>1. {b, c, a} = Wanted(nd7)
    BY <1>1
  <2> QED
    BY <1>5, <1>6, <1>9, <1>10, <2>1
<1> QED
  BY <1>3, <1>11, <1>12 DEF a, d, e

(* Whether a hook is there does not depend on the nd7 it is for.           *)
LEMMA InstalledAll ==
    ASSUME NEW s, NEW nd7 \in Paths, \A hook \in Wanted(nd7) : Installed(s, hook)
    PROVE  AllInstalled(s)
<1> SUFFICES ASSUME NEW n \in Paths, NEW h \in Wanted(n) PROVE Installed(s, h)
  BY DEF AllInstalled
<1>1. PICK g \in Wanted(nd7) : g.event = h.event /\ g.command.kind = h.command.kind
  <2>1. CASE h = Prefix(n)
    <3>1. Prefix(nd7) \in Wanted(nd7)
      BY DEF Wanted
    <3> QED
      BY <2>1, <3>1 DEF Prefix, Hook, Command
  <2>2. ASSUME NEW e \in Events, h = Record(e, n)
        PROVE  \E g \in Wanted(nd7) : g.event = h.event /\ g.command.kind = h.command.kind
    <3>1. Record(e, nd7) \in Wanted(nd7)
      BY DEF Wanted
    <3> QED
      BY <2>2, <3>1 DEF Record, Hook, Command
  <2> QED
    BY <2>1, <2>2 DEF Wanted
<1> QED
  BY <1>1 DEF Installed

(* The hooks that are missing: with them all are there, none of them is    *)
(* like one that was, and none is added when none is missing.              *)
LEMMA MissingDoes ==
    ASSUME NEW s \in Texts, NEW nd7 \in Paths, NEW w, Wants(w, nd7)
    PROVE  /\ Missing(s, w) \in Texts
           /\ \A k \in DOMAIN Missing(s, w) : Missing(s, w)[k] \in Wanted(nd7)
           /\ Once(s) => Once(s \o Missing(s, w))
           /\ AllInstalled(s \o Missing(s, w))
           /\ AllInstalled(s) => Missing(s, w) = <<>>
<1> DEFINE I == {k \in DOMAIN w : ~ Installed(s, w[k])}
           m == Missing(s, w)
           f == [k \in DOMAIN Only(w, I) |-> Nth(I, k)]
<1>1. w \in Texts /\ I \in SUBSET (DOMAIN w) /\ m = Only(w, I)
  BY DEF Missing, Wants
<1>2. /\ Embeds(f, m, w)
      /\ \A k \in DOMAIN m : f[k] \in I
      /\ \A i \in I : \E k \in DOMAIN m : f[k] = i
      /\ I = {} => m = <<>>
  <2> HIDE DEF I, m
  <2>1. /\ Embeds(f, Only(w, I), w)
        /\ \A k \in DOMAIN Only(w, I) : f[k] \in I
        /\ \A i \in I : \E k \in DOMAIN Only(w, I) : f[k] = i
        /\ I = {} => Only(w, I) = <<>>
    BY <1>1, OnlyDoes
  <2> QED
    BY <1>1, <2>1
<1> HIDE DEF m, f
<1>3. m \in Texts /\ \A k \in DOMAIN m : f[k] \in DOMAIN w /\ m[k] = w[f[k]]
  BY <1>2 DEF Embeds
<1>4. \A k \in DOMAIN m : m[k] \in Wanted(nd7) /\ ~ Installed(s, m[k])
  BY <1>2, <1>3 DEF Wants
<1>5. Once(m)
  <2>1. Once(w)
    BY DEF Wants, Once, Hooks, Alike
  <2> QED
    BY <1>1, <1>2, <2>1, EmbedsKeeps
<1>6. Once(s) => Once(s \o m)
  <2>1. \A i \in Hooks(s), j \in Hooks(m) : ~ Alike(s[i], m[j])
    BY <1>4 DEF Hooks, Alike, Installed
  <2> QED
    BY <1>3, <1>5, <2>1, JoinedOnce
<1>7. AllInstalled(s \o m)
  <2> SUFFICES ASSUME NEW hook \in Wanted(nd7) PROVE Installed(s \o m, hook)
    BY InstalledAll
  <2>1. PICK k \in DOMAIN w : w[k] = hook
    BY DEF Wants
  <2>2. CASE k \in I
    <3>1. PICK j \in DOMAIN m : m[j] = hook
      BY <1>2, <1>3, <2>1, <2>2
    <3>2. j \in Hooks(m)
      BY <3>1, WantedItems DEF Hooks
    <3>3. Len(s) + j \in Hooks(s \o m) /\ (s \o m)[Len(s) + j] = hook
      BY <1>3, <3>1, <3>2, Joined, JoinedItems
    <3> QED
      BY <3>3 DEF Installed
  <2>3. CASE k \notin I
    <3>1. PICK i \in Hooks(s) : s[i].event = hook.event /\ s[i].command.kind = hook.command.kind
      BY <2>1, <2>3 DEF Installed
    <3>2. i \in Hooks(s \o m) /\ (s \o m)[i] = s[i]
      BY <1>3, Joined, JoinedItems DEF Hooks
    <3> QED
      BY <3>1, <3>2 DEF Installed
  <2> QED
    BY <2>2, <2>3
<1>8. AllInstalled(s) => m = <<>>
  BY <1>2 DEF AllInstalled, Wants
<1> QED
  BY <1>3, <1>4, <1>6, <1>7, <1>8 DEF m

(* Hooks only, or approvals only.                                          *)
AllHooks(t) == t \in Texts /\ \A k \in DOMAIN t : t[k].t = "hook"
AllTrusts(t) == t \in Texts /\ \A k \in DOMAIN t : t[k].t = "trust"

LEMMA Sorted ==
    ASSUME NEW t
    PROVE  /\ AllHooks(t) => Hooks(t) = DOMAIN t /\ Trusts(t) = {} /\ Valid(t) /\ Hashed(t)
           /\ AllTrusts(t) => Trusts(t) = DOMAIN t /\ Hooks(t) = {} /\ Once(t)
  BY DEF AllHooks, AllTrusts, Hooks, Trusts, Valid, Hashed, Once

LEMMA HooksDo ==
    ASSUME NEW s \in Texts, NEW nd7 \in Paths,
           NEW h \in {CodexHooks(s, nd7), ClaudeHooks(s, nd7)}
    PROVE  /\ AllHooks(h)
           /\ Once(s) => Once(s \o h)
           /\ AllInstalled(s \o h)
           /\ AllInstalled(s) => h = <<>>
<1>1. PICK w : Wants(w, nd7) /\ h = Missing(s, w)
  BY WantedDoes DEF CodexHooks, ClaudeHooks
<1>2. /\ h \in Texts /\ \A k \in DOMAIN h : h[k] \in Wanted(nd7)
      /\ Once(s) => Once(s \o h)
      /\ AllInstalled(s \o h)
      /\ AllInstalled(s) => h = <<>>
  BY <1>1, MissingDoes
<1>3. \A k \in DOMAIN h : h[k].t = "hook"
  BY <1>2, WantedItems
<1> QED
  BY <1>2, <1>3 DEF AllHooks

(* The approvals: one with its hash for every hook of this nd7 whose place *)
(* has none, and no two for one place.                                     *)
LEMMA TrustsDo ==
    ASSUME NEW s \in Texts, NEW h \in Texts, NEW nd7 \in Paths
    PROVE  LET all == s \o h
               e == TrustEntries(s, h, nd7)
           IN  /\ AllTrusts(e) /\ Valid(e) /\ Hashed(e)
               /\ \A k \in DOMAIN e : \E i \in Ours(all, nd7) :
                      /\ Key(all, i) \notin KeysPresent(all)
                      /\ e[k] = Trust(all[i].event, Place(all, i), all[i].command)
               /\ \A i \in Ours(all, nd7) : Key(all, i) \notin KeysPresent(all) =>
                      \E k \in DOMAIN e : e[k] = Trust(all[i].event, Place(all, i), all[i].command)
               /\ AllApproved(all, nd7) => e = <<>>
<1> DEFINE all == s \o h
           I == {i \in Ours(all, nd7) : Key(all, i) \notin KeysPresent(all)}
           c == Cardinality(I)
           N(k) == Nth(I, k)
           T(i) == Trust(all[i].event, Place(all, i), all[i].command)
           e == TrustEntries(s, h, nd7)
<1>1. all \in Texts
  BY Joined
<1>2. e = [k \in 1 .. c |-> T(N(k))]
  BY DEF TrustEntries
<1>3. /\ I \in SUBSET Hooks(all) /\ I \in SUBSET Ours(all, nd7)
      /\ \A i \in I : Key(all, i) \notin KeysPresent(all)
  BY DEF Ours
<1>4. \A i \in Ours(all, nd7) : Key(all, i) \notin KeysPresent(all) => i \in I
  OBVIOUS
<1>5. AllApproved(all, nd7) => I = {}
  BY DEF AllApproved
<1> HIDE DEF all, I, e
<1>6. Len(all) \in Nat /\ I \in SUBSET (1 .. Len(all))
  BY <1>1, <1>3, TextDomain DEF Hooks
<1>7. /\ c \in Nat
      /\ \A k \in 1 .. c : N(k) \in I
      /\ \A i \in I : \E k \in 1 .. c : N(k) = i
      /\ \A k, m \in 1 .. c : k < m => N(k) < N(m)
  BY <1>6, NthDoes
<1>8. \A k, m \in 1 .. c : N(k) = N(m) => k = m
  <2> SUFFICES ASSUME NEW k \in 1 .. c, NEW m \in 1 .. c, k # m PROVE N(k) # N(m)
    OBVIOUS
  <2>1. k < m \/ m < k
    BY <1>7
  <2>2. N(k) < N(m) \/ N(m) < N(k)
    BY <1>7, <2>1
  <2>3. N(k) \in Int /\ N(m) \in Int
    <3>1. \A i \in I : i \in Int
      BY <1>6
    <3>2. N(k) \in I /\ N(m) \in I
      BY <1>7
    <3> HIDE DEF N
    <3> QED
      BY <3>1, <3>2
  <2> HIDE DEF N
  <2> QED
    BY <2>2, <2>3
<1> HIDE DEF c, N
<1>9. ASSUME NEW i \in I
      PROVE  T(i) \in Items /\ T(i).t = "trust" /\ T(i).command # NoHash
             /\ <<T(i).event, T(i).at>> = Key(all, i)
  <2>1. all[i] \in Items /\ all[i].t = "hook"
    BY <1>1, <1>3, TextDomain DEF Hooks
  <2>2. Place(all, i) \in Nat
    BY <1>1, PlaceType
  <2>3. all[i].event \in Events /\ all[i].command \in Commands /\ all[i].command.kind \notin {"none", "cut"}
    BY <2>1 DEF Items
  <2>4. T(i) \in [t : Tables, event : Events, command : Commands, at : Nat]
    BY <2>2, <2>3 DEF Trust, Tables
  <2>5. T(i).t = "trust" /\ T(i).command = all[i].command /\ T(i).event = all[i].event
        /\ T(i).at = Place(all, i)
    BY DEF Trust
  <2>6. all[i].command # NoHash
    BY <2>3 DEF NoHash, Command
  <2> HIDE DEF T
  <2>7. T(i) \in Items
    BY <2>4, <2>5 DEF Items
  <2> QED
    BY <2>5, <2>6, <2>7 DEF Key
<1>10. DOMAIN e = 1 .. c /\ \A k \in 1 .. c : e[k] = T(N(k))
  BY <1>2
<1>11. e \in Texts
  <2>1. \A k \in 1 .. c : T(N(k)) \in Items
    BY <1>7, <1>9
  <2> HIDE DEF T
  <2> QED
    BY <1>2, <1>7, <2>1 DEF Texts
<1>12. AllTrusts(e)
  <2> HIDE DEF T
  <2> QED
    BY <1>7, <1>9, <1>10, <1>11 DEF AllTrusts
<1>13. Trusts(e) = DOMAIN e
  BY <1>12, Sorted
<1>14. Hashed(e)
  <2> HIDE DEF T
  <2> QED
    BY <1>7, <1>9, <1>10, <1>13 DEF Hashed
<1>15. Valid(e)
  <2> SUFFICES ASSUME NEW k \in 1 .. c, NEW m \in 1 .. c,
                      e[k].event = e[m].event, e[k].at = e[m].at
               PROVE  k = m
    BY <1>10, <1>13 DEF Valid
  <2>1. Key(all, N(k)) = Key(all, N(m))
    <3> HIDE DEF T
    <3>1. Key(all, N(k)) = <<e[k].event, e[k].at>> /\ Key(all, N(m)) = <<e[m].event, e[m].at>>
      BY <1>7, <1>9, <1>10
    <3> QED
      BY <3>1
  <2>2. N(k) = N(m)
    BY <1>1, <1>3, <1>7, <2>1, PlaceApart
  <2> QED
    BY <1>8, <2>2
<1>16. \A k \in DOMAIN e : \E i \in Ours(all, nd7) : Key(all, i) \notin KeysPresent(all) /\ e[k] = T(i)
  <2> HIDE DEF T
  <2> QED
    BY <1>3, <1>7, <1>10
<1>17. \A i \in Ours(all, nd7) : Key(all, i) \notin KeysPresent(all) => \E k \in DOMAIN e : e[k] = T(i)
  <2> HIDE DEF T
  <2> QED
    BY <1>4, <1>7, <1>10
<1>18. AllApproved(all, nd7) => e = <<>>
  <2>1. I = {} => c = 0
    BY FS_EmptySet DEF c
  <2>2. c = 0 => e = <<>>
    BY <1>2
  <2> QED
    BY <1>5, <2>1, <2>2
<1> QED
  BY <1>12, <1>14, <1>15, <1>16, <1>17, <1>18 DEF all, e

(* What was approved stays so when more is added behind.                   *)
LEMMA KeysStay ==
    ASSUME NEW s \in Texts, NEW t \in Texts
    PROVE  /\ KeysPresent(s) \subseteq KeysPresent(s \o t)
           /\ AllHooks(t) => Trusts(s \o t) = Trusts(s)
           /\ AllTrusts(t) => /\ Hooks(s \o t) = Hooks(s)
                              /\ \A n : Ours(s \o t, n) = Ours(s, n)
                              /\ \A n : AllApproved(s, n) => AllApproved(s \o t, n)
<1> DEFINE u == s \o t
<1>1. /\ \A i \in DOMAIN s : i \in DOMAIN u /\ u[i] = s[i] /\ Key(u, i) = Key(s, i)
      /\ Hooks(s) \subseteq Hooks(u) /\ Trusts(s) \subseteq Trusts(u)
  BY Joined, JoinedItems, PlaceStays
<1>2. /\ Hooks(t) = {} => Hooks(u) \subseteq Hooks(s)
      /\ Trusts(t) = {} => Trusts(u) \subseteq Trusts(s)
  BY JoinedItems
<1> HIDE DEF u
<1>3. Hooks(s) \subseteq DOMAIN s /\ Trusts(s) \subseteq DOMAIN s
  BY DEF Hooks, Trusts
<1>4. KeysPresent(s) \subseteq KeysPresent(u)
  BY <1>1, <1>3 DEF KeysPresent
<1>5. AllHooks(t) => Trusts(u) = Trusts(s)
  BY <1>1, <1>2, Sorted
<1>6. AllTrusts(t) => Hooks(u) = Hooks(s)
  BY <1>1, <1>2, Sorted
<1>7. AllTrusts(t) => \A n : Ours(u, n) = Ours(s, n)
  BY <1>1, <1>3, <1>6 DEF Ours
<1>8. AllTrusts(t) => \A n : AllApproved(s, n) => AllApproved(u, n)
  <2> SUFFICES ASSUME AllTrusts(t), NEW n, AllApproved(s, n), NEW i \in Ours(u, n)
               PROVE  Key(u, i) \in KeysPresent(u)
    BY DEF AllApproved
  <2>1. i \in Ours(s, n) /\ i \in DOMAIN s
    BY <1>3, <1>7 DEF Ours
  <2> QED
    BY <1>1, <1>4, <2>1 DEF AllApproved
<1> QED
  BY <1>4, <1>5, <1>6, <1>7, <1>8 DEF u

(* An addition each of whose approvals is that of a hook in front of it.   *)
Backs(u, n, i) == u[n].event = u[i].event /\ u[n].at = Place(u, i) /\ u[n].command = u[i].command
Supported(s, a) ==
    \A n \in Trusts(s \o a) :
        n > Len(s) /\ (s \o a)[n].command \notin Partial =>
            \E i \in Hooks(s \o a) : i < n /\ Backs(s \o a, n, i)

LEMMA PlacedJoin ==
    ASSUME NEW s \in Texts, NEW a \in Texts, Placed(s), Supported(s, a)
    PROVE  Placed(s \o a)
<1> DEFINE u == s \o a
<1>1. \A i \in DOMAIN s : i \in DOMAIN u /\ u[i] = s[i] /\ Place(u, i) = Place(s, i) /\ Key(u, i) = Key(s, i)
  BY Joined, PlaceStays
<1>2. Hooks(s) \subseteq Hooks(u) /\ Trusts(s) \subseteq Trusts(u)
  BY JoinedItems
<1>3. ASSUME NEW n \in Trusts(u) PROVE n \in Trusts(s) \/ n > Len(s)
  <2>1. n \in Trusts(s) \/ \E i \in Trusts(a) : n = Len(s) + i
    BY JoinedItems
  <2>2. Len(s) \in Nat /\ \A i \in Trusts(a) : i \in Int /\ i >= 1
    BY Joined DEF Trusts
  <2> QED
    BY <2>1, <2>2
<1>4. \A n \in Trusts(u) :
        n > Len(s) /\ u[n].command \notin Partial => \E i \in Hooks(u) : i < n /\ Backs(u, n, i)
  BY DEF Supported
<1>5. u \in Texts
  BY Joined
<1> HIDE DEF u
<1> SUFFICES ASSUME NEW n \in Trusts(u), u[n].command \notin Partial
             PROVE  \E i \in Hooks(u) : Covers(u, i, n)
  BY DEF Placed, u
<1>6. CASE n \in Trusts(s)
  <2>0. n \in DOMAIN s /\ u[n] = s[n]
    BY <1>1, <1>6 DEF Trusts
  <2>1. PICK i \in Hooks(s) : Key(s, i) = <<s[n].event, s[n].at>> /\ Approved(s, i)
    BY <1>6, <2>0 DEF Placed, Covers
  <2>2. PICK j \in Trusts(s) : s[j] = Trust(s[i].event, Place(s, i), s[i].command)
    BY <2>1 DEF Approved
  <2>3. i \in DOMAIN s /\ j \in DOMAIN s
    BY DEF Hooks, Trusts
  <2>4. Approved(u, i)
    BY <1>1, <1>2, <2>2, <2>3 DEF Approved
  <2> QED
    BY <1>1, <1>2, <2>0, <2>1, <2>3, <2>4 DEF Covers
<1>7. CASE n > Len(s)
  <2>1. PICK i \in Hooks(u) : Backs(u, n, i)
    BY <1>4, <1>7
  <2>2. u[n] = Trust(u[i].event, Place(u, i), u[i].command)
    <3>1. u[n] \in [t : Tables, event : Events, command : Commands, at : Nat] /\ u[n].t = "trust"
      BY <1>5, TextDomain DEF Items, Trusts
    <3> QED
      BY <2>1, <3>1 DEF Trust, Backs
  <2>3. Approved(u, i)
    BY <2>2 DEF Approved
  <2> QED
    BY <2>1, <2>3 DEF Covers, Key, Backs
<1> QED
  BY <1>3, <1>6, <1>7

(* It stays one when it is cut off anywhere.                               *)
LEMMA SupportedCut ==
    ASSUME NEW s \in Texts, NEW a \in Texts, NEW b \in Texts, Supported(s, a \o b)
    PROVE  Supported(s, a)
<1> DEFINE u == s \o a
           v == s \o (a \o b)
<1>1. u \in Texts /\ v = u \o b
  BY Joined, ConcatAssociative DEF Texts
<1> HIDE DEF u, v
<1>2. \A i \in DOMAIN u : v[i] = u[i] /\ Place(v, i) = Place(u, i) /\ i \in Int
  BY <1>1, Joined, PlaceStays
<1>3. Trusts(u) \subseteq Trusts(v)
  BY <1>1, JoinedItems
<1>4. \A n \in Trusts(u), i \in Hooks(v) : i < n => i \in Hooks(u)
  <2> SUFFICES ASSUME NEW n \in Trusts(u), NEW i \in Hooks(v), i < n, i \notin Hooks(u) PROVE FALSE
    OBVIOUS
  <2>1. PICK k \in Hooks(b) : i = Len(u) + k
    BY <1>1, JoinedItems
  <2>2. k \in Int /\ k >= 1
    BY <1>1, Joined DEF Hooks
  <2>3. n \in Int /\ n <= Len(u) /\ Len(u) \in Nat
    BY <1>1, Joined DEF Trusts
  <2> QED
    BY <2>1, <2>2, <2>3
<1> SUFFICES ASSUME NEW n \in Trusts(u), n > Len(s), u[n].command \notin Partial
             PROVE  \E i \in Hooks(u) : i < n /\ Backs(u, n, i)
  BY DEF Supported, u
<1>5. n \in DOMAIN u
  BY DEF Trusts
<1>6. PICK i \in Hooks(v) : i < n /\ Backs(v, n, i)
  BY <1>2, <1>3, <1>5 DEF Supported, v
<1>7. i \in Hooks(u) /\ i \in DOMAIN u
  BY <1>4, <1>6 DEF Hooks
<1> QED
  BY <1>2, <1>5, <1>6, <1>7 DEF Backs

LEMMA AdditionDoes ==
    ASSUME NEW s \in Texts, NEW nd7 \in Paths
    PROVE  LET a == Addition(s, nd7)
           IN  /\ a \in Texts /\ Hashed(a)
               /\ Once(s) => Once(s \o a)
               /\ Hashed(s) /\ Valid(s) => Valid(s \o a)
               /\ AllInstalled(s \o a) /\ AllApproved(s \o a, nd7)
               /\ AllInstalled(s) => \A n : AllApproved(s, n) => AllApproved(s \o a, n)
               /\ AllInstalled(s) /\ AllApproved(s, nd7) => a = <<>>
               /\ Supported(s, a)
<1> DEFINE h == CodexHooks(s, nd7)
           e == TrustEntries(s, h, nd7)
           a == Addition(s, nd7)
           all == s \o h
           u == all \o e
<1>1. /\ AllHooks(h) /\ h \in Texts
      /\ Once(s) => Once(all)
      /\ AllInstalled(all)
      /\ AllInstalled(s) => h = <<>>
  BY HooksDo DEF AllHooks
<1> HIDE DEF h
<1>2. /\ AllTrusts(e) /\ e \in Texts /\ Valid(e) /\ Hashed(e)
      /\ \A k \in DOMAIN e : \E i \in Ours(all, nd7) :
             /\ Key(all, i) \notin KeysPresent(all)
             /\ e[k] = Trust(all[i].event, Place(all, i), all[i].command)
      /\ \A i \in Ours(all, nd7) : Key(all, i) \notin KeysPresent(all) =>
             \E k \in DOMAIN e : e[k] = Trust(all[i].event, Place(all, i), all[i].command)
      /\ AllApproved(all, nd7) => e = <<>>
  BY <1>1, TrustsDo, ZenonT(40) DEF AllTrusts
<1> HIDE DEF e
<1>3. a = h \o e
  BY DEF Addition, h, e
<1>4. a \in Texts /\ all \in Texts /\ u \in Texts /\ s \o a = u
  <2> HIDE DEF a
  <2>1. a \in Texts /\ all \in Texts
    BY <1>1, <1>2, <1>3, Joined
  <2>2. s \o (h \o e) = u
    <3>1. s \in Seq(Items) /\ h \in Seq(Items) /\ e \in Seq(Items)
      BY <1>1, <1>2 DEF Texts
    <3>2. (s \o h) \o e = s \o (h \o e)
      BY ONLY <3>1, ConcatAssociative
    <3> QED
      BY <3>2
  <2>3. u \in Texts
    <3> HIDE DEF all
    <3> QED
      BY <1>2, <2>1, Joined
  <2> HIDE DEF all, u
  <2> QED
    BY <1>3, <2>1, <2>2, <2>3
<1> HIDE DEF a, all, u
<1>5. /\ Hooks(h) = DOMAIN h /\ Trusts(h) = {} /\ Valid(h) /\ Hashed(h)
      /\ Trusts(e) = DOMAIN e /\ Hooks(e) = {} /\ Once(e)
  BY <1>1, <1>2, Sorted
<1>6. Trusts(all) = Trusts(s) /\ \A i \in Trusts(s) : all[i] = s[i]
  <2>1. Trusts(all) = Trusts(s)
    BY <1>1, KeysStay DEF all
  <2>2. \A i \in Trusts(s) : all[i] = s[i]
    BY <1>1, Joined DEF all, Trusts
  <2> QED
    BY <2>1, <2>2
<1>7. /\ Hooks(u) = Hooks(all)
      /\ \A n : Ours(u, n) = Ours(all, n)
      /\ \A n : AllApproved(all, n) => AllApproved(u, n)
      /\ KeysPresent(all) \subseteq KeysPresent(u)
  BY <1>2, <1>4, KeysStay DEF u
<1>8. /\ \A i \in DOMAIN all : i \in Int /\ i <= Len(all) /\ u[i] = all[i]
                               /\ Place(u, i) = Place(all, i) /\ Key(u, i) = Key(all, i)
      /\ \A k \in DOMAIN e : k \in Int /\ k >= 1 /\ u[Len(all) + k] = e[k]
      /\ Len(all) \in Nat /\ Len(s) \in Nat /\ Len(s) <= Len(all)
  <2>1. Len(s) <= Len(all) /\ Len(s) \in Nat /\ Len(all) \in Nat
    <3>1. Len(all) = Len(s) + Len(h) /\ Len(h) \in Nat /\ Len(s) \in Nat
      BY <1>1, Joined, TextDomain DEF all
    <3> QED
      BY <3>1
  <2>2. \A i \in DOMAIN all : i \in Int /\ i <= Len(all) /\ u[i] = all[i]
                               /\ Place(u, i) = Place(all, i) /\ Key(u, i) = Key(all, i)
    BY <1>2, <1>4, Joined, PlaceStays DEF u
  <2>3. ASSUME NEW k \in DOMAIN e PROVE k \in Int /\ k >= 1 /\ u[Len(all) + k] = e[k]
    <3>1. all \in Texts /\ e \in Texts
      BY <1>2, <1>4
    <3>2. k \in Int /\ k >= 1 /\ (all \o e)[Len(all) + k] = e[k]
      BY ONLY <3>1, Joined, k \in DOMAIN e
    <3> QED
      BY <3>2 DEF u
  <2> QED
    BY <2>1, <2>2, <2>3
<1>9. Once(s) => Once(u)
  BY <1>1, <1>2, <1>4, <1>5, JoinedOnce DEF u
<1>10. Hashed(a)
  BY <1>1, <1>2, <1>3, <1>5, JoinedHashed
<1>11. ASSUME Hashed(s), Valid(s) PROVE Valid(u)
  <2>1. Valid(all)
    BY <1>6, <1>11 DEF Valid
  <2>2. ASSUME NEW i \in Trusts(all), NEW k \in Trusts(e), SameTable(all[i], e[k]) PROVE FALSE
    <3>1. <<all[i].event, all[i].at>> \in KeysPresent(all)
      BY <1>6, <1>11 DEF KeysPresent, Hashed
    <3>2. PICK j \in Ours(all, nd7) : /\ Key(all, j) \notin KeysPresent(all)
                                     /\ e[k] = Trust(all[j].event, Place(all, j), all[j].command)
      BY <1>2, <1>5
    <3>3. Key(all, j) = <<e[k].event, e[k].at>>
      BY <3>2 DEF Key, Trust
    <3> QED
      BY <2>2, <3>1, <3>2, <3>3 DEF SameTable
  <2> QED
    BY <1>2, <1>4, <2>1, <2>2, JoinedValid DEF u
<1>12. AllInstalled(u)
  BY <1>1, <1>7, <1>8 DEF AllInstalled, Installed, Hooks
<1>13. AllApproved(u, nd7)
  <2> SUFFICES ASSUME NEW i \in Ours(all, nd7) PROVE Key(u, i) \in KeysPresent(u)
    BY <1>7 DEF AllApproved
  <2>1. i \in DOMAIN all
    BY DEF Ours, Hooks
  <2>2. CASE Key(all, i) \in KeysPresent(all)
    BY <1>7, <1>8, <2>1, <2>2
  <2>3. CASE Key(all, i) \notin KeysPresent(all)
    <3>1. PICK k \in DOMAIN e : e[k] = Trust(all[i].event, Place(all, i), all[i].command)
      BY <1>2, <2>3
    <3>2. Len(all) + k \in Trusts(u)
      BY <1>2, <1>4, <1>5, JoinedItems DEF u
    <3>3. u[Len(all) + k] = e[k] /\ e[k].command # NoHash
      BY <1>2, <1>5, <1>8 DEF Hashed
    <3>4. <<e[k].event, e[k].at>> = Key(all, i)
      BY <3>1 DEF Trust, Key
    <3>5. <<u[Len(all) + k].event, u[Len(all) + k].at>> \in KeysPresent(u)
      BY <3>2, <3>3 DEF KeysPresent
    <3> QED
      BY <1>8, <2>1, <3>3, <3>4, <3>5
  <2> QED
    BY <2>2, <2>3
<1>14. AllInstalled(s) => all = s
  BY <1>1, ConcatEmptySeq DEF all, Texts
<1>15. AllInstalled(s) => \A n : AllApproved(s, n) => AllApproved(u, n)
  BY <1>7, <1>14
<1>16. AllInstalled(s) /\ AllApproved(s, nd7) => a = <<>>
  BY <1>1, <1>2, <1>3, <1>14, ConcatEmptySeq DEF Texts
<1>17. ASSUME NEW n \in Trusts(u), n > Len(s) PROVE \E i \in Hooks(u) : i < n /\ Backs(u, n, i)
  <2>1. n \notin Trusts(all)
    BY <1>6, <1>8, <1>17, Joined DEF Trusts
  <2>2. PICK k \in DOMAIN e : n = Len(all) + k
    BY <1>2, <1>4, <1>5, <2>1, JoinedItems DEF u
  <2>3. PICK i \in Ours(all, nd7) : e[k] = Trust(all[i].event, Place(all, i), all[i].command)
    BY <1>2
  <2>4. i \in Hooks(all) /\ i \in DOMAIN all
    BY DEF Ours, Hooks
  <2>5. i < n
    BY <1>8, <2>2, <2>4
  <2>6. Backs(u, n, i)
    BY <1>8, <2>2, <2>3, <2>4 DEF Backs, Trust
  <2> QED
    BY <1>7, <2>4, <2>5, <2>6
<1>18. Supported(s, a)
  BY <1>4, <1>17 DEF Supported
<1> QED
  BY <1>4, <1>9, <1>10, <1>11, <1>12, <1>13, <1>15, <1>16, <1>18 DEF a

-----------------------------------------------------------------------------
(* Types.                                                                  *)

LEMMA OneItem ==
    ASSUME NEW s \in Texts, NEW x \in Items
    PROVE  <<x>> \in Texts /\ Append(s, x) = s \o <<x>> /\ Append(s, x) \in Texts
  BY DEF Texts

LEMMA OwnItem ==
    ASSUME NEW e \in Events
    PROVE  Hook(e, Own) \in Items /\ Hook(e, Own).t = "hook"
  BY DEF Items, Hook, Own, Command, Commands, Kinds, Paths, Tables

(* A text with no hook and no approval with a whole hash.                  *)
Loose(c) ==
    /\ c \in Texts /\ Hooks(c) = {}
    /\ \A j \in Trusts(c) : c[j].command \in Partial

LEMMA LooseItems ==
    /\ Torn \in Items /\ Torn.t = "torn"
    /\ Loose(<<>>) /\ Loose(<<Torn>>)
    /\ \A x \in Items : x.t # "hook" /\ (x.t = "trust" => x.command \in Partial) =>
           Loose(<<x>>) /\ Loose(<<x, Torn>>)
<1>1. Torn \in Items /\ Torn.t = "torn"
  BY DEF Torn, Items, Tables, Events, Commands, Kinds, Paths, NoHash, Command
<1>2. Loose(<<>>)
  BY DEF Loose, Texts, Hooks, Trusts
<1>3. ASSUME NEW x \in Items, x.t # "hook", x.t = "trust" => x.command \in Partial
      PROVE  Loose(<<x>>) /\ Loose(<<x, Torn>>)
  <2> DEFINE t == Torn
  <2>0. t \in Items /\ t.t = "torn"
    BY <1>1
  <2> HIDE DEF t
  <2> DEFINE c == <<x>>
             d == <<x, t>>
  <2>1. c \in Texts /\ DOMAIN c = {1} /\ c[1] = x
    BY DEF Texts
  <2>2. d \in Texts /\ DOMAIN d = {1, 2} /\ d[1] = x /\ d[2] = t
    BY <2>0 DEF Texts
  <2> HIDE DEF c, d
  <2>3. Loose(c)
    BY <1>3, <2>1 DEF Loose, Hooks, Trusts
  <2>4. Loose(d)
    BY <1>3, <2>0, <2>2 DEF Loose, Hooks, Trusts
  <2> QED
    BY <2>3, <2>4 DEF c, d, t
<1>4. Loose(<<Torn>>)
  BY <1>1, <1>3
<1> QED
  BY <1>1, <1>2, <1>3, <1>4

LEMMA RemainsDo ==
    ASSUME NEW x \in Items, NEW rest \in Remains(x)
    PROVE  \E c \in Texts : Loose(c) /\ (rest = c \/ rest = <<x>> \o c)
<1>0. <<Torn>> \in Texts /\ <<>> \in Texts
  BY LooseItems DEF Loose
<1>1. CASE rest \in {<<>>, <<Torn>>}
  BY <1>0, <1>1, LooseItems
<1>2. CASE x.t = "hook" /\ rest \in {<<Group(x.event)>>, <<Group(x.event), Torn>>}
  <2> DEFINE g == Group(x.event)
  <2>1. g \in Items /\ g.t = "group"
    BY DEF Group, Items, Tables, Commands, Kinds, Paths, NoHash, Command
  <2> HIDE DEF g
  <2>2. Loose(<<g>>) /\ Loose(<<g, Torn>>)
    BY <2>1, LooseItems
  <2>3. rest = <<g>> \/ rest = <<g, Torn>>
    BY <1>2 DEF g
  <2>4. Loose(rest) /\ rest \in Texts
    BY <2>2, <2>3 DEF Loose
  <2> QED
    BY <2>4
<1>3. CASE rest = <<x, Torn>>
  <2> DEFINE t == Torn
  <2>1. <<x, t>> = <<x>> \o <<t>>
    <3> HIDE DEF t
    <3> QED
      OBVIOUS
  <2> QED
    BY <1>0, <1>3, <2>1, LooseItems
<1>4. ASSUME x.t # "hook", NEW hash \in Partial,
             rest \in {<<[x EXCEPT !.command = hash]>>, <<[x EXCEPT !.command = hash], Torn>>}
      PROVE  \E c \in Texts : Loose(c) /\ (rest = c \/ rest = <<x>> \o c)
  <2> DEFINE y == [x EXCEPT !.command = hash]
  <2>1. hash \in Commands
    BY DEF Partial, NoHash, CutHash, Command, Commands, Kinds, Paths
  <2>2. y \in Items /\ y.t = x.t /\ y.command = hash
    <3>1. x \in [t : Tables, event : Events, command : Commands, at : Nat]
      BY DEF Items
    <3> QED
      BY <1>4, <2>1, <3>1 DEF Items
  <2>3. rest = <<y>> \/ rest = <<y, Torn>>
    BY <1>4
  <2> HIDE DEF y
  <2>4. Loose(<<y>>) /\ Loose(<<y, Torn>>)
    BY <1>4, <2>2, LooseItems
  <2>5. Loose(rest) /\ rest \in Texts
    BY <2>3, <2>4 DEF Loose
  <2> QED
    BY <2>5
<1>5. NoHash \in Partial /\ CutHash \in Partial
  BY DEF Partial
<1>6. \/ rest \in {<<>>, <<Torn>>}
      \/ x.t = "hook" /\ rest \in {<<Group(x.event)>>, <<Group(x.event), Torn>>}
      \/ rest = <<x, Torn>>
      \/ x.t # "hook" /\ rest \in {<<[x EXCEPT !.command = NoHash]>>, <<[x EXCEPT !.command = NoHash], Torn>>}
      \/ x.t # "hook" /\ rest \in {<<[x EXCEPT !.command = CutHash]>>, <<[x EXCEPT !.command = CutHash], Torn>>}
  BY Zenon DEF Remains
<1> QED
  BY <1>1, <1>2, <1>3, <1>4, <1>5, <1>6

LEMMA Split ==
    ASSUME NEW s \in Texts, NEW k \in 0 .. Len(s)
    PROVE  /\ SubSeq(s, 1, k) \in Texts /\ SubSeq(s, k + 1, Len(s)) \in Texts
           /\ s = SubSeq(s, 1, k) \o SubSeq(s, k + 1, Len(s))
           /\ k # 0 => /\ s[k] \in Items /\ <<s[k]>> \in Texts
                       /\ SubSeq(s, 1, k - 1) \in Texts
                       /\ SubSeq(s, 1, k) = SubSeq(s, 1, k - 1) \o <<s[k]>>
<1>1. Len(s) \in Nat /\ s \in Seq(Items) /\ k \in Int /\ \A j \in 1 .. Len(s) : s[j] \in Items
  BY TextDomain DEF Texts
<1>2. ASSUME NEW i \in Int, NEW j \in Int, i >= 1, j <= Len(s) PROVE SubSeq(s, i, j) \in Texts
  <2>1. \A n \in i .. j : s[n] \in Items
    BY <1>1, <1>2
  <2> QED
    BY <1>1, <1>2, <2>1, SubSeqProperties DEF Texts
<1>3. SubSeq(s, 1, k) \in Texts /\ SubSeq(s, k + 1, Len(s)) \in Texts
  BY <1>1, <1>2
<1>4. s = SubSeq(s, 1, k) \o SubSeq(s, k + 1, Len(s))
  <2>1. 1 \in 1 .. Len(s) + 1 /\ k \in 1 - 1 .. Len(s) /\ Len(s) \in k .. Len(s)
    BY <1>1
  <2>2. SubSeq(s, 1, k) \o SubSeq(s, k + 1, Len(s)) = SubSeq(s, 1, Len(s))
    BY <1>1, <2>1, ConcatAdjacentSubSeq
  <2> QED
    BY <1>1, <2>2, SubSeqFull
<1>5. ASSUME k # 0
      PROVE  /\ s[k] \in Items /\ <<s[k]>> \in Texts /\ SubSeq(s, 1, k - 1) \in Texts
             /\ SubSeq(s, 1, k) = SubSeq(s, 1, k - 1) \o <<s[k]>>
  <2>1. /\ 1 \in 1 .. Len(s) + 1 /\ k - 1 \in 1 - 1 .. Len(s) /\ k \in k - 1 .. Len(s)
        /\ k \in 1 .. Len(s) /\ (k - 1) + 1 = k
    BY <1>1, <1>5
  <2>2. SubSeq(s, 1, k - 1) \o SubSeq(s, (k - 1) + 1, k) = SubSeq(s, 1, k)
    BY <1>1, <2>1, ConcatAdjacentSubSeq
  <2>3. s[k] \in Items
    BY <1>1, <2>1
  <2>4. SubSeq(s, k, k) = <<s[k]>> /\ <<s[k]>> \in Texts
    <3> DEFINE x == s[k]
    <3>1. x \in Items
      BY <2>3
    <3>2. <<x>> \in Seq(Items) /\ Len(<<x>>) = 1 /\ <<x>>[1] = x
      BY <3>1
    <3>3. /\ SubSeq(s, k, k) \in Seq(Items) /\ Len(SubSeq(s, k, k)) = IF k <= k THEN k - k + 1 ELSE 0
          /\ \A n \in 1 .. k - k + 1 : SubSeq(s, k, k)[n] = s[k + n - 1]
      <4>1. \A n \in k .. k : s[n] \in Items
        BY <1>1, <2>1
      <4> QED
        BY <1>1, <4>1, SubSeqProperties
    <3>4. Len(SubSeq(s, k, k)) = 1 /\ SubSeq(s, k, k)[1] = x
      <4>1. k <= k /\ k - k + 1 = 1 /\ k + 1 - 1 = k /\ 1 \in 1 .. 1
        BY <1>1
      <4> QED
        BY <3>3, <4>1
    <3> DEFINE t == SubSeq(s, k, k)
               u == <<x>>
    <3>5. t \in Seq(Items) /\ u \in Seq(Items) /\ Len(t) = 1 /\ Len(u) = 1 /\ t[1] = u[1]
      BY <3>2, <3>3, <3>4
    <3> HIDE DEF t, u
    <3>6. t = u
      <4>1. \A i \in 1 .. Len(t) : t[i] = u[i]
        BY <3>5
      <4> QED
        BY <3>5, <4>1, SeqEqual
    <3> QED
      BY <3>2, <3>6 DEF t, u, x, Texts
  <2>5. SubSeq(s, 1, k - 1) \in Texts
    BY <1>1, <1>2, <2>1
  <2>6. (k - 1) + 1 = k
    BY <1>1
  <2> QED
    BY <2>2, <2>3, <2>4, <2>5, <2>6, Zenon
<1> QED
  BY <1>3, <1>4, <1>5

(* Joining texts is associative; where four are joined, the provers are    *)
(* better off not to know what joining is.                                 *)
Cat(s, t) == s \o t

LEMMA CatAssociative ==
    ASSUME NEW I, NEW s \in Seq(I), NEW a \in Seq(I), NEW b \in Seq(I)
    PROVE  Cat(s, a) \in Seq(I) /\ Cat(Cat(s, a), b) = Cat(s, Cat(a, b))
<1>1. (s \o a) \o b = s \o (a \o b)
  BY ConcatAssociative
<1>2. s \o a \in Seq(I)
  BY ConcatProperties
<1> QED
  BY <1>1, <1>2, Zenon DEF Cat

LEMMA Regroup ==
    ASSUME NEW s \in Texts, NEW a \in Texts, NEW b \in Texts, NEW c \in Texts
    PROVE  Cat(Cat(s, a), Cat(b, c)) = Cat(Cat(s, Cat(a, b)), c)
<1> USE DEF Texts
<1>1. Cat(s, a) \in Seq(Items)
  BY CatAssociative
<1>2. Cat(Cat(Cat(s, a), b), c) = Cat(Cat(s, a), Cat(b, c))
  BY <1>1, CatAssociative
<1>3. Cat(Cat(s, a), b) = Cat(s, Cat(a, b))
  BY CatAssociative
<1> QED
  BY <1>2, <1>3

LEMMA EventSet == ToSet(RecordEvents) = Events
  BY DEF ToSet, RecordEvents, Events

LEMMA OffType == Off \in Memory /\ Off.stage = "off"
<1>1. <<>> \in Texts
  BY DEF Texts
<1> QED
  BY <1>1 DEF Off, Memory, Stages, Paths, NoBinary

(* What an init holds in memory after each of its steps.                   *)
LEMMA GotoType ==
    ASSUME TypeInv, NEW p \in Inits, NEW stage \in Stages, Goto(p, stage)
    PROVE  /\ init' \in [Inits -> Memory] /\ init'[p].stage = stage
           /\ init'[p].nd7 = init[p].nd7 /\ init'[p].agents = init[p].agents
           /\ \A q \in Inits : q # p => init'[q] = init[q]
<1>1. <<>> \in Texts
  BY DEF Texts
<1>2. init[p] \in Memory
  BY DEF TypeInv
<1> QED
  BY <1>1, <1>2 DEF TypeInv, Goto, Memory

LEMMA OffStep ==
    ASSUME TypeInv, NEW p \in Inits, init' = [init EXCEPT ![p] = Off]
    PROVE  /\ init' \in [Inits -> Memory] /\ init'[p].stage = "off"
           /\ \A q \in Inits : q # p => init'[q] = init[q]
  BY OffType DEF TypeInv

LEMMA ReadStep ==
    ASSUME TypeInv, NEW p \in Inits, NEW text \in Texts, NEW stage \in Stages,
           init' = [init EXCEPT ![p].text = text, ![p].stage = stage]
    PROVE  /\ init' \in [Inits -> Memory] /\ init'[p].stage = stage /\ init'[p].text = text
           /\ init'[p].nd7 = init[p].nd7 /\ init'[p].agents = init[p].agents
           /\ \A q \in Inits : q # p => init'[q] = init[q]
<1>1. init[p] \in Memory
  BY DEF TypeInv
<1> QED
  BY <1>1 DEF TypeInv, Memory

LEMMA StageStep ==
    ASSUME TypeInv, NEW p \in Inits, NEW stage \in Stages,
           init' = [init EXCEPT ![p].stage = stage]
    PROVE  /\ init' \in [Inits -> Memory] /\ init'[p].stage = stage
           /\ init'[p].text = init[p].text
           /\ init'[p].nd7 = init[p].nd7 /\ init'[p].agents = init[p].agents
           /\ \A q \in Inits : q # p => init'[q] = init[q]
<1>1. init[p] \in Memory
  BY DEF TypeInv
<1> QED
  BY <1>1 DEF TypeInv, Memory

LEMMA RcStep ==
    ASSUME TypeInv, NEW p \in Inits, ReadRc(p)
    PROVE  /\ init' \in [Inits -> Memory]
           /\ init'[p].stage = "append rc" /\ init'[p].sourced = (rc > 0)
           /\ init'[p].nd7 = init[p].nd7 /\ init'[p].agents = init[p].agents
           /\ \A q \in Inits : q # p => init'[q] = init[q]
<1>1. init[p] \in Memory /\ (rc > 0) \in BOOLEAN
  BY DEF TypeInv
<1> QED
  BY <1>1 DEF TypeInv, Memory, ReadRc, Stages

LEMMA StartStep ==
    ASSUME TypeInv, NEW p \in Inits, StartInit(p)
    PROVE  /\ init' \in [Inits -> Memory]
           /\ init'[p].nd7 \in Binaries /\ init'[p].stage \in {"read settings", "read config"}
           /\ "claude" \in init'[p].agents => init'[p].stage = "read settings"
           /\ \A q \in Inits : q # p => init'[q] = init[q]
<1>1. PICK nd7 \in Binaries, agents \in SUBSET Agents \ {{}} :
          init' = [init EXCEPT ![p] =
               [Off EXCEPT !.nd7 = nd7, !.agents = agents,
                           !.stage = IF "claude" \in agents THEN "read settings"
                                     ELSE "read config"]]
  BY DEF StartInit
<1> DEFINE m == [Off EXCEPT !.nd7 = nd7, !.agents = agents,
                            !.stage = IF "claude" \in agents THEN "read settings"
                                      ELSE "read config"]
<1>2. /\ m \in Memory /\ m.nd7 = nd7 /\ m.agents = agents
      /\ m.stage = IF "claude" \in agents THEN "read settings" ELSE "read config"
  BY OffType, ZenonT(40) DEF Memory, Stages, Paths
<1> HIDE DEF m
<1>3. init' = [init EXCEPT ![p] = m]
  BY <1>1 DEF m
<1>4. init' \in [Inits -> Memory] /\ init'[p] = m /\ \A q \in Inits : q # p => init'[q] = init[q]
  BY <1>2, <1>3, ZenonT(40) DEF TypeInv
<1> QED
  BY <1>2, <1>4

(* What an append cut off leaves: some of what it adds, and perhaps        *)
(* something that is no hook and no approval with a whole hash.            *)
LEMMA CutDoes ==
    ASSUME TypeInv, NEW p \in Inits, AppendCutOff(p)
    PROVE  \E a, b, c \in Texts :
               /\ Addition(init[p].text, init[p].nd7) = a \o b
               /\ config' = (config \o a) \o c
               /\ Loose(c)
<1> DEFINE add == Addition(init[p].text, init[p].nd7)
<1>1. add \in Texts /\ config \in Texts
  <2>1. init[p].text \in Texts /\ init[p].nd7 \in Paths /\ config \in Texts
    BY DEF TypeInv, Memory
  <2> QED
    BY <2>1, AdditionDoes
<1>2. PICK n \in DOMAIN add : \E rest \in Remains(add[n]) :
          config' = config \o SubSeq(add, 1, n - 1) \o rest
  BY DEF AppendCutOff
<1> HIDE DEF add
<1>3. PICK rest \in Remains(add[n]) : config' = config \o SubSeq(add, 1, n - 1) \o rest
  BY <1>2
<1>4. Len(add) \in Nat /\ n \in 1 .. Len(add) /\ add[n] \in Items
  BY <1>1, TextDomain
<1>5. PICK c \in Texts : Loose(c) /\ (rest = c \/ rest = <<add[n]>> \o c)
  BY <1>4, RemainsDo
<1> DEFINE a(k) == SubSeq(add, 1, k)
           b(k) == SubSeq(add, k + 1, Len(add))
<1>6. /\ n \in 0 .. Len(add) /\ n - 1 \in 0 .. Len(add) /\ n # 0
  BY <1>4
<1>7. /\ a(n) \in Texts /\ b(n) \in Texts /\ add = a(n) \o b(n)
      /\ a(n - 1) \in Texts /\ b(n - 1) \in Texts /\ add = a(n - 1) \o b(n - 1)
      /\ <<add[n]>> \in Texts /\ a(n) = a(n - 1) \o <<add[n]>>
  <2>1. /\ a(n) \in Texts /\ b(n) \in Texts /\ add = a(n) \o b(n)
        /\ <<add[n]>> \in Texts /\ a(n) = a(n - 1) \o <<add[n]>>
    BY <1>1, <1>6, Split
  <2>2. a(n - 1) \in Texts /\ b(n - 1) \in Texts /\ add = a(n - 1) \o b(n - 1)
    BY <1>1, <1>6, Split
  <2> QED
    BY <2>1, <2>2
<1>8. config' = (config \o a(n - 1)) \o rest
  BY <1>3
<1> HIDE DEF a, b
<1>9. CASE rest = c
  BY <1>5, <1>7, <1>8, <1>9 DEF add
<1>10. CASE rest = <<add[n]>> \o c
  <2>1. (config \o a(n - 1)) \o (<<add[n]>> \o c) = (config \o a(n)) \o c
    <3> DEFINE x == <<add[n]>>
               d == a(n - 1)
    <3>1. x \in Texts /\ d \in Texts /\ a(n) = d \o x
      BY <1>7
    <3> HIDE DEF x, d
    <3>2. Cat(Cat(config, d), Cat(x, c)) = Cat(Cat(config, Cat(d, x)), c)
      BY <1>1, <3>1, Regroup
    <3>3. (config \o d) \o (x \o c) = (config \o (d \o x)) \o c
      BY <3>2, Zenon DEF Cat
    <3> QED
      BY <3>1, <3>3 DEF x, d
  <2> QED
    BY <1>5, <1>7, <1>8, <1>10, <2>1 DEF add
<1> QED
  BY <1>5, <1>9, <1>10

(* Codex's file after its user's approval: the others' in their order, and *)
(* this one with its hash.                                                 *)
Approval(i) == Trust(config[i].event, Place(config, i), config[i].command)
Approves(f, i, o) ==
    /\ Embeds(f, o, config)
    /\ Approval(i) \in Items /\ Approval(i).t = "trust" /\ Approval(i).command # NoHash
    /\ config' = o \o <<Approval(i)>> /\ config' \in Texts
    /\ \A k \in DOMAIN config :
           config[k].t # "trust" \/ ~ SameTable(config[k], Approval(i)) =>
               \E m \in DOMAIN o : f[m] = k
    /\ \A m \in Trusts(o) : ~ SameTable(o[m], Approval(i))

LEMMA ApproveDoes ==
    ASSUME TypeInv, ApproveHook
    PROVE  \E f : \E i \in Hooks(config), o \in Texts : Approves(f, i, o)
<1>0. config \in Texts
  BY ZenonT(40) DEF TypeInv
<1> DEFINE I(x) == {j \in DOMAIN config : ~ (config[j].t = "trust" /\ config[j].event = x.event
                                             /\ config[j].at = x.at)}
<1>1. PICK i \in Hooks(config) : config' = Append(Only(config, I(Approval(i))), Approval(i))
  BY DEF ApproveHook, Approval
<1> DEFINE x == Approval(i)
           J == I(x)
           o == Only(config, J)
           f == [k \in DOMAIN Only(config, J) |-> Nth(J, k)]
<1>2. x \in Items /\ x.t = "trust" /\ x.command # NoHash
  <2>1. config[i] \in Items /\ config[i].t = "hook" /\ Place(config, i) \in Nat
    BY <1>0, TextDomain, PlaceType DEF Hooks
  <2>2. config[i].event \in Events /\ config[i].command \in Commands /\ config[i].command.kind \notin {"none", "cut"}
    BY <2>1 DEF Items
  <2>3. config[i].command # NoHash
    BY <2>2 DEF NoHash, Command
  <2> QED
    BY <2>1, <2>2, <2>3 DEF Trust, Items, Approval, Tables
<1>3. J \in SUBSET DOMAIN config
  OBVIOUS
<1>4. /\ \A k \in J : ~ (config[k].t = "trust" /\ SameTable(config[k], x))
      /\ \A k \in DOMAIN config : config[k].t # "trust" \/ ~ SameTable(config[k], x) => k \in J
  BY DEF SameTable
<1>5. config' = Append(o, x)
  BY <1>1
<1> HIDE DEF x, J
<1>6. /\ Embeds(f, o, config)
      /\ \A k \in DOMAIN o : f[k] \in J
      /\ \A k \in J : \E m \in DOMAIN o : f[m] = k
  BY <1>0, <1>3, OnlyDoes
<1> HIDE DEF o, f
<1>7. o \in Texts /\ \A m \in DOMAIN o : o[m] = config[f[m]]
  BY <1>6 DEF Embeds
<1>8. config' = o \o <<x>> /\ config' \in Texts
  BY <1>2, <1>5, <1>7, OneItem
<1>9. \A m \in Trusts(o) : ~ SameTable(o[m], x)
  BY <1>4, <1>6, <1>7 DEF Trusts
<1>10. \A k \in DOMAIN config : config[k].t # "trust" \/ ~ SameTable(config[k], x) =>
           \E m \in DOMAIN o : f[m] = k
  BY <1>4, <1>6
<1>11. Approves(f, i, o)
  BY <1>2, <1>6, <1>8, <1>9, <1>10 DEF x, Approves
<1> QED
  BY <1>7, <1>11

(* The steps of write_atomic, and the one that finds it not needed.        *)
SettingsStep(p) ==
    \/ NothingMissing(p) \/ OpenTmp(p) \/ FillPart(p) \/ FillTmp(p)
    \/ RenameTmp(p) \/ RenameFails(p)

LEMMA SettingsAlone ==
    ASSUME NEW p \in Inits, SettingsStep(p)
    PROVE  /\ UNCHANGED <<config, rc, own, settled, overlap, raced, cut, moved>>
           /\ UNCHANGED <<starts, edits, failures>>
<1>1. CASE NothingMissing(p)
  BY <1>1 DEF NothingMissing, files, history
<1>2. CASE OpenTmp(p)
  BY <1>2 DEF OpenTmp, BeginWrite
<1>3. CASE FillPart(p)
  BY <1>3 DEF FillPart, history
<1>4. CASE FillTmp(p)
  BY <1>4 DEF FillTmp, history
<1>5. CASE RenameTmp(p)
  BY <1>5 DEF RenameTmp, history
<1>6. CASE RenameFails(p)
  BY <1>6 DEF RenameFails, files, history
<1> QED
  BY <1>1, <1>2, <1>3, <1>4, <1>5, <1>6 DEF SettingsStep

(* Each of them, in what the init holds in memory.                         *)
LEMMA SettingsMemory ==
    ASSUME TypeInv, NEW p \in Inits, SettingsStep(p)
    PROVE  /\ init' \in [Inits -> Memory] /\ init[p].stage \in Holding
           /\ init[p].stage # "off"
           /\ \A q \in Inits : q # p => init'[q] = init[q]
           /\ init'[p].stage # "off" =>
                  init'[p].nd7 = init[p].nd7 /\ init'[p].agents = init[p].agents
           /\ NothingMissing(p) \/ RenameTmp(p) => init'[p].stage = AfterSettings(p)
           /\ RenameFails(p) => init'[p].stage = "off"
           /\ OpenTmp(p) \/ FillPart(p) \/ FillTmp(p) =>
                  init'[p].stage \in Writing /\ init'[p].text = init[p].text
           /\ OpenTmp(p) => init'[p].stage = "fill settings"
           /\ FillTmp(p) => init'[p].stage = "rename settings"
<1> DEFINE Done == /\ init' \in [Inits -> Memory]
                   /\ \A q \in Inits : q # p => init'[q] = init[q]
           Same == init'[p].nd7 = init[p].nd7 /\ init'[p].agents = init[p].agents
<1>0. init \in [Inits -> Memory]
  BY DEF TypeInv
<1>1. ASSUME NothingMissing(p) \/ RenameTmp(p)
      PROVE  /\ Done /\ Same /\ init'[p].stage = AfterSettings(p)
             /\ init[p].stage \in {"write settings", "rename settings"}
  <2>1. AfterSettings(p) \in Stages /\ Goto(p, AfterSettings(p))
    BY <1>1 DEF NothingMissing, RenameTmp, AfterSettings, Stages
  <2>2. Done /\ Same /\ init'[p].stage = AfterSettings(p)
    BY <2>1, GotoType
  <2> QED
    BY <1>1, <2>2 DEF NothingMissing, RenameTmp
<1>2. ASSUME OpenTmp(p)
      PROVE  /\ Done /\ Same /\ init'[p].text = init[p].text
             /\ init'[p].stage = "fill settings" /\ init[p].stage = "write settings"
  <2>1. /\ init' = [init EXCEPT ![p].stage = "fill settings"] /\ "fill settings" \in Stages
        /\ init[p].stage = "write settings"
    BY <1>2 DEF OpenTmp, BeginWrite, Stages
  <2> QED
    BY <2>1, StageStep
<1>3. ASSUME FillPart(p)
      PROVE  Done /\ Same /\ init'[p] = init[p] /\ init[p].stage = "fill settings"
  BY <1>0, <1>3 DEF FillPart
<1>4. ASSUME FillTmp(p)
      PROVE  /\ Done /\ Same /\ init'[p].text = init[p].text
             /\ init'[p].stage = "rename settings" /\ init[p].stage = "fill settings"
  <2>1. /\ init' = [init EXCEPT ![p].stage = "rename settings"] /\ "rename settings" \in Stages
        /\ init[p].stage = "fill settings"
    BY <1>4 DEF FillTmp, Stages
  <2> QED
    BY <2>1, StageStep
<1>5. ASSUME RenameFails(p)
      PROVE  Done /\ init'[p].stage = "off" /\ init[p].stage = "rename settings"
  <2>1. init' = [init EXCEPT ![p] = Off] /\ init[p].stage = "rename settings"
    BY <1>5 DEF RenameFails, End
  <2> QED
    BY <2>1, OffStep
<1> HIDE DEF Done, Same
<1>6. /\ Done /\ init[p].stage \in Holding /\ init[p].stage # "off"
      /\ init'[p].stage # "off" => Same
  BY <1>1, <1>2, <1>3, <1>4, <1>5 DEF SettingsStep, Holding, Writing
<1>7. OpenTmp(p) \/ FillPart(p) \/ FillTmp(p) =>
          init'[p].stage \in Writing /\ init'[p].text = init[p].text
  BY <1>2, <1>3, <1>4 DEF Writing
<1> QED
  BY <1>1, <1>2, <1>4, <1>5, <1>6, <1>7 DEF Done, Same

(* And in the files: what lands is what is to be written, or a piece.      *)
LEMMA PutDoes ==
    ASSUME TypeInv, NEW p \in Inits, NEW text \in Texts, Put(p, text)
    PROVE  tmp' \in SUBSET Texts /\ settings' \in Texts
  BY DEF TypeInv, Put

LEMMA NewText ==
    ASSUME TypeInv, NEW p \in Inits
    PROVE  /\ NewSettings(p) \in Texts /\ ClaudeHooks(init[p].text, init[p].nd7) \in Texts
           /\ <<Torn>> \in Texts
<1>1. init[p].text \in Texts /\ init[p].nd7 \in Paths
  BY DEF TypeInv, Memory
<1>2. ClaudeHooks(init[p].text, init[p].nd7) \in Texts
  BY <1>1, HooksDo DEF AllHooks
<1>3. <<Torn>> \in Texts
  BY LooseItems DEF Loose
<1> QED
  BY <1>1, <1>2, <1>3, Joined DEF NewSettings

LEMMA SettingsTypes ==
    ASSUME TypeInv, NEW p \in Inits, SettingsStep(p)
    PROVE  /\ settings' \in Texts /\ tmp' \in SUBSET Texts
           /\ open' \in [Inits -> {"none", "tmp", "name", "gone"}] /\ mixed' \in SUBSET Inits
           /\ shared' \in BOOLEAN
<1>0. /\ settings \in Texts /\ tmp \in SUBSET Texts
      /\ open \in [Inits -> {"none", "tmp", "name", "gone"}] /\ mixed \in SUBSET Inits
      /\ shared \in BOOLEAN
  BY DEF TypeInv
<1>1. CASE NothingMissing(p)
  BY <1>0, <1>1 DEF NothingMissing, files, writing, history
<1>2. CASE OpenTmp(p)
  <2>1. tmp' = {<<>>} /\ open' = [open EXCEPT ![p] = "tmp"] /\ settings' = settings
    BY <1>2 DEF OpenTmp
  <2>2. /\ mixed' = IF Sharing(p) = {} THEN mixed ELSE mixed \cup Sharing(p) \cup {p}
        /\ shared' = (shared \/ Sharing(p) # {})
    BY <1>2 DEF OpenTmp, BeginWrite
  <2>3. Sharing(p) \in SUBSET Inits
    BY DEF Sharing
  <2>4. mixed' \in SUBSET Inits /\ shared' \in BOOLEAN
    BY <1>0, <2>2, <2>3
  <2>5. <<>> \in Texts
    BY DEF Texts
  <2> QED
    BY <1>0, <2>1, <2>4, <2>5
<1>3. CASE FillPart(p)
  <2>1. Put(p, <<Torn>>) /\ open' = open /\ mixed' = mixed /\ shared' = shared
    BY <1>3 DEF FillPart, history
  <2> QED
    BY <1>0, <2>1, NewText, PutDoes
<1>4. CASE FillTmp(p)
  <2>1. /\ Put(p, NewSettings(p)) \/ Put(p, <<Torn>>)
        /\ open' = open /\ mixed' = mixed /\ shared' = shared
    BY <1>4 DEF FillTmp, history
  <2> QED
    BY <1>0, <2>1, NewText, PutDoes
<1>5. CASE RenameTmp(p)
  <2>1. /\ settings' \in tmp /\ tmp' = {} /\ mixed' = mixed \ {p} /\ shared' = shared
        /\ open' = [q \in Inits |-> IF q = p THEN "none" ELSE Renamed(open[q])]
    BY <1>5 DEF RenameTmp, history
  <2>2. \A q \in Inits : Renamed(open[q]) \in {"none", "tmp", "name", "gone"}
    BY <1>0 DEF Renamed
  <2> QED
    BY <1>0, <2>1, <2>2
<1>6. CASE RenameFails(p)
  BY <1>0, <1>6 DEF RenameFails, End, files, history
<1> QED
  BY <1>1, <1>2, <1>3, <1>4, <1>5, <1>6 DEF SettingsStep

LEMMA TypeStep ==
    ASSUME TypeInv, [Next]_vars
    PROVE  TypeInv'
<1> USE AgentConfigAssumption
<1>0. <<>> \in Texts
  BY DEF Texts
<1>1. ASSUME NEW p \in Inits, StartInit(p) PROVE TypeInv'
  <2>1. /\ init' \in [Inits -> Memory]
        /\ init'[p].nd7 \in Binaries
        /\ \A q \in Inits : q # p => init'[q] = init[q]
    BY <1>1, StartStep
  <2>2. overlap' \in BOOLEAN
    BY <1>1 DEF StartInit, TypeInv
  <2>3. starts' \in Nat
    BY <1>1 DEF StartInit, TypeInv
  <2> QED
    BY <1>1, <2>1, <2>2, <2>3 DEF TypeInv, StartInit, files, writing
<1>2. ASSUME NEW p \in Inits, ReadSettings(p) PROVE TypeInv'
  <2>1. settings \in Texts /\ "write settings" \in Stages
    BY DEF TypeInv, Stages
  <2>2. CASE Readable(settings)
    <3>1. init' = [init EXCEPT ![p].text = settings, ![p].stage = "write settings"]
      BY <1>2, <2>2 DEF ReadSettings
    <3>2. /\ init' \in [Inits -> Memory] /\ init'[p].nd7 = init[p].nd7
          /\ \A q \in Inits : q # p => init'[q] = init[q]
      BY <2>1, <3>1, ReadStep
    <3> QED
      BY <1>2, <3>2 DEF TypeInv, ReadSettings, files, writing, history
  <2>3. CASE ~ Readable(settings)
    <3>1. init' = [init EXCEPT ![p] = Off]
      BY <1>2, <2>3 DEF ReadSettings
    <3>2. /\ init' \in [Inits -> Memory] /\ init'[p].stage = "off"
          /\ \A q \in Inits : q # p => init'[q] = init[q]
      BY <3>1, OffStep
    <3> QED
      BY <1>2, <3>2 DEF TypeInv, ReadSettings, files, writing, history
  <2> QED
    BY <2>2, <2>3
<1>3. ASSUME NEW p \in Inits, SettingsStep(p) PROVE TypeInv'
  <2>1. /\ init' \in [Inits -> Memory]
        /\ init'[p].stage # "off" => init'[p].nd7 = init[p].nd7
        /\ \A q \in Inits : q # p => init'[q] = init[q]
        /\ init[p].stage # "off"
    BY <1>3, SettingsMemory
  <2>2. \A q \in Inits : init'[q].stage # "off" => init'[q].nd7 \in Binaries
    BY <2>1 DEF TypeInv
  <2>3. /\ settings' \in Texts /\ tmp' \in SUBSET Texts
        /\ open' \in [Inits -> {"none", "tmp", "name", "gone"}] /\ mixed' \in SUBSET Inits
        /\ shared' \in BOOLEAN
    BY <1>3, SettingsTypes
  <2>4. /\ UNCHANGED <<config, rc, own, settled, overlap, raced, cut, moved>>
        /\ UNCHANGED <<starts, edits, failures>>
    BY <1>3, SettingsAlone
  <2> QED
    BY <2>1, <2>2, <2>3, <2>4 DEF TypeInv
<1>4. ASSUME NEW p \in Inits, ReadConfig(p) PROVE TypeInv'
  <2>1. config \in Texts /\ "append config" \in Stages
    BY DEF TypeInv, Stages
  <2> QED
    BY <1>4, <2>1, ReadStep DEF TypeInv, ReadConfig, files, writing, history
<1>5. ASSUME NEW p \in Inits, AppendConfig(p) PROVE TypeInv'
  <2>1. init[p].text \in Texts /\ init[p].nd7 \in Paths /\ config \in Texts
    BY DEF TypeInv, Memory
  <2>2. config' \in Texts
    <3>1. Addition(init[p].text, init[p].nd7) \in Texts
      BY <2>1, AdditionDoes
    <3> QED
      BY <1>5, <2>1, <3>1, Joined DEF AppendConfig
  <2>3. /\ init' \in [Inits -> Memory] /\ init'[p].nd7 = init[p].nd7
        /\ \A q \in Inits : q # p => init'[q] = init[q]
    BY <1>5, GotoType DEF AppendConfig, Stages
  <2> QED
    BY <1>5, <2>2, <2>3 DEF TypeInv, AppendConfig, writing, history
<1>6. ASSUME NEW p \in Inits, AppendCutOff(p) PROVE TypeInv'
  <2>1. PICK a, b, c \in Texts : config' = (config \o a) \o c
    BY <1>6, CutDoes
  <2>2. config' \in Texts
    <3>1. config \o a \in Texts
      BY Joined DEF TypeInv
    <3> QED
      BY <2>1, <3>1, Joined
  <2>3. init' = [init EXCEPT ![p] = Off]
    BY <1>6 DEF AppendCutOff
  <2>4. NoBinary \in Paths
    BY DEF Paths
  <2>5. /\ init' \in [Inits -> Memory] /\ init'[p].stage = "off"
        /\ \A q \in Inits : q # p => init'[q] = init[q]
    BY <2>3, OffStep
  <2>6. failures' \in Nat
    <3>1. failures' = failures + 1
      BY <1>6 DEF AppendCutOff
    <3> QED
      BY <3>1 DEF TypeInv
  <2> QED
    BY <1>6, <2>2, <2>4, <2>5, <2>6 DEF TypeInv, AppendCutOff, writing
<1>7. ASSUME NEW p \in Inits, ReadRc(p) PROVE TypeInv'
  BY <1>7, RcStep DEF TypeInv, ReadRc, files, writing, history
<1>8. ASSUME NEW p \in Inits, AppendRc(p) PROVE TypeInv'
  <2>1. init' = [init EXCEPT ![p] = Off] /\ settled' \in Paths
    BY <1>8 DEF AppendRc, TypeInv, Memory
  <2>2. rc' \in Nat
    <3>1. rc' = rc \/ rc' = rc + 1
      BY <1>8 DEF AppendRc
    <3> QED
      BY <3>1 DEF TypeInv
  <2>5. /\ init' \in [Inits -> Memory] /\ init'[p].stage = "off"
        /\ \A q \in Inits : q # p => init'[q] = init[q]
    BY <2>1, OffStep
  <2> QED
    BY <1>8, <2>1, <2>2, <2>5 DEF TypeInv, AppendRc, writing
<1>9. ASSUME NEW p \in Inits, KillInit(p) PROVE TypeInv'
  <2>1. init' = [init EXCEPT ![p] = Off]
    BY <1>9 DEF KillInit, End
  <2>2. open' \in [Inits -> {"none", "tmp", "name", "gone"}] /\ mixed' \in SUBSET Inits
    BY <1>9 DEF KillInit, End, TypeInv
  <2>5. /\ init' \in [Inits -> Memory] /\ init'[p].stage = "off"
        /\ \A q \in Inits : q # p => init'[q] = init[q]
    BY <2>1, OffStep
  <2>6. failures' \in Nat
    BY <1>9 DEF KillInit, TypeInv
  <2> QED
    BY <1>9, <2>2, <2>5, <2>6 DEF TypeInv, KillInit, files, history
<1>10. ASSUME Edit, settings' \in Texts, config' \in Texts, own' \subseteq Events, moved' \in BOOLEAN
       PROVE  TypeInv'
  BY <1>10 DEF TypeInv, Edit, writing, Paths
<1>11. ASSUME EditSettings PROVE TypeInv'
  <2>1. settings' \in Texts /\ own' \subseteq Events
    <3>1. ASSUME NEW e \in Events, settings' = Append(settings, Hook(e, Own)), own' = own \cup {e}
          PROVE  settings' \in Texts /\ own' \subseteq Events
      BY <3>1, OneItem, OwnItem DEF TypeInv
    <3>2. ASSUME NEW i \in DOMAIN settings, settings' = RemoveAt(settings, i),
                 own' = IF settings[i].command = Own THEN own \ {settings[i].event} ELSE own
          PROVE  settings' \in Texts /\ own' \subseteq Events
      <4>1. settings' \in Texts
        BY <3>2, RemoveDoes DEF TypeInv, Embeds
      <4> QED
        BY <3>2, <4>1 DEF TypeInv
    <3> QED
      BY <1>11, <3>1, <3>2, EventSet DEF EditSettings
  <2>2. Edit /\ config' = config /\ moved' = moved
    BY <1>11 DEF EditSettings
  <2> QED
    BY <1>10, <2>1, <2>2 DEF TypeInv
<1>12. ASSUME EditConfig PROVE TypeInv'
  <2>1. config' \in Texts
    <3>1. ASSUME NEW e \in Events,
                 config' = <<Hook(e, Own)>> \o config \/ config' = Append(config, Hook(e, Own))
          PROVE  config' \in Texts
      <4>1. config \in Texts /\ Hook(e, Own) \in Items
        BY OwnItem DEF TypeInv
      <4>2. <<Hook(e, Own)>> \in Texts /\ Append(config, Hook(e, Own)) \in Texts
        BY <4>1, OneItem
      <4>3. <<Hook(e, Own)>> \o config \in Texts
        BY <4>1, <4>2, Joined
      <4> QED
        BY <3>1, <4>2, <4>3
    <3>2. ASSUME NEW i \in DOMAIN config, config' = RemoveAt(config, i) PROVE config' \in Texts
      BY <3>2, RemoveDoes DEF TypeInv, Embeds
    <3> QED
      BY <1>12, <3>1, <3>2, EventSet DEF EditConfig
  <2>2. Edit /\ settings' = settings /\ own' = own /\ moved' = (moved \/ Stale(config'))
    BY <1>12 DEF EditConfig
  <2>3. moved' \in BOOLEAN
    BY <2>2 DEF TypeInv, Stale
  <2> QED
    BY <1>10, <2>1, <2>2, <2>3 DEF TypeInv
<1>13. ASSUME ApproveHook PROVE TypeInv'
  <2>1. config' \in Texts
    BY <1>13, ApproveDoes DEF Approves
  <2>2. Edit /\ settings' = settings /\ own' = own /\ moved' = moved
    BY <1>13 DEF ApproveHook
  <2> QED
    BY <1>10, <2>1, <2>2 DEF TypeInv
<1>14. CASE UNCHANGED vars
  BY <1>14 DEF TypeInv, vars, files, writing, history
<1> QED
  BY <1>1, <1>2, <1>3, <1>4, <1>5, <1>6, <1>7, <1>8, <1>9, <1>11, <1>12, <1>13, <1>14
     DEF Next, InitStep, SettingsStep

-----------------------------------------------------------------------------
(* Who is running.                                                         *)

(* A step of one init leaves the others alone.                             *)
LEMMA OneMoves ==
    ASSUME TypeInv, NEW p \in Inits, InitStep(p)
    PROVE  /\ \A q \in Inits : q # p => init'[q] = init[q]
           /\ own' = own /\ raced' = raced /\ moved' = moved
           /\ init[p].stage = "off" => StartInit(p)
           /\ ~ StartInit(p) => overlap' = overlap
           /\ StartInit(p) => overlap' = (overlap \/ Active # {})
           /\ OpenTmp(p) => shared' = (shared \/ Sharing(p) # {})
           /\ ~ OpenTmp(p) => shared' = shared
<1>1. CASE StartInit(p)
  <2>1. ~ OpenTmp(p)
    BY <1>1 DEF StartInit, OpenTmp, BeginWrite
  <2> QED
    BY <1>1, <2>1, StartStep DEF StartInit
<1>2. CASE SettingsStep(p)
  <2>1. /\ init[p].stage # "off" /\ \A q \in Inits : q # p => init'[q] = init[q]
        /\ own' = own /\ raced' = raced /\ moved' = moved /\ overlap' = overlap
    BY <1>2, SettingsMemory, SettingsAlone
  <2>2. OpenTmp(p) => shared' = (shared \/ Sharing(p) # {})
    BY DEF OpenTmp, BeginWrite
  <2>3. ~ OpenTmp(p) => shared' = shared
    BY <1>2 DEF SettingsStep, NothingMissing, FillPart, FillTmp, RenameTmp, RenameFails, history
  <2>4. ~ StartInit(p)
    BY <2>1 DEF StartInit
  <2> QED
    BY <2>1, <2>2, <2>3, <2>4
<1>3. ASSUME ~ StartInit(p), ~ SettingsStep(p)
      PROVE  /\ \A q \in Inits : q # p => init'[q] = init[q]
             /\ own' = own /\ raced' = raced /\ moved' = moved
             /\ init[p].stage # "off" /\ overlap' = overlap /\ shared' = shared
  <2>1. CASE ReadSettings(p)
    BY <2>1 DEF ReadSettings, TypeInv, history
  <2>2. CASE ReadConfig(p)
    BY <2>2 DEF ReadConfig, TypeInv, history
  <2>3. CASE AppendConfig(p)
    BY <2>3 DEF AppendConfig, TypeInv, Goto, history
  <2>4. CASE AppendCutOff(p)
    BY <2>4 DEF AppendCutOff, TypeInv
  <2>5. CASE ReadRc(p)
    BY <2>5 DEF ReadRc, TypeInv, history
  <2>6. CASE AppendRc(p)
    BY <2>6 DEF AppendRc, TypeInv
  <2>7. CASE KillInit(p)
    BY <2>7 DEF KillInit, End, TypeInv, history
  <2> QED
    BY <1>3, <2>1, <2>2, <2>3, <2>4, <2>5, <2>6, <2>7 DEF InitStep, SettingsStep
<1>4. OpenTmp(p) => SettingsStep(p)
  BY DEF SettingsStep
<1> QED
  BY <1>1, <1>2, <1>3, <1>4

(* And while no two overlap, no other one is running.                      *)
LEMMA Alone ==
    ASSUME TypeInv, AloneInv, NEW p \in Inits, InitStep(p), ~ overlap'
    PROVE  /\ ~ overlap
           /\ \A q \in Inits : q # p => init[q].stage = "off" /\ init'[q].stage = "off"
<1>1. CASE StartInit(p)
  <2>1. ~ overlap /\ Active = {}
    BY <1>1, OneMoves
  <2> QED
    BY <2>1, OneMoves DEF Active
<1>2. CASE ~ StartInit(p)
  <2>1. ~ overlap /\ p \in Active
    BY <1>2, OneMoves DEF Active
  <2>2. \A q \in Inits : q # p => init[q].stage = "off"
    BY <2>1 DEF AloneInv, Active
  <2> QED
    BY <2>1, <2>2, OneMoves
<1> QED
  BY <1>1, <1>2

(* An edit that races with no init finds none running.                     *)
Edits == EditSettings \/ EditConfig \/ ApproveHook

LEMMA EditAlone ==
    ASSUME TypeInv, Edits
    PROVE  /\ init' = init /\ rc' = rc /\ overlap' = overlap /\ cut' = cut /\ settled' = NoBinary
           /\ UNCHANGED writing /\ shared' = shared
           /\ ~ raced' => ~ raced /\ \A p \in Inits : init[p].stage = "off"
  BY DEF Edits, EditSettings, EditConfig, ApproveHook, Edit, Active

LEMMA NextCases ==
    ASSUME [Next]_vars
    PROVE  (\E p \in Inits : InitStep(p)) \/ Edits \/ UNCHANGED vars
  BY DEF Next, Edits

LEMMA AloneStep ==
    ASSUME TypeInv, AloneInv, [Next]_vars
    PROVE  AloneInv'
<1>1. ASSUME NEW p \in Inits, InitStep(p) PROVE AloneInv'
  <2> SUFFICES ASSUME ~ overlap', NEW q \in Active', NEW r \in Active' PROVE q = r
    BY DEF AloneInv
  <2>1. q \in Inits /\ init'[q].stage # "off" /\ r \in Inits /\ init'[r].stage # "off"
    BY DEF Active
  <2> QED
    BY <1>1, <2>1, Alone
<1>2. CASE Edits
  BY <1>2, EditAlone DEF AloneInv, Active
<1>3. CASE UNCHANGED vars
  BY <1>3 DEF AloneInv, Active, vars, history
<1> QED
  BY <1>1, <1>2, <1>3, NextCases

-----------------------------------------------------------------------------
(* Who has the temporary.                                                  *)

LEMMA SameNew ==
    ASSUME NEW p \in Inits, init'[p].text = init[p].text, init'[p].nd7 = init[p].nd7
    PROVE  NewSettings(p)' = NewSettings(p)
<1>1. NewSettings(p)' = init'[p].text \o ClaudeHooks(init'[p].text, init'[p].nd7)
  BY DEF NewSettings
<1> QED
  BY <1>1 DEF NewSettings

LEMMA TmpStep ==
    ASSUME TypeInv, AloneInv, TmpInv, [Next]_vars
    PROVE  TmpInv'
<1>1. ASSUME NEW p \in Inits, InitStep(p) PROVE shared' => overlap'
  <2>1. CASE shared
    BY <1>1, <2>1, OneMoves DEF TmpInv
  <2>2. CASE ~ shared /\ shared'
    <3>1. OpenTmp(p) /\ Sharing(p) # {}
      BY <1>1, <2>2, OneMoves
    <3>2. PICK q \in Inits : q # p /\ open[q] = "tmp"
      BY <3>1 DEF Sharing
    <3>3. init[q].stage \in Writing
      BY <2>2, <3>2 DEF TmpInv, OpenIs
    <3>4. p \in Active /\ q \in Active
      BY <3>1, <3>3 DEF Active, Writing, OpenTmp, BeginWrite
    <3>5. overlap
      BY <3>2, <3>4 DEF AloneInv
    <3>6. ~ StartInit(p)
      BY <3>1 DEF StartInit, OpenTmp, BeginWrite
    <3> QED
      BY <1>1, <3>5, <3>6, OneMoves
  <2> QED
    BY <2>1, <2>2
(* Nobody else is writing, or the temporary is not touched.                *)
<1>2. ASSUME NEW p \in Inits, InitStep(p), ~ shared,
             \A q \in Inits : q # p => open'[q] = open[q],
             tmp' = tmp \/ \A q \in Inits : q # p => init[q].stage \notin Writing,
             mixed' = {}, OpenIs(p)',
             open'[p] = "tmp" => \A q \in Inits : q # p => open[q] # "tmp"
      PROVE  /\ mixed' = {} /\ \A q \in Inits : OpenIs(q)'
             /\ \A q, r \in Inits : open'[q] = "tmp" /\ open'[r] = "tmp" => q = r
  <2>1. \A q \in Inits : OpenIs(q)
    BY <1>2 DEF TmpInv
  <2>2. ASSUME NEW q \in Inits, q # p PROVE OpenIs(q)'
    <3>1. init'[q] = init[q] /\ open'[q] = open[q]
      BY <1>2, <2>2, OneMoves
    <3>2. open'[q] = IF init'[q].stage \in Writing THEN "tmp" ELSE "none"
      BY <2>1, <3>1 DEF OpenIs
    <3>3. ASSUME init'[q].stage = "rename settings" PROVE tmp' = {NewSettings(q)'}
      <4>1. init[q].stage = "rename settings" /\ init[q].stage \in Writing
        BY <3>1, <3>3 DEF Writing
      <4>2. tmp' = tmp
        BY <1>2, <2>2, <4>1
      <4>3. tmp = {NewSettings(q)}
        BY <2>1, <4>1 DEF OpenIs
      <4>4. NewSettings(q)' = NewSettings(q)
        BY <3>1, SameNew
      <4> QED
        BY <4>2, <4>3, <4>4
    <3> QED
      BY <3>2, <3>3 DEF OpenIs
  <2>3. \A q, r \in Inits : open[q] = "tmp" /\ open[r] = "tmp" => q = r
    BY <1>2 DEF TmpInv
  <2>4. ASSUME NEW q \in Inits, NEW r \in Inits, open'[q] = "tmp", open'[r] = "tmp" PROVE q = r
    <3>1. CASE q = p \/ r = p
      BY <1>2, <2>4, <3>1
    <3>2. CASE q # p /\ r # p
      BY <1>2, <2>3, <2>4, <3>2
    <3> QED
      BY <3>1, <3>2
  <2> QED
    BY <1>2, <2>2, <2>4
<1>3. ASSUME NEW p \in Inits, InitStep(p), ~ shared'
      PROVE  /\ mixed' = {} /\ \A q \in Inits : OpenIs(q)'
             /\ \A q, r \in Inits : open'[q] = "tmp" /\ open'[r] = "tmp" => q = r
  <2>0. ~ shared
    BY <1>3, OneMoves
  <2>1. /\ mixed = {} /\ \A q \in Inits : OpenIs(q)
        /\ \A q, r \in Inits : open[q] = "tmp" /\ open[r] = "tmp" => q = r
        /\ open \in [Inits -> {"none", "tmp", "name", "gone"}]
    BY <2>0 DEF TmpInv, TypeInv
  <2>2. open[p] = IF init[p].stage \in Writing THEN "tmp" ELSE "none"
    BY <2>1 DEF OpenIs
  <2>3. ASSUME init[p].stage \in Writing
        PROVE  \A q \in Inits : q # p => init[q].stage \notin Writing /\ open[q] = "none"
    BY <2>1, <2>2, <2>3 DEF OpenIs
  <2>4. CASE UNCHANGED writing /\ init[p].stage \notin Writing /\ init'[p].stage \notin Writing
    <3>1. open' = open /\ tmp' = tmp /\ mixed' = {}
      BY <2>1, <2>4 DEF writing
    <3>2. OpenIs(p)'
      BY <2>2, <2>4, <3>1 DEF OpenIs, Writing
    <3> QED
      BY <1>2, <1>3, <2>0, <2>2, <2>4, <3>1, <3>2
  <2>5. CASE StartInit(p)
    <3>1. UNCHANGED writing /\ init[p].stage \notin Writing
      BY <2>5 DEF StartInit, Writing
    <3>2. init'[p].stage \notin Writing
      BY <2>5, StartStep DEF Writing
    <3> QED
      BY <2>4, <3>1, <3>2
  <2>6. CASE ReadSettings(p)
    <3>1. UNCHANGED writing /\ init[p].stage \notin Writing
      BY <2>6 DEF ReadSettings, Writing
    <3>2. init'[p].stage \in {"write settings", "off"}
      BY <2>6, OffType DEF ReadSettings, TypeInv, Memory
    <3> QED
      BY <2>4, <3>1, <3>2 DEF Writing
  <2>7. CASE NothingMissing(p)
    <3>1. UNCHANGED writing /\ init[p].stage \notin Writing
      BY <2>7 DEF NothingMissing, Writing
    <3>2. init'[p].stage = AfterSettings(p)
      BY <2>7, SettingsMemory DEF SettingsStep
    <3> QED
      BY <2>4, <3>1, <3>2 DEF Writing, AfterSettings
  <2>8. CASE OpenTmp(p)
    <3>1. Sharing(p) = {}
      BY <1>3, <2>8, OneMoves
    <3>2. /\ open' = [open EXCEPT ![p] = "tmp"]
          /\ mixed' = IF Sharing(p) = {} THEN mixed ELSE mixed \cup Sharing(p) \cup {p}
      BY <2>8 DEF OpenTmp, BeginWrite
    <3>3. mixed' = {} /\ open'[p] = "tmp" /\ \A q \in Inits : q # p => open'[q] = open[q]
      BY <2>1, <3>1, <3>2
    <3>4. \A q \in Inits : q # p => open[q] # "tmp"
      BY <3>1 DEF Sharing
    <3>5. \A q \in Inits : q # p => init[q].stage \notin Writing
      BY <2>1, <3>4 DEF OpenIs
    <3>6. init'[p].stage = "fill settings"
      BY <2>8, SettingsMemory DEF SettingsStep
    <3>7. OpenIs(p)'
      BY <3>3, <3>6 DEF OpenIs, Writing
    <3> QED
      BY <1>2, <1>3, <2>0, <3>3, <3>4, <3>5, <3>7
  <2>9. CASE FillPart(p)
    <3>1. init[p].stage = "fill settings" /\ open' = open /\ mixed' = {} /\ init' = init
      BY <2>1, <2>9 DEF FillPart
    <3>2. \A q \in Inits : q # p => init[q].stage \notin Writing /\ open[q] = "none"
      BY <2>3, <3>1 DEF Writing
    <3>3. OpenIs(p)'
      BY <2>2, <3>1 DEF OpenIs, Writing
    <3> QED
      BY <1>2, <1>3, <2>0, <3>1, <3>2, <3>3
  <2>10. CASE FillTmp(p)
    <3>1. init[p].stage = "fill settings" /\ open' = open /\ mixed' = {} /\ p \notin mixed
      BY <2>1, <2>10 DEF FillTmp
    <3>2. open[p] = "tmp" /\ \A q \in Inits : q # p => init[q].stage \notin Writing /\ open[q] = "none"
      BY <2>2, <2>3, <3>1 DEF Writing
    <3>3. tmp' = {NewSettings(p)}
      BY <2>10, <3>1, <3>2 DEF FillTmp, Put
    <3>4. /\ init'[p].stage = "rename settings" /\ init'[p].text = init[p].text
          /\ init'[p].nd7 = init[p].nd7
      BY <2>10, SettingsMemory DEF SettingsStep
    <3>5. NewSettings(p)' = NewSettings(p)
      BY <3>4, SameNew
    <3>6. OpenIs(p)'
      BY <3>1, <3>2, <3>3, <3>4, <3>5 DEF OpenIs, Writing
    <3> QED
      BY <1>2, <1>3, <2>0, <3>1, <3>2, <3>6
  <2>11. CASE RenameTmp(p)
    <3>1. /\ init[p].stage = "rename settings" /\ mixed' = {}
          /\ open' = [q \in Inits |-> IF q = p THEN "none" ELSE Renamed(open[q])]
      BY <2>1, <2>11 DEF RenameTmp
    <3>2. \A q \in Inits : q # p => init[q].stage \notin Writing /\ open[q] = "none"
      BY <2>3, <3>1 DEF Writing
    <3>3. Renamed("none") = "none"
      BY DEF Renamed
    <3>4. open'[p] = "none" /\ \A q \in Inits : q # p => open'[q] = open[q]
      BY <3>1, <3>2, <3>3
    <3>5. init'[p].stage \notin Writing
      BY <2>11, SettingsMemory DEF SettingsStep, AfterSettings, Writing
    <3>6. OpenIs(p)'
      BY <3>4, <3>5 DEF OpenIs, Writing
    <3> QED
      BY <1>2, <1>3, <2>0, <3>1, <3>2, <3>4, <3>6
  <2>12. ~ RenameFails(p)
    <3>1. init[p].stage = "rename settings" => tmp = {NewSettings(p)}
      BY <2>1 DEF OpenIs
    <3> QED
      BY <3>1 DEF RenameFails
  <2>13. CASE ReadConfig(p)
    <3>1. UNCHANGED writing /\ init[p].stage \notin Writing
      BY <2>13 DEF ReadConfig, Writing
    <3>2. init'[p].stage = "append config"
      BY <2>13 DEF ReadConfig, TypeInv, Memory
    <3> QED
      BY <2>4, <3>1, <3>2 DEF Writing
  <2>14. CASE AppendConfig(p)
    <3>1. UNCHANGED writing /\ init[p].stage \notin Writing
      BY <2>14 DEF AppendConfig, Writing
    <3>2. init'[p].stage = "read rc"
      BY <2>14, GotoType DEF AppendConfig, Stages
    <3> QED
      BY <2>4, <3>1, <3>2 DEF Writing
  <2>15. CASE ReadRc(p)
    <3>1. UNCHANGED writing /\ init[p].stage \notin Writing
      BY <2>15 DEF ReadRc, Writing
    <3>2. init'[p].stage = "append rc"
      BY <2>15, RcStep
    <3> QED
      BY <2>4, <3>1, <3>2 DEF Writing
  <2>16. CASE AppendCutOff(p) \/ AppendRc(p)
    <3>1. UNCHANGED writing /\ init[p].stage \notin Writing
      BY <2>16 DEF AppendCutOff, AppendRc, Writing
    <3>2. init'[p].stage = "off"
      BY <2>16, OffStep DEF AppendCutOff, AppendRc
    <3> QED
      BY <2>4, <3>1, <3>2 DEF Writing
  <2>17. CASE KillInit(p)
    <3>1. open' = [open EXCEPT ![p] = "none"] /\ mixed' = mixed \ {p} /\ tmp' = tmp
      BY <2>17 DEF KillInit, End
    <3>2. mixed' = {} /\ open'[p] = "none" /\ \A q \in Inits : q # p => open'[q] = open[q]
      BY <2>1, <3>1
    <3>3. init'[p].stage = "off"
      BY <2>17, OffStep DEF KillInit, End
    <3>4. OpenIs(p)'
      BY <3>2, <3>3 DEF OpenIs, Writing
    <3> QED
      BY <1>2, <1>3, <2>0, <3>1, <3>2, <3>4
  <2> QED
    BY <1>3, <2>5, <2>6, <2>7, <2>8, <2>9, <2>10, <2>11, <2>12, <2>13, <2>14, <2>15, <2>16, <2>17
       DEF InitStep
<1>4. ASSUME NEW p \in Inits, InitStep(p) PROVE TmpInv'
  BY <1>1, <1>3, <1>4 DEF TmpInv
<1>5. CASE init' = init /\ UNCHANGED writing /\ shared' = shared /\ overlap' = overlap
  <2>1. \A p \in Inits : NewSettings(p)' = NewSettings(p)
    BY <1>5, SameNew
  <2>2. open' = open /\ tmp' = tmp /\ mixed' = mixed
    BY <1>5 DEF writing
  <2>3. \A p \in Inits : OpenIs(p) => OpenIs(p)'
    BY <1>5, <2>1, <2>2 DEF OpenIs
  <2> QED
    BY <1>5, <2>2, <2>3 DEF TmpInv
<1>6. CASE Edits
  BY <1>5, <1>6, EditAlone
<1>7. CASE UNCHANGED vars
  BY <1>5, <1>7 DEF vars, history
<1> QED
  BY <1>4, <1>6, <1>7, NextCases

(* So the settings change only when one is renamed that holds them whole.  *)
LEMMA SettingsMove ==
    ASSUME TypeInv, TmpInv, NEW p \in Inits, InitStep(p), ~ shared
    PROVE  \/ settings' = settings
           \/ RenameTmp(p) /\ settings' = NewSettings(p)
<1>0. OpenIs(p)
  BY DEF TmpInv
<1>1. CASE FillPart(p) \/ FillTmp(p)
  <2>1. init[p].stage = "fill settings" /\ \E text \in {<<Torn>>, NewSettings(p)} : Put(p, text)
    BY <1>1 DEF FillPart, FillTmp
  <2>2. open[p] = "tmp"
    BY <1>0, <2>1 DEF OpenIs, Writing
  <2> QED
    BY <2>1, <2>2 DEF Put
<1>2. CASE RenameTmp(p)
  <2>1. init[p].stage = "rename settings" /\ settings' \in tmp
    BY <1>2 DEF RenameTmp
  <2> QED
    BY <1>0, <1>2, <2>1 DEF OpenIs
<1>3. CASE NothingMissing(p) \/ OpenTmp(p) \/ RenameFails(p)
  BY <1>3 DEF NothingMissing, OpenTmp, RenameFails, files
<1>4. CASE StartInit(p) \/ ReadSettings(p) \/ ReadConfig(p) \/ ReadRc(p) \/ KillInit(p)
  BY <1>4 DEF StartInit, ReadSettings, ReadConfig, ReadRc, KillInit, files
<1>5. CASE AppendConfig(p)
  BY <1>5 DEF AppendConfig
<1>6. CASE AppendCutOff(p)
  BY <1>6 DEF AppendCutOff
<1>7. CASE AppendRc(p)
  BY <1>7 DEF AppendRc
<1> QED
  BY <1>1, <1>2, <1>3, <1>4, <1>5, <1>6, <1>7 DEF InitStep

LEMMA FreshStep ==
    ASSUME TypeInv, AloneInv, TmpInv, FreshInv, [Next]_vars
    PROVE  FreshInv'
<1>1. ASSUME NEW p \in Inits, InitStep(p), ~ overlap', ~ raced',
             init'[p].stage \in Holding => init'[p].text = settings',
             init'[p].stage = "append config" => init'[p].text = config',
             init'[p].stage = "append rc" => init'[p].sourced = (rc' > 0)
      PROVE  FreshInv'
  <2>1. \A q \in Inits : q # p => init'[q].stage = "off"
    BY <1>1, Alone
  <2> QED
    BY <1>1, <2>1 DEF FreshInv, Holding, Writing
<1>2. ASSUME NEW p \in Inits, InitStep(p) PROVE FreshInv'
  <2> SUFFICES ASSUME ~ overlap', ~ raced' PROVE FreshInv'
    BY DEF FreshInv
  <2>0. /\ ~ overlap /\ ~ raced /\ ~ shared
        /\ \A stage \in Holding : stage \notin {"append config", "append rc"}
    BY <1>2, Alone, OneMoves DEF TmpInv, Holding, Writing
  <2>1. CASE StartInit(p)
    <3>1. init'[p].stage \in {"read settings", "read config"}
      BY <2>1, StartStep
    <3> QED
      BY <1>1, <1>2, <3>1 DEF Holding, Writing
  <2>2. CASE ReadSettings(p) /\ Readable(settings)
    <3>1. settings \in Texts /\ "write settings" \in Stages
      BY DEF TypeInv, Stages
    <3>2. init' = [init EXCEPT ![p].text = settings, ![p].stage = "write settings"] /\ settings' = settings
      BY <2>2 DEF ReadSettings, files
    <3>3. init'[p].stage = "write settings" /\ init'[p].text = settings
      BY <3>2 DEF TypeInv, Memory
    <3> QED
      BY <1>1, <1>2, <3>2, <3>3
  <2>3. CASE OpenTmp(p) \/ FillPart(p) \/ FillTmp(p)
    <3>1. /\ init[p].stage \in Holding /\ init'[p].stage \in Holding
          /\ init'[p].text = init[p].text
      BY <2>3, SettingsMemory DEF SettingsStep, Holding
    <3>2. settings' = settings
      <4>1. ~ RenameTmp(p)
        BY <2>3 DEF OpenTmp, BeginWrite, FillPart, FillTmp, RenameTmp
      <4> QED
        BY <1>2, <2>0, <4>1, SettingsMove
    <3>3. init[p].text = settings
      BY <2>0, <3>1 DEF FreshInv
    <3> QED
      BY <1>1, <1>2, <2>0, <3>1, <3>2, <3>3
  <2>9. CASE NothingMissing(p) \/ RenameTmp(p)
    <3>1. init'[p].stage = AfterSettings(p)
      BY <2>9, SettingsMemory DEF SettingsStep
    <3> QED
      BY <1>1, <1>2, <3>1 DEF AfterSettings, Holding, Writing
  <2>4. CASE ReadConfig(p)
    <3>1. init'[p].stage = "append config" /\ init'[p].text = config' /\ config' = config
      <4>1. config \in Texts /\ "append config" \in Stages
        BY DEF TypeInv, Stages
      <4>2. init' = [init EXCEPT ![p].text = config, ![p].stage = "append config"] /\ config' = config
        BY <2>4 DEF ReadConfig, files
      <4>3. init'[p].stage = "append config" /\ init'[p].text = config
        BY <4>2 DEF TypeInv, Memory
      <4> QED
        BY <4>2, <4>3
    <3> QED
      BY <1>1, <1>2, <3>1 DEF Holding, Writing
  <2>5. CASE AppendConfig(p)
    <3>1. init'[p].stage = "read rc"
      BY <2>5, GotoType DEF AppendConfig, Stages
    <3> QED
      BY <1>1, <1>2, <3>1 DEF Holding, Writing
  <2>6. CASE ReadRc(p)
    <3>1. init'[p].stage = "append rc" /\ init'[p].sourced = (rc > 0) /\ rc' = rc
      BY <2>6, RcStep DEF ReadRc, files
    <3> QED
      BY <1>1, <1>2, <3>1 DEF Holding, Writing
  <2>7. CASE \/ AppendCutOff(p) \/ AppendRc(p) \/ KillInit(p) \/ RenameFails(p)
             \/ ReadSettings(p) /\ ~ Readable(settings)
    <3>1. init'[p].stage = "off"
      BY <2>7, OffStep DEF AppendCutOff, AppendRc, KillInit, RenameFails, End, ReadSettings
    <3> QED
      BY <1>1, <1>2, <3>1 DEF Holding, Writing
  <2> QED
    BY <1>2, <2>1, <2>2, <2>3, <2>4, <2>5, <2>6, <2>7, <2>9 DEF InitStep
<1>3. CASE Edits
  BY <1>3, EditAlone DEF FreshInv, Holding, Writing
<1>4. CASE UNCHANGED vars
  BY <1>4 DEF FreshInv, vars, history, files
<1> QED
  BY <1>2, <1>3, <1>4, NextCases

-----------------------------------------------------------------------------
(* What becomes of the files.                                              *)

LEMMA Writers ==
    ASSUME NEW p \in Inits, InitStep(p)
    PROVE  /\ (config' = config /\ cut' = cut) \/ AppendConfig(p) \/ AppendCutOff(p)
           /\ rc' = rc \/ AppendRc(p)
<1>1. CASE StartInit(p) \/ ReadSettings(p) \/ ReadConfig(p) \/ ReadRc(p) \/ KillInit(p)
  BY <1>1 DEF StartInit, ReadSettings, ReadConfig, ReadRc, KillInit, files, history
<1>2. CASE SettingsStep(p)
  BY <1>2, SettingsAlone
<1>3. CASE AppendConfig(p)
  BY <1>3, ZenonT(40) DEF AppendConfig, history
<1>4. CASE AppendCutOff(p)
  BY <1>4 DEF AppendCutOff
<1>5. CASE AppendRc(p)
  BY <1>5 DEF AppendRc
<1> QED
  BY <1>1, <1>2, <1>3, <1>4, <1>5 DEF InitStep, SettingsStep

(* What an init has in memory is of its type.                              *)
LEMMA MemoryHas ==
    ASSUME TypeInv, NEW p \in Inits
    PROVE  /\ init[p].text \in Texts /\ init[p].nd7 \in Paths
           /\ settings \in Texts /\ config \in Texts
  BY DEF TypeInv, Memory

LEMMA HashStep ==
    ASSUME TypeInv, HashInv, [Next]_vars
    PROVE  HashInv'
<1> SUFFICES ASSUME ~ cut' PROVE Hashed(config')
  BY DEF HashInv, Hashed, Trusts
<1>0. config \in Texts
  BY DEF TypeInv
<1>1. ASSUME NEW p \in Inits, InitStep(p) PROVE Hashed(config')
  <2>1. CASE config' = config /\ cut' = cut
    BY <2>1 DEF HashInv
  <2>2. CASE AppendConfig(p)
    <3>1. ~ cut /\ config' = config \o Addition(init[p].text, init[p].nd7)
      BY <2>2 DEF AppendConfig, history
    <3>2. Addition(init[p].text, init[p].nd7) \in Texts /\ Hashed(Addition(init[p].text, init[p].nd7))
      BY MemoryHas, AdditionDoes
    <3> QED
      BY <1>0, <3>1, <3>2, JoinedHashed DEF HashInv
  <2>3. CASE AppendCutOff(p)
    BY <2>3 DEF AppendCutOff
  <2> QED
    BY <1>1, <2>1, <2>2, <2>3, Writers
<1>2. CASE Edits
  <2>1. Hashed(config)
    BY <1>2, EditAlone DEF HashInv
  <2>2. CASE EditSettings
    BY <2>1, <2>2 DEF EditSettings
  <2>3. ASSUME NEW e \in Events,
               config' = <<Hook(e, Own)>> \o config \/ config' = Append(config, Hook(e, Own))
        PROVE  Hashed(config')
    <3> DEFINE t == <<Hook(e, Own)>>
    <3>1. t \in Texts /\ Append(config, Hook(e, Own)) = config \o t
      BY <1>0, OwnItem, OneItem
    <3>2. Hashed(t)
      BY OwnItem DEF Hashed, Trusts
    <3> HIDE DEF t
    <3>3. Hashed(t \o config) /\ Hashed(config \o t)
      BY <1>0, <2>1, <3>1, <3>2, JoinedHashed
    <3> QED
      BY <2>3, <3>1, <3>3 DEF t
  <2>4. ASSUME NEW i \in DOMAIN config, config' = RemoveAt(config, i) PROVE Hashed(config')
    BY <1>0, <2>1, <2>4, RemoveDoes, EmbedsKeeps
  <2>5. CASE EditConfig
    BY <2>3, <2>4, <2>5, EventSet DEF EditConfig
  <2>6. CASE ApproveHook
    <3>1. PICK f : \E i \in Hooks(config), o \in Texts : Approves(f, i, o)
      BY <2>6, ApproveDoes
    <3>2. PICK i \in Hooks(config), o \in Texts : Approves(f, i, o)
      BY <3>1
    <3> DEFINE x == Approval(i)
    <3>3. Embeds(f, o, config) /\ x \in Items /\ x.command # NoHash /\ config' = o \o <<x>>
      BY <3>2 DEF Approves
    <3> HIDE DEF x
    <3>4. <<x>> \in Texts /\ Hashed(<<x>>)
      BY <3>3, OneItem DEF Hashed, Trusts
    <3>5. Hashed(o)
      BY <1>0, <2>1, <3>3, EmbedsKeeps
    <3> QED
      BY <3>3, <3>4, <3>5, JoinedHashed
  <2> QED
    BY <1>2, <2>2, <2>5, <2>6 DEF Edits
<1>3. CASE UNCHANGED vars
  BY <1>3 DEF HashInv, vars, files, history
<1> QED
  BY <1>1, <1>2, <1>3, NextCases

LEMMA DuplicateStep ==
    ASSUME TypeInv, AloneInv, FreshInv, HashInv, NoDuplicateTables, [Next]_vars
    PROVE  NoDuplicateTables'
<1> SUFFICES ASSUME ~ overlap', ~ raced', ~ cut' PROVE Valid(config')
  BY DEF NoDuplicateTables, Valid, Trusts
<1>0. config \in Texts
  BY DEF TypeInv
<1>1. ASSUME NEW p \in Inits, InitStep(p) PROVE Valid(config')
  <2>0. ~ overlap /\ ~ raced
    BY <1>1, Alone, OneMoves
  <2>1. CASE config' = config /\ cut' = cut
    BY <2>0, <2>1 DEF NoDuplicateTables
  <2>2. CASE AppendConfig(p)
    <3>1. /\ ~ cut /\ config' = config \o Addition(init[p].text, init[p].nd7)
          /\ init[p].stage = "append config"
      BY <2>2 DEF AppendConfig, history
    <3>2. init[p].text = config
      BY <2>0, <3>1 DEF FreshInv
    <3>3. Hashed(config) /\ Valid(config)
      BY <2>0, <3>1 DEF NoDuplicateTables, HashInv
    <3> QED
      BY <3>1, <3>2, <3>3, MemoryHas, AdditionDoes
  <2>3. CASE AppendCutOff(p)
    BY <2>3 DEF AppendCutOff
  <2> QED
    BY <1>1, <2>1, <2>2, <2>3, Writers
<1>2. CASE Edits
  <2>1. Valid(config)
    BY <1>2, EditAlone DEF NoDuplicateTables
  <2>2. CASE EditSettings
    BY <2>1, <2>2 DEF EditSettings
  <2>3. ASSUME NEW e \in Events,
               config' = <<Hook(e, Own)>> \o config \/ config' = Append(config, Hook(e, Own))
        PROVE  Valid(config')
    <3> DEFINE t == <<Hook(e, Own)>>
    <3>1. t \in Texts /\ Append(config, Hook(e, Own)) = config \o t
      BY <1>0, OwnItem, OneItem
    <3>2. Trusts(t) = {}
      BY OwnItem DEF Trusts
    <3> HIDE DEF t
    <3>3. Valid(t)
      BY <3>2 DEF Valid
    <3>4. Valid(t \o config) /\ Valid(config \o t)
      BY <1>0, <2>1, <3>1, <3>2, <3>3, JoinedValid
    <3> QED
      BY <2>3, <3>1, <3>4 DEF t
  <2>4. ASSUME NEW i \in DOMAIN config, config' = RemoveAt(config, i) PROVE Valid(config')
    BY <1>0, <2>1, <2>4, RemoveDoes, EmbedsKeeps
  <2>5. CASE EditConfig
    BY <2>3, <2>4, <2>5, EventSet DEF EditConfig
  <2>6. CASE ApproveHook
    <3>1. PICK f : \E i \in Hooks(config), o \in Texts : Approves(f, i, o)
      BY <2>6, ApproveDoes
    <3>2. PICK i \in Hooks(config), o \in Texts : Approves(f, i, o)
      BY <3>1
    <3> DEFINE x == Approval(i)
               t == <<x>>
    <3>3. /\ Embeds(f, o, config) /\ x \in Items /\ config' = o \o t
          /\ \A m \in Trusts(o) : ~ SameTable(o[m], x)
      BY <3>2 DEF Approves
    <3> HIDE DEF x
    <3>4. t \in Texts /\ Valid(t) /\ \A m \in DOMAIN t : t[m] = x
      BY <3>3, OneItem DEF Valid, Trusts
    <3>5. Valid(o)
      BY <1>0, <2>1, <3>3, EmbedsKeeps
    <3> HIDE DEF t
    <3>6. \A m \in Trusts(o), k \in Trusts(t) : ~ SameTable(o[m], t[k])
      BY <3>3, <3>4 DEF Trusts
    <3> QED
      BY <3>3, <3>4, <3>5, <3>6, JoinedValid
  <2> QED
    BY <1>2, <2>2, <2>5, <2>6 DEF Edits
<1>3. CASE UNCHANGED vars
  BY <1>3 DEF NoDuplicateTables, vars, files, history
<1> QED
  BY <1>1, <1>2, <1>3, NextCases

(* A hook of the user's own is like no nd7's.                              *)
LEMMA OwnOnce ==
    ASSUME NEW s \in Texts, NEW e \in Events, Once(s)
    PROVE  /\ <<Hook(e, Own)>> \in Texts /\ Append(s, Hook(e, Own)) = s \o <<Hook(e, Own)>>
           /\ Once(s \o <<Hook(e, Own)>>) /\ Once(<<Hook(e, Own)>> \o s)
<1> DEFINE t == <<Hook(e, Own)>>
<1>1. t \in Texts /\ Append(s, Hook(e, Own)) = s \o t
  BY OwnItem, OneItem
<1>2. \A k \in DOMAIN t : t[k].command = Own
  BY DEF Hook
<1> HIDE DEF t
<1>3. Once(t)
  BY <1>2 DEF Once, Hooks
<1>4. \A i \in Hooks(s), k \in Hooks(t) :
          Alike(s[i], t[k]) \/ Alike(t[k], s[i]) => s[i].command = Own /\ t[k].command = Own
  <2> SUFFICES ASSUME NEW i \in Hooks(s), NEW k \in Hooks(t), Alike(s[i], t[k]) \/ Alike(t[k], s[i])
               PROVE  s[i].command = Own /\ t[k].command = Own
    OBVIOUS
  <2>1. t[k].command = Own /\ s[i] \in Items /\ s[i].t = "hook"
    BY <1>2, TextDomain DEF Hooks
  <2>2. s[i].command.kind = "own"
    BY <2>1 DEF Alike, Own, Command
  <2> QED
    BY <2>1, <2>2 DEF Items
<1>5. Once(s \o t) /\ Once(t \o s)
  BY <1>1, <1>3, <1>4, JoinedOnce
<1> QED
  BY <1>1, <1>5 DEF t

LEMMA OncePrefix ==
    ASSUME NEW s \in Texts, NEW t \in Texts, Once(s \o t)
    PROVE  Once(s)
<1>1. \A i \in Hooks(s) : i \in Hooks(s \o t) /\ (s \o t)[i] = s[i]
  BY Joined, JoinedItems DEF Hooks
<1> QED
  BY <1>1 DEF Once

LEMMA OnceStep ==
    ASSUME TypeInv, AloneInv, TmpInv, FreshInv, OneHookEach, [Next]_vars
    PROVE  OneHookEach'
<1> SUFFICES ASSUME ~ overlap', ~ raced' PROVE Once(settings') /\ Once(config') /\ rc' <= 1
  BY DEF OneHookEach, Once, Hooks
<1>0. settings \in Texts /\ config \in Texts /\ rc \in Nat
  BY DEF TypeInv
<1>1. ASSUME NEW p \in Inits, InitStep(p) PROVE Once(settings') /\ Once(config') /\ rc' <= 1
  <2>0. ~ overlap /\ ~ raced /\ ~ shared
    BY <1>1, Alone, OneMoves DEF TmpInv
  <2>1. Once(settings) /\ Once(config) /\ rc <= 1
    BY <2>0 DEF OneHookEach
  <2>2. ASSUME RenameTmp(p), settings' = NewSettings(p) PROVE Once(settings')
    <3>1. init[p].text = settings
      BY <2>0, <2>2 DEF FreshInv, RenameTmp, Holding, Writing
    <3>2. Once(settings \o ClaudeHooks(settings, init[p].nd7))
      BY <2>1, MemoryHas, HooksDo
    <3> QED
      BY <2>2, <3>1, <3>2 DEF NewSettings
  <2>3. ASSUME AppendConfig(p) PROVE Once(config')
    <3>1. init[p].text = config /\ config' = config \o Addition(init[p].text, init[p].nd7)
      BY <2>0, <2>3 DEF FreshInv, AppendConfig
    <3> QED
      BY <2>1, <3>1, MemoryHas, AdditionDoes
  <2>4. ASSUME AppendCutOff(p) PROVE Once(config')
    <3>1. init[p].text = config
      BY <2>0, <2>4 DEF FreshInv, AppendCutOff
    <3>2. PICK a, b, c \in Texts :
              /\ Addition(init[p].text, init[p].nd7) = a \o b
              /\ config' = (config \o a) \o c
              /\ Loose(c)
      BY <2>4, CutDoes
    <3>3. Once(config \o (a \o b))
      BY <2>1, <3>1, <3>2, MemoryHas, AdditionDoes
    <3>4. Once(config \o a) /\ config \o a \in Texts
      <4>1. config \o (a \o b) = (config \o a) \o b
        <5>1. config \in Seq(Items) /\ a \in Seq(Items) /\ b \in Seq(Items)
          BY <1>0 DEF Texts
        <5>2. Cat(Cat(config, a), b) = Cat(config, Cat(a, b))
          BY <5>1, CatAssociative
        <5> QED
          BY <5>2, Zenon DEF Cat
      <4>2. config \o a \in Texts
        BY <1>0, Joined
      <4> QED
        BY <3>3, <4>1, <4>2, OncePrefix
    <3>5. Hooks(c) = {} /\ Once(c)
      BY <3>2 DEF Loose, Once
    <3> QED
      BY <3>2, <3>4, <3>5, JoinedOnce
  <2>5. ASSUME AppendRc(p) PROVE rc' <= 1
    <3>1. init[p].sourced = (rc > 0) /\ rc' = IF init[p].sourced THEN rc ELSE rc + 1
      BY <2>0, <2>5 DEF FreshInv, AppendRc
    <3>2. CASE rc > 0
      <4>1. rc' = rc
        BY <3>1, <3>2
      <4> QED
        BY <2>1, <4>1
    <3>3. CASE ~ rc > 0
      <4>1. rc' = rc + 1
        BY <3>1, <3>3
      <4> QED
        BY <1>0, <3>3, <4>1
    <3> QED
      BY <3>2, <3>3
  <2> QED
    BY <1>1, <2>0, <2>1, <2>2, <2>3, <2>4, <2>5, Writers, SettingsMove
<1>2. CASE Edits
  <2>1. Once(settings) /\ Once(config) /\ rc' <= 1
    BY <1>2, EditAlone DEF OneHookEach
  <2>2. CASE EditSettings
    <3>1. ASSUME NEW e \in Events, settings' = Append(settings, Hook(e, Own)) PROVE Once(settings')
      BY <1>0, <2>1, <3>1, OwnOnce
    <3>2. ASSUME NEW i \in DOMAIN settings, settings' = RemoveAt(settings, i) PROVE Once(settings')
      BY <1>0, <2>1, <3>2, RemoveDoes, EmbedsKeeps
    <3>3. config' = config
      BY <2>2 DEF EditSettings
    <3> QED
      BY <2>1, <2>2, <3>1, <3>2, <3>3, EventSet DEF EditSettings
  <2>3. CASE EditConfig
    <3>1. ASSUME NEW e \in Events,
                 config' = <<Hook(e, Own)>> \o config \/ config' = Append(config, Hook(e, Own))
          PROVE  Once(config')
      BY <1>0, <2>1, <3>1, OwnOnce
    <3>2. ASSUME NEW i \in DOMAIN config, config' = RemoveAt(config, i) PROVE Once(config')
      BY <1>0, <2>1, <3>2, RemoveDoes, EmbedsKeeps
    <3>3. settings' = settings
      BY <2>3 DEF EditConfig
    <3> QED
      BY <2>1, <2>3, <3>1, <3>2, <3>3, EventSet DEF EditConfig
  <2>4. CASE ApproveHook
    <3>1. PICK f : \E i \in Hooks(config), o \in Texts : Approves(f, i, o)
      BY <2>4, ApproveDoes
    <3>2. PICK i \in Hooks(config), o \in Texts : Approves(f, i, o)
      BY <3>1
    <3> DEFINE t == <<Approval(i)>>
    <3>3. Embeds(f, o, config) /\ Approval(i) \in Items /\ config' = o \o t
      BY <3>2 DEF Approves
    <3>4. t \in Texts /\ Hooks(t) = {}
      BY <3>3, OneItem DEF Hooks, Approval, Trust
    <3> HIDE DEF t
    <3>5. Once(o) /\ Once(t)
      BY <1>0, <2>1, <3>3, <3>4, EmbedsKeeps DEF Once
    <3>6. Once(config')
      BY <3>3, <3>4, <3>5, JoinedOnce
    <3>7. settings' = settings
      BY <2>4 DEF ApproveHook
    <3> QED
      BY <2>1, <3>6, <3>7
  <2> QED
    BY <1>2, <2>2, <2>3, <2>4 DEF Edits
<1>3. CASE UNCHANGED vars
  BY <1>3 DEF OneHookEach, vars, files, history
<1> QED
  BY <1>1, <1>2, <1>3, NextCases

LEMMA OwnStep ==
    ASSUME TypeInv, TmpInv, OwnInv, [Next]_vars
    PROVE  OwnInv'
<1> DEFINE Has(own_, text) == \A e \in own_ : \E i \in DOMAIN text : text[i] = Hook(e, Own)
<1> SUFFICES ASSUME ~ raced', ~ shared'
             PROVE  /\ Has(own', settings')
                    /\ \A p \in Inits : init'[p].stage \in Holding => Has(own', init'[p].text)
  BY DEF OwnInv, HasOwn
<1>0. settings \in Texts
  BY DEF TypeInv
<1>1. ASSUME NEW p \in Inits, InitStep(p)
      PROVE  /\ Has(own', settings')
             /\ \A q \in Inits : init'[q].stage \in Holding => Has(own', init'[q].text)
  <2>0. ~ raced /\ ~ shared /\ own' = own /\ \A q \in Inits : q # p => init'[q] = init[q]
    BY <1>1, OneMoves
  <2>1. Has(own, settings) /\ \A q \in Inits : init[q].stage \in Holding => Has(own, init[q].text)
    BY <2>0 DEF OwnInv, HasOwn
  <2>2. ASSUME RenameTmp(p) PROVE Has(own, NewSettings(p))
    <3>1. Has(own, init[p].text) /\ init[p].text \in Texts
      BY <2>1, <2>2, MemoryHas DEF RenameTmp, Holding, Writing
    <3>2. ClaudeHooks(init[p].text, init[p].nd7) \in Texts
      BY MemoryHas, HooksDo DEF AllHooks
    <3>3. \A i \in DOMAIN init[p].text : i \in DOMAIN NewSettings(p) /\ NewSettings(p)[i] = init[p].text[i]
      BY <3>1, <3>2, Joined DEF NewSettings
    <3> QED
      BY <3>1, <3>3
  <2>3. Has(own, settings')
    BY <1>1, <2>0, <2>1, <2>2, SettingsMove
  <2>4. init'[p].stage \in Holding => Has(own, init'[p].text)
    <3>1. CASE ReadSettings(p) /\ Readable(settings)
      <4>1. init' = [init EXCEPT ![p].text = settings, ![p].stage = "write settings"]
        BY <3>1 DEF ReadSettings
      <4>2. init'[p].text = settings
        BY <4>1 DEF TypeInv, Memory
      <4> QED
        BY <2>1, <4>2
    <3>2. CASE StartInit(p)
      <4>1. init'[p].stage \in {"read settings", "read config"}
        BY <3>2, StartStep
      <4> QED
        BY <4>1 DEF Holding, Writing
    <3>3. CASE OpenTmp(p) \/ FillPart(p) \/ FillTmp(p)
      <4>1. init[p].stage \in Holding /\ init'[p].text = init[p].text
        BY <3>3, SettingsMemory DEF SettingsStep
      <4> QED
        BY <2>1, <4>1
    <3>8. CASE NothingMissing(p) \/ RenameTmp(p)
      <4>1. init'[p].stage = AfterSettings(p)
        BY <3>8, SettingsMemory DEF SettingsStep
      <4> QED
        BY <4>1 DEF AfterSettings, Holding, Writing
    <3>4. CASE ReadConfig(p)
      <4>1. init'[p].stage = "append config"
        BY <3>4 DEF ReadConfig, TypeInv, Memory
      <4> QED
        BY <4>1 DEF Holding, Writing
    <3>5. CASE AppendConfig(p)
      <4>1. init'[p].stage = "read rc"
        BY <3>5, GotoType DEF AppendConfig, Stages
      <4> QED
        BY <4>1 DEF Holding, Writing
    <3>6. CASE ReadRc(p)
      BY <3>6, RcStep DEF Holding, Writing
    <3>7. CASE \/ AppendCutOff(p) \/ AppendRc(p) \/ KillInit(p) \/ RenameFails(p)
               \/ ReadSettings(p) /\ ~ Readable(settings)
      <4>1. init'[p].stage = "off"
        BY <3>7, OffStep DEF AppendCutOff, AppendRc, KillInit, RenameFails, End, ReadSettings
      <4> QED
        BY <4>1 DEF Holding, Writing
    <3> QED
      BY <1>1, <3>1, <3>2, <3>3, <3>4, <3>5, <3>6, <3>7, <3>8 DEF InitStep
  <2>5. ASSUME NEW q \in Inits, init'[q].stage \in Holding PROVE Has(own', init'[q].text)
    <3>1. CASE q = p
      BY <2>0, <2>4, <2>5, <3>1
    <3>2. CASE q # p
      <4>1. init'[q] = init[q]
        BY <2>0, <3>2
      <4>2. Has(own, init[q].text)
        BY <2>1, <2>5, <4>1
      <4> QED
        BY <2>0, <4>1, <4>2
    <3> QED
      BY <3>1, <3>2
  <2>6. Has(own', settings')
    BY <2>0, <2>3
  <2> QED
    BY <2>5, <2>6
<1>2. CASE Edits
  <2>0. ~ raced /\ ~ shared /\ init' = init /\ \A p \in Inits : init[p].stage = "off"
    BY <1>2, EditAlone
  <2>1. Has(own, settings)
    BY <2>0 DEF OwnInv, HasOwn
  <2>2. ASSUME EditSettings PROVE Has(own', settings')
    <3>1. ASSUME NEW e \in Events, settings' = Append(settings, Hook(e, Own)), own' = own \cup {e}
          PROVE  Has(own', settings')
      <4> DEFINE t == <<Hook(e, Own)>>
      <4>1. t \in Texts /\ settings' = settings \o t /\ 1 \in DOMAIN t /\ t[1] = Hook(e, Own)
        BY <1>0, <3>1, OwnItem, OneItem
      <4> HIDE DEF t
      <4>2. /\ \A i \in DOMAIN settings : i \in DOMAIN settings' /\ settings'[i] = settings[i]
            /\ Len(settings) + 1 \in DOMAIN settings' /\ settings'[Len(settings) + 1] = Hook(e, Own)
        BY <1>0, <4>1, Joined
      <4> QED
        BY <2>1, <3>1, <4>2
    <3>2. ASSUME NEW i \in DOMAIN settings, settings' = RemoveAt(settings, i),
                 own' = IF settings[i].command = Own THEN own \ {settings[i].event} ELSE own
          PROVE  Has(own', settings')
      <4> DEFINE f == [k \in DOMAIN RemoveAt(settings, i) |-> IF k < i THEN k ELSE k + 1]
      <4>1. /\ Embeds(f, RemoveAt(settings, i), settings)
            /\ \A j \in DOMAIN settings : j # i => \E k \in DOMAIN RemoveAt(settings, i) : f[k] = j
        BY <1>0, RemoveDoes
      <4> HIDE DEF f
      <4>2. \A j \in DOMAIN settings : j # i => \E k \in DOMAIN settings' : settings'[k] = settings[j]
        BY <3>2, <4>1 DEF Embeds
      <4>3. ASSUME NEW e \in own' PROVE \E k \in DOMAIN settings' : settings'[k] = Hook(e, Own)
        <5>1. PICK j \in DOMAIN settings : settings[j] = Hook(e, Own)
          BY <2>1, <3>2
        <5>2. settings[j].command = Own /\ settings[j].event = e
          BY <5>1 DEF Hook
        <5>3. j # i
          BY <3>2, <5>2
        <5> QED
          BY <4>2, <5>1, <5>3
      <4> QED
        BY <4>3
    <3>3. Has(own', settings')
      BY <2>2, <3>1, <3>2, EventSet, SMTT(30) DEF EditSettings
    <3> QED
      BY <3>3
  <2>3. ASSUME EditConfig \/ ApproveHook PROVE Has(own', settings')
    BY <2>0, <2>1, <2>3 DEF EditConfig, ApproveHook
  <2>4. \A p \in Inits : init'[p].stage \notin Holding
    BY <2>0 DEF Holding, Writing
  <2>5. Has(own', settings')
    BY <1>2, <2>2, <2>3 DEF Edits
  <2> QED
    BY <2>4, <2>5
<1>3. CASE UNCHANGED vars
  BY <1>3, ZenonT(40) DEF OwnInv, HasOwn, vars, files, history
<1> QED
  BY <1>1, <1>2, <1>3, NextCases

(* Codex's own rewrite keeps every approval but the one it replaces, and   *)
(* that one it gives to the hook at its place.                             *)
LEMMA ApprovePlaced ==
    ASSUME TypeInv, NEW f, NEW i \in Hooks(config), NEW o \in Texts, Approves(f, i, o), Placed(config)
    PROVE  Placed(config')
<1> DEFINE x == Approval(i)
           t == <<x>>
           u == o \o t
<1>0. config \in Texts
  BY DEF TypeInv
<1>1. /\ Embeds(f, o, config) /\ x \in Items
      /\ \A k \in DOMAIN config :
             config[k].t # "trust" \/ ~ SameTable(config[k], x) => \E m \in DOMAIN o : f[m] = k
      /\ \A m \in Trusts(o) : ~ SameTable(o[m], x)
  BY DEF Approves
<1>2. config' = u
  BY DEF Approves
<1>3. /\ \A m \in DOMAIN o : f[m] \in DOMAIN config /\ o[m] = config[f[m]]
      /\ \A k \in Groups(config) : \E m \in DOMAIN o : f[m] = k
      /\ Hooks(config) \subseteq Groups(config)
  BY <1>1 DEF Embeds, Groups, Hooks
<1>4. \A m \in DOMAIN o : Place(o, m) = Place(config, f[m]) /\ Key(o, m) = Key(config, f[m])
  BY <1>0, <1>1, <1>3, PlaceEmbeds
<1>5. Placed(o)
  <2> SUFFICES ASSUME NEW n \in Trusts(o), o[n].command \notin Partial
               PROVE  \E m \in Hooks(o) : Covers(o, m, n)
    BY DEF Placed
  <2>1. n \in DOMAIN o /\ f[n] \in Trusts(config) /\ o[n] = config[f[n]]
    BY <1>3 DEF Trusts
  <2>2. PICK k \in Hooks(config) : /\ Key(config, k) = <<o[n].event, o[n].at>>
                                   /\ Approved(config, k)
    BY <2>1 DEF Placed, Covers
  <2>3. PICK m \in DOMAIN o : f[m] = k
    BY <1>3
  <2>4. m \in Hooks(o) /\ o[m] = config[k] /\ Key(o, m) = <<o[n].event, o[n].at>>
        /\ Place(o, m) = Place(config, k)
    BY <1>3, <1>4, <2>2, <2>3 DEF Hooks
  <2>5. PICK j \in Trusts(config) :
            config[j] = Trust(config[k].event, Place(config, k), config[k].command)
    BY <2>2 DEF Approved
  <2>6. config[j].event = o[n].event /\ config[j].at = o[n].at
    BY <2>2, <2>5 DEF Key, Trust
  <2>7. j \in DOMAIN config /\ ~ SameTable(config[j], x)
    BY <1>1, <2>6 DEF SameTable, Trusts
  <2>8. PICK l \in DOMAIN o : f[l] = j
    BY <1>1, <2>7
  <2>9. l \in Trusts(o) /\ o[l] = Trust(o[m].event, Place(o, m), o[m].command)
    BY <1>3, <2>4, <2>5, <2>8 DEF Trusts
  <2>10. Approved(o, m)
    BY <2>9 DEF Approved
  <2> QED
    BY <2>4, <2>10 DEF Covers
<1>6. PICK m \in DOMAIN o : f[m] = i
  BY <1>3
<1>7. t \in Texts /\ 1 \in DOMAIN t /\ t[1] = x /\ DOMAIN t = {1}
  BY <1>1, OneItem
<1>8. x.event = config[i].event /\ x.at = Place(config, i) /\ x.command = config[i].command
  BY DEF Approval, Trust
<1> HIDE DEF x, t
<1>9. /\ Len(o) \in Nat /\ u[Len(o) + 1] = x
      /\ m \in Int /\ m <= Len(o) /\ u[m] = o[m] /\ Place(u, m) = Place(o, m)
  BY <1>6, <1>7, Joined, PlaceStays
<1>10. m \in Hooks(u)
  <2>1. m \in Hooks(o)
    BY <1>3, <1>6 DEF Hooks
  <2> QED
    BY <1>7, <2>1, JoinedItems
<1>11. Backs(u, Len(o) + 1, m)
  BY <1>3, <1>4, <1>6, <1>8, <1>9 DEF Backs
<1>12. Supported(o, t)
  <2> SUFFICES ASSUME NEW n \in Trusts(u), n > Len(o)
               PROVE  \E k \in Hooks(u) : k < n /\ Backs(u, n, k)
    BY DEF Supported
  <2>1. n \notin Trusts(o)
    <3>1. n \in Trusts(o) => n \in Int /\ n <= Len(o)
      BY <1>7, Joined DEF Trusts
    <3> QED
      BY <1>9, <3>1
  <2>2. n = Len(o) + 1
    BY <1>7, <2>1, JoinedItems DEF Trusts
  <2>3. m < n
    BY <1>9, <2>2
  <2> QED
    BY <1>10, <1>11, <2>2, <2>3
<1> QED
  BY <1>2, <1>5, <1>7, <1>12, PlacedJoin

LEMMA PlacedStep ==
    ASSUME TypeInv, AloneInv, FreshInv, PlacedInv, [Next]_vars
    PROVE  PlacedInv'
<1> SUFFICES ASSUME ~ moved', ~ raced', ~ overlap' PROVE Placed(config')
  BY DEF PlacedInv, Placed, Covers, Approved, Key, Place, Hooks, Trusts
<1>0. config \in Texts
  BY DEF TypeInv
<1>1. ASSUME NEW p \in Inits, InitStep(p) PROVE Placed(config')
  <2>0. ~ overlap /\ ~ raced /\ ~ moved
    BY <1>1, Alone, OneMoves
  <2>1. Placed(config)
    BY <2>0 DEF PlacedInv
  <2>2. CASE AppendConfig(p)
    <3>1. init[p].text = config /\ config' = config \o Addition(init[p].text, init[p].nd7)
      BY <2>0, <2>2 DEF FreshInv, AppendConfig
    <3>2. Addition(config, init[p].nd7) \in Texts /\ Supported(config, Addition(config, init[p].nd7))
      BY MemoryHas, AdditionDoes
    <3> QED
      BY <1>0, <2>1, <3>1, <3>2, PlacedJoin
  <2>3. CASE AppendCutOff(p)
    <3>1. init[p].text = config
      BY <2>0, <2>3 DEF FreshInv, AppendCutOff
    <3>2. PICK a, b, c \in Texts :
              /\ Addition(init[p].text, init[p].nd7) = a \o b
              /\ config' = (config \o a) \o c
              /\ Loose(c)
      BY <2>3, CutDoes
    <3>3. Supported(config, a \o b)
      <4>1. Supported(config, Addition(config, init[p].nd7))
        BY MemoryHas, AdditionDoes
      <4> QED
        BY <3>1, <3>2, <4>1
    <3> DEFINE v == config \o a
    <3>4. v \in Texts /\ Placed(v)
      <4>1. Supported(config, a)
        BY <1>0, <3>3, SupportedCut
      <4> QED
        BY <1>0, <2>1, <4>1, Joined, PlacedJoin
    <3> HIDE DEF v
    <3>5. Supported(v, c)
      <4> SUFFICES ASSUME NEW n \in Trusts(v \o c), n > Len(v) PROVE (v \o c)[n].command \in Partial
        BY DEF Supported
      <4>1. n \notin Trusts(v)
        <5>1. n \in Trusts(v) => n \in Int /\ n <= Len(v) /\ Len(v) \in Nat
          BY <3>4, Joined DEF Trusts
        <5> QED
          BY <5>1
      <4>2. PICK k \in Trusts(c) : n = Len(v) + k
        BY <3>4, <4>1, JoinedItems
      <4>3. k \in DOMAIN c
        BY DEF Trusts
      <4>4. (v \o c)[Len(v) + k] = c[k]
        BY <3>4, <4>3, Joined, ZenonT(40)
      <4> QED
        BY <3>2, <4>2, <4>3, <4>4 DEF Loose
    <3> QED
      BY <3>2, <3>4, <3>5, PlacedJoin DEF v
  <2> QED
    BY <1>1, <2>1, <2>2, <2>3, Writers
<1>2. CASE Edits
  <2>0. ~ overlap /\ ~ raced
    BY <1>2, EditAlone
  <2>1. CASE EditSettings
    BY <2>0, <2>1 DEF EditSettings, PlacedInv
  <2>2. CASE EditConfig
    <3>1. ~ Stale(config')
      BY <2>2 DEF EditConfig
    <3> QED
      BY <3>1 DEF Stale, Placed, Covers
  <2>3. CASE ApproveHook
    <3>1. Placed(config)
      BY <2>0, <2>3 DEF PlacedInv, ApproveHook
    <3> QED
      BY <2>3, <3>1, ApproveDoes, ApprovePlaced
  <2> QED
    BY <1>2, <2>1, <2>2, <2>3 DEF Edits
<1>3. CASE UNCHANGED vars
  BY <1>3 DEF PlacedInv, vars, files, history
<1> QED
  BY <1>1, <1>2, <1>3, NextCases

-----------------------------------------------------------------------------
(* What a call that was alone leaves for the next one.                     *)

Settles(nd7) ==
    /\ ~ raced /\ AllInstalled(settings)
    /\ AllInstalled(config) /\ AllApproved(config, nd7)
Leaves(p) ==
    /\ init[p].stage \in PastSettings /\ "claude" \in init[p].agents => AllInstalled(settings)
    /\ init[p].stage \in PastConfig /\ "codex" \in init[p].agents =>
           AllInstalled(config) /\ AllApproved(config, init[p].nd7)

LEMMA SettledParts ==
    SettledInv <=> \/ overlap
                   \/ /\ settled # NoBinary => Settles(settled)
                      /\ raced \/ \A p \in Inits : Leaves(p)
  BY DEF SettledInv, Settles, Leaves

LEMMA SettledStep ==
    ASSUME TypeInv, AloneInv, TmpInv, FreshInv, SettledInv, [Next]_vars
    PROVE  SettledInv'
<1> SUFFICES ASSUME ~ overlap'
             PROVE  /\ settled' # NoBinary => Settles(settled)'
                    /\ raced' \/ \A p \in Inits : Leaves(p)'
  BY DEF SettledInv, Settles, Leaves
<1>1. ASSUME NEW p \in Inits, InitStep(p),
             settled' # NoBinary => Settles(settled)',
             raced' \/ Leaves(p)'
      PROVE  /\ settled' # NoBinary => Settles(settled)'
             /\ raced' \/ \A q \in Inits : Leaves(q)'
  <2>1. \A q \in Inits : q # p => init'[q].stage = "off"
    BY <1>1, Alone
  <2>2. \A q \in Inits : q # p => Leaves(q)'
    BY <2>1 DEF Leaves, PastSettings, PastConfig
  <2>3. ASSUME ~ raced', NEW q \in Inits PROVE Leaves(q)'
    BY <1>1, <2>2, <2>3
  <2> QED
    BY <1>1, <2>3
<1>2. ASSUME NEW p \in Inits, InitStep(p)
      PROVE  /\ settled' # NoBinary => Settles(settled)'
             /\ raced' \/ \A q \in Inits : Leaves(q)'
  <2>0. ~ overlap /\ raced' = raced /\ ~ shared
    BY <1>2, Alone, OneMoves DEF TmpInv
  <2>1. (settled # NoBinary => Settles(settled)) /\ (raced \/ Leaves(p))
    BY <2>0, SettledParts
  <2>2. ASSUME settings' = settings, config' = config, settled' = settled
        PROVE  settled' # NoBinary => Settles(settled)'
    BY <2>0, <2>1, <2>2 DEF Settles
  <2>3. CASE StartInit(p)
    <3>1. settings' = settings /\ config' = config /\ settled' = settled
      BY <2>3 DEF StartInit, files
    <3>2. /\ init'[p].stage \in {"read settings", "read config"}
          /\ "claude" \in init'[p].agents => init'[p].stage = "read settings"
      BY <2>3, StartStep
    <3>3. Leaves(p)'
      BY <3>2 DEF Leaves, PastSettings, PastConfig
    <3> QED
      BY <1>1, <1>2, <2>2, <3>1, <3>3
  <2>4. CASE ReadSettings(p)
    <3>1. settings' = settings /\ config' = config /\ settled' = settled
      BY <2>4 DEF ReadSettings, files, history
    <3>2. init'[p].stage \in {"write settings", "off"}
      BY <2>4, OffType DEF ReadSettings, TypeInv, Memory
    <3>3. Leaves(p)'
      BY <3>2 DEF Leaves, PastSettings, PastConfig
    <3> QED
      BY <1>1, <1>2, <2>2, <3>1, <3>3
  <2>5. CASE NothingMissing(p)
    <3>1. /\ settings' = settings /\ config' = config /\ settled' = settled
          /\ init[p].stage = "write settings" /\ ClaudeHooks(init[p].text, init[p].nd7) = <<>>
      BY <2>5 DEF NothingMissing, files, history
    <3>2. ~ raced => AllInstalled(settings)
      <4>1. ~ raced => init[p].text = settings
        BY <2>0, <3>1 DEF FreshInv, Holding
      <4>2. AllInstalled(settings \o ClaudeHooks(settings, init[p].nd7)) /\ settings \o <<>> = settings
        BY MemoryHas, HooksDo, ConcatEmptySeq DEF Texts
      <4> QED
        BY <3>1, <4>1, <4>2
    <3>3. init'[p].stage = AfterSettings(p)
      BY <2>5, SettingsMemory DEF SettingsStep
    <3>4. raced' \/ Leaves(p)'
      <4>1. init'[p].stage \notin PastConfig \/ "codex" \notin init'[p].agents
        <5>1. init'[p].agents = init[p].agents
          BY <2>5, GotoType DEF NothingMissing, AfterSettings, Stages
        <5> QED
          BY <3>3, <5>1 DEF AfterSettings, PastConfig
      <4> QED
        BY <2>0, <3>1, <3>2, <4>1 DEF Leaves
    <3> QED
      BY <1>1, <1>2, <2>2, <3>1, <3>4
  <2>12. CASE OpenTmp(p) \/ FillPart(p) \/ FillTmp(p)
    <3>1. settings' = settings
      <4>1. ~ RenameTmp(p)
        BY <2>12 DEF OpenTmp, BeginWrite, FillPart, FillTmp, RenameTmp
      <4> QED
        BY <1>2, <2>0, <4>1, SettingsMove
    <3>2. config' = config /\ settled' = settled
      BY <2>12, SettingsAlone DEF SettingsStep
    <3>3. init'[p].stage \in Writing
      BY <2>12, SettingsMemory DEF SettingsStep
    <3>4. Leaves(p)'
      BY <3>3 DEF Leaves, PastSettings, PastConfig, Writing
    <3> QED
      BY <1>1, <1>2, <2>2, <3>1, <3>2, <3>4
  <2>13. CASE RenameTmp(p)
    <3>1. /\ config' = config /\ settled' = settled /\ init[p].stage \in Holding
          /\ init[p].stage = "rename settings"
      BY <2>13, SettingsAlone DEF SettingsStep, RenameTmp, Holding, Writing
    <3>2. CASE raced
      <4>1. settled' = NoBinary
        BY <2>1, <3>1, <3>2 DEF Settles
      <4> QED
        BY <1>1, <1>2, <2>0, <3>2, <4>1
    <3>3. CASE ~ raced
      <4> DEFINE h == ClaudeHooks(settings, init[p].nd7)
      <4>1. init[p].text = settings
        BY <2>0, <3>1, <3>3 DEF FreshInv
      <4>2. AllInstalled(settings \o h) /\ (AllInstalled(settings) => h = <<>>) /\ settings \o <<>> = settings
        <5>1. settings \o <<>> = settings
          BY MemoryHas, ConcatEmptySeq DEF Texts
        <5> QED
          BY <5>1, MemoryHas, HooksDo
      <4>3. settings' = settings \/ settings' = settings \o h
        BY <1>2, <2>0, <4>1, SettingsMove DEF NewSettings
      <4> HIDE DEF h
      <4>4. settled' # NoBinary => Settles(settled)'
        <5>1. settled # NoBinary => settings' = settings
          BY <2>1, <4>2, <4>3 DEF Settles
        <5> QED
          BY <2>2, <3>1, <5>1
      <4>5. init'[p].stage = AfterSettings(p) /\ init'[p].agents = init[p].agents
        BY <2>13, GotoType DEF RenameTmp, AfterSettings, Stages
      <4>6. Leaves(p)'
        <5>1. settings' = settings \o h
          <6>1. settings' = NewSettings(p)
            <7>1. tmp = {NewSettings(p)}
              BY <2>0, <3>1 DEF TmpInv, OpenIs
            <7> QED
              BY <2>13, <7>1 DEF RenameTmp
          <6> QED
            BY <4>1, <6>1 DEF NewSettings, h
        <5>2. AllInstalled(settings)'
          BY <4>2, <5>1 DEF AllInstalled, Installed, Hooks
        <5> QED
          BY <4>5, <5>2 DEF Leaves, AfterSettings, PastConfig
      <4> QED
        BY <1>1, <1>2, <4>4, <4>6
    <3> QED
      BY <3>2, <3>3
  <2>6. CASE ReadConfig(p)
    <3>1. settings' = settings /\ config' = config /\ settled' = settled /\ init[p].stage = "read config"
      BY <2>6 DEF ReadConfig, files, history
    <3>2. init'[p].stage = "append config" /\ init'[p].agents = init[p].agents
      BY <2>6 DEF ReadConfig, TypeInv, Memory
    <3>3. raced' \/ Leaves(p)'
      BY <2>0, <2>1, <3>1, <3>2 DEF Leaves, PastSettings, PastConfig
    <3> QED
      BY <1>1, <1>2, <2>2, <3>1, <3>3
  <2>7. CASE AppendConfig(p)
    <3>1. /\ settings' = settings /\ settled' = settled /\ init[p].stage = "append config"
          /\ config' = config \o Addition(init[p].text, init[p].nd7)
      BY <2>7 DEF AppendConfig, history
    <3>2. CASE raced
      <4>1. settled' = NoBinary
        BY <2>1, <3>1, <3>2 DEF Settles
      <4> QED
        BY <1>1, <1>2, <2>0, <3>2, <4>1
    <3>3. CASE ~ raced
      <4>1. init[p].text = config
        BY <2>0, <3>1, <3>3 DEF FreshInv
      <4>2. /\ AllInstalled(config') /\ AllApproved(config', init[p].nd7)
            /\ AllInstalled(config) => \A n : AllApproved(config, n) => AllApproved(config', n)
        BY <3>1, <4>1, MemoryHas, AdditionDoes
      <4>3. settled' # NoBinary => Settles(settled)'
        <5> SUFFICES ASSUME settled # NoBinary
                     PROVE  /\ ~ raced' /\ AllInstalled(settings')
                            /\ AllInstalled(config') /\ AllApproved(config', settled')
          BY <3>1 DEF Settles
        <5> QED
          BY <2>0, <2>1, <3>1, <4>2 DEF Settles
      <4>4. /\ init'[p].stage = "read rc" /\ init'[p].agents = init[p].agents
            /\ init'[p].nd7 = init[p].nd7
        BY <2>7, GotoType DEF AppendConfig, Stages
      <4>5. Leaves(p)'
        <5>1. AllInstalled(config') /\ AllApproved(config', init'[p].nd7)
          BY <4>2, <4>4
        <5>2. "claude" \in init'[p].agents => AllInstalled(settings')
          BY <2>1, <3>1, <3>3, <4>4 DEF Leaves, PastSettings
        <5> QED
          BY <5>1, <5>2 DEF Leaves
      <4> QED
        BY <1>1, <1>2, <4>3, <4>5
    <3> QED
      BY <3>2, <3>3
  <2>8. CASE AppendCutOff(p)
    <3>1. settled' = NoBinary
      BY <2>8 DEF AppendCutOff
    <3>2. init'[p].stage = "off"
      BY <2>8, OffStep DEF AppendCutOff
    <3>3. Leaves(p)'
      BY <3>2 DEF Leaves, PastSettings, PastConfig
    <3> QED
      BY <1>1, <1>2, <3>1, <3>3
  <2>9. CASE ReadRc(p)
    <3>1. settings' = settings /\ config' = config /\ settled' = settled /\ init[p].stage = "read rc"
      BY <2>9 DEF ReadRc, files, history
    <3>2. /\ init'[p].stage = "append rc" /\ init'[p].agents = init[p].agents
          /\ init'[p].nd7 = init[p].nd7
      BY <2>9, RcStep
    <3>3. raced' \/ Leaves(p)'
      BY <2>0, <2>1, <3>1, <3>2 DEF Leaves, PastSettings, PastConfig
    <3> QED
      BY <1>1, <1>2, <2>2, <3>1, <3>3
  <2>10. CASE AppendRc(p)
    <3>1. /\ settings' = settings /\ config' = config /\ init[p].stage = "append rc"
          /\ settled' = IF init[p].agents = Agents /\ ~ overlap /\ ~ raced
                        THEN init[p].nd7 ELSE settled
      BY <2>10 DEF AppendRc
    <3>2. init'[p].stage = "off"
      BY <2>10, OffStep DEF AppendRc
    <3>3. Leaves(p)'
      BY <3>2 DEF Leaves, PastSettings, PastConfig
    <3>4. CASE init[p].agents = Agents /\ ~ raced
      <4>1. Leaves(p) /\ "claude" \in init[p].agents /\ "codex" \in init[p].agents
        BY <2>1, <3>4 DEF Agents
      <4>2. Settles(init[p].nd7)
        BY <3>1, <3>4, <4>1 DEF Leaves, Settles, PastSettings, PastConfig
      <4>3. settled' = init[p].nd7
        BY <2>0, <3>1, <3>4
      <4>4. Settles(settled)'
        BY <2>0, <3>1, <4>2, <4>3 DEF Settles
      <4> QED
        BY <1>1, <1>2, <3>3, <4>4
    <3>5. CASE ~ (init[p].agents = Agents /\ ~ raced)
      <4>1. settled' = settled
        BY <3>1, <3>5
      <4> QED
        BY <1>1, <1>2, <2>2, <3>1, <3>3, <4>1
    <3> QED
      BY <3>4, <3>5
  <2>11. CASE KillInit(p) \/ RenameFails(p)
    <3>1. settings' = settings /\ config' = config /\ settled' = settled
      BY <2>11 DEF KillInit, RenameFails, files, history
    <3>2. init'[p].stage = "off"
      BY <2>11, OffStep DEF KillInit, RenameFails, End
    <3>3. Leaves(p)'
      BY <3>2 DEF Leaves, PastSettings, PastConfig
    <3> QED
      BY <1>1, <1>2, <2>2, <3>1, <3>3
  <2> QED
    BY <1>2, <2>3, <2>4, <2>5, <2>6, <2>7, <2>8, <2>9, <2>10, <2>11, <2>12, <2>13
       DEF InitStep
<1>3. CASE Edits
  <2>1. settled' = NoBinary /\ init' = init /\ (~ raced' => \A p \in Inits : init[p].stage = "off")
    BY <1>3, EditAlone
  <2>2. ASSUME ~ raced', NEW p \in Inits PROVE Leaves(p)'
    <3>1. init'[p].stage = "off"
      BY <2>1, <2>2
    <3> QED
      BY <3>1 DEF Leaves, PastSettings, PastConfig
  <2> QED
    BY <2>1, <2>2
<1>4. CASE UNCHANGED vars
  <2>1. (settled # NoBinary => Settles(settled)) /\ (raced \/ \A p \in Inits : Leaves(p))
    BY <1>4, SettledParts DEF vars, history
  <2> QED
    BY <1>4, <2>1 DEF vars, files, history, Settles, Leaves
<1> QED
  BY <1>2, <1>3, <1>4, NextCases

-----------------------------------------------------------------------------
(* The theorems.                                                           *)

LEMMA InitInv == Init => IInv
<1> SUFFICES ASSUME Init PROVE IInv
  OBVIOUS
<1>1. /\ settings = <<>> /\ config = <<>> /\ rc = 0 /\ init = [p \in Inits |-> Off]
      /\ own = {} /\ settled = NoBinary
      /\ tmp = {} /\ open = [p \in Inits |-> "none"] /\ mixed = {}
      /\ overlap = FALSE /\ shared = FALSE /\ raced = FALSE /\ cut = FALSE /\ moved = FALSE
      /\ starts = 0 /\ edits = 0 /\ failures = 0
  BY DEF Init
<1>2. \A p \in Inits : init[p] \in Memory /\ init[p].stage = "off"
  BY <1>1, OffType
<1>3. init \in [Inits -> Memory]
  BY <1>1, OffType
<1>4. <<>> \in Texts /\ NoBinary \in Paths
  BY DEF Texts, Paths
<1>5. TypeInv
  BY <1>1, <1>2, <1>3, <1>4 DEF TypeInv
<1>6. AloneInv /\ FreshInv /\ OwnInv /\ SettledInv
  BY <1>1, <1>2 DEF AloneInv, Active, FreshInv, OwnInv, HasOwn, SettledInv, PastSettings,
                    PastConfig, Holding, Writing
<1>9. TmpInv
  BY <1>1, <1>2 DEF TmpInv, OpenIs, Writing
<1>7. Hooks(<<>>) = {} /\ Trusts(<<>>) = {}
  BY DEF Hooks, Trusts
<1>8. HashInv /\ NoDuplicateTables /\ OneHookEach /\ PlacedInv
  <2>1. Hashed(<<>>) /\ Valid(<<>>) /\ Once(<<>>) /\ Placed(<<>>)
    BY <1>7 DEF Hashed, Valid, Once, Placed
  <2> QED
    BY <1>1, <2>1 DEF HashInv, NoDuplicateTables, OneHookEach, PlacedInv
<1> QED
  BY <1>5, <1>6, <1>8, <1>9 DEF IInv

LEMMA StepInv == IInv /\ [Next]_vars => IInv'
<1> SUFFICES ASSUME IInv, [Next]_vars PROVE IInv'
  OBVIOUS
<1>1. /\ TypeInv /\ AloneInv /\ TmpInv /\ FreshInv /\ HashInv
      /\ NoDuplicateTables /\ OneHookEach /\ OwnInv /\ PlacedInv /\ SettledInv
  BY DEF IInv
<1>2. TypeInv' /\ AloneInv' /\ TmpInv' /\ FreshInv' /\ HashInv'
  BY <1>1, TypeStep, AloneStep, TmpStep, FreshStep, HashStep
<1>3. NoDuplicateTables' /\ OneHookEach'
  BY <1>1, DuplicateStep, OnceStep
<1>4. OwnInv' /\ PlacedInv' /\ SettledInv'
  BY <1>1, OwnStep, PlacedStep, SettledStep
<1> QED
  BY <1>2, <1>3, <1>4 DEF IInv

(* The invariant holds throughout, whoever runs nd7 init from whichever    *)
(* checkout, and whoever edits the files.                                  *)
THEOREM AgentConfigInvariant == Spec => []IInv
  BY InitInv, StepInv, PTL DEF Spec

(* install_codex never gives a table twice: what it appends is keyed by    *)
(* the places of hooks that have no approval, and no two hooks of an event *)
(* have the same place, wherever in the file they stand.                   *)
THEOREM TablesOnce == Spec => []NoDuplicateTables
<1>1. IInv => NoDuplicateTables
  BY DEF IInv
<1> QED
  BY <1>1, AgentConfigInvariant, PTL

(* install_claude, install_codex and source_aliases leave one hook of each *)
(* kind for an event and one line in the rc, after any number of calls of  *)
(* any number of checkouts, each of which may be killed or cut off.        *)
THEOREM HooksOnce == Spec => []OneHookEach
<1>1. IInv => OneHookEach
  BY DEF IInv
<1> QED
  BY <1>1, AgentConfigInvariant, PTL

(* install_claude writes the whole file, and every hook of the user's own  *)
(* is in what it writes, even when two inits overlap; what write_atomic    *)
(* renames is all of it, unless two had opened the temporary.              *)
THEOREM UserHooksStay == Spec => []OwnHooksKept
<1>1. IInv => OwnHooksKept
  BY DEF IInv, OwnInv, HasOwn, OwnHooksKept
<1> QED
  BY <1>1, AgentConfigInvariant, PTL

(* Where codex_hooks_trusted finds an approval at the place of one of      *)
(* nd7's hooks, in a file Codex can read, Codex finds that very hook's     *)
(* hash: no other hook has that place, and the hook that has it is         *)
(* approved.                                                               *)
THEOREM TrustedIsApproved == Spec => []TrustedIsApprovedUnlessMoved
<1>1. IInv => TrustedIsApprovedUnlessMoved
  <2> SUFFICES ASSUME IInv, NEW nd7 \in Binaries, HooksTrusted(config, nd7),
                      Readable(config), ~ (moved \/ raced \/ overlap), NEW i \in Ours(config, nd7)
               PROVE  Approved(config, i)
    BY DEF TrustedIsApprovedUnlessMoved
  <2>1. config \in Texts /\ Placed(config)
    BY DEF IInv, TypeInv, PlacedInv
  <2>2. Key(config, i) \in KeysPresent(config)
    BY DEF HooksTrusted
  <2>3. PICK j \in Trusts(config) :
            config[j].command \notin Partial /\ Key(config, i) = <<config[j].event, config[j].at>>
    BY <2>2 DEF KeysPresent, Readable, Partial, Trusts
  <2>4. PICK k \in Hooks(config) : Covers(config, k, j)
    BY <2>1, <2>3 DEF Placed
  <2>5. Key(config, k) = Key(config, i) /\ i \in Hooks(config)
    BY <2>3, <2>4 DEF Covers, Ours
  <2>6. k = i
    BY <2>1, <2>5, PlaceApart
  <2> QED
    BY <2>4, <2>6 DEF Covers
<1> QED
  BY <1>1, AgentConfigInvariant, PTL

(* After a call for both agents that nothing disturbed, another call of    *)
(* the same nd7 finds every hook installed and every place approved, and   *)
(* neither calls write_atomic nor appends anything.                        *)
THEOREM SecondInitIsIdle == Spec => SecondInitWritesNothing
<1>1. ASSUME IInv, NEW p \in Inits, settled # NoBinary, init[p].nd7 = settled, ~ overlap
      PROVE  (AppendConfig(p) => UNCHANGED config) /\ ~ OpenTmp(p)
  <2>1. TypeInv /\ FreshInv /\ SettledInv
    BY <1>1 DEF IInv
  <2>2. Settles(init[p].nd7)
    BY <1>1, <2>1, SettledParts
  <2>3. /\ init[p].stage = "write settings" => init[p].text = settings
        /\ init[p].stage = "append config" => init[p].text = config
    BY <1>1, <2>1, <2>2 DEF FreshInv, Settles, Holding
  <2>4. settings \in Texts /\ config \in Texts /\ init[p].nd7 \in Paths
    BY <2>1, MemoryHas
  <2>5. ASSUME AppendConfig(p) PROVE config' = config
    <3>1. config' = config \o Addition(config, init[p].nd7)
      BY <2>3, <2>5 DEF AppendConfig
    <3>2. Addition(config, init[p].nd7) = <<>>
      BY <2>2, <2>4, AdditionDoes DEF Settles
    <3> QED
      BY <2>4, <3>1, <3>2, ConcatEmptySeq DEF Texts
  <2>6. ~ OpenTmp(p)
    <3>1. ClaudeHooks(settings, init[p].nd7) = <<>>
      BY <2>2, <2>4, HooksDo DEF Settles
    <3> QED
      BY <2>3, <3>1 DEF OpenTmp, BeginWrite
  <2> QED
    BY <2>5, <2>6
<1>2. IInv /\ [Next]_vars =>
          [\A p \in Inits :
               settled # NoBinary /\ init[p].nd7 = settled /\ ~ overlap
                   => /\ AppendConfig(p) => UNCHANGED config
                      /\ ~ OpenTmp(p)]_vars
  BY <1>1
<1> QED
  BY <1>2, AgentConfigInvariant, PTL DEF Spec, SecondInitWritesNothing
=============================================================================
