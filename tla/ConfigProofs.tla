---------------------------- MODULE ConfigProofs ----------------------------
(***************************************************************************)
(* Proofs about ConfigModules: over any history of modules that are loaded *)
(* and unloaded, of virtual hosts and directives, the list of modules, the *)
(* hash of commands and the slots of the configuration vectors agree.      *)
(***************************************************************************)
EXTENDS ConfigModules, FiniteSetTheorems, SequenceTheorems, WellFoundedInduction, TLAPS

\* The number of slots there can be.
Most == Len(Preloaded) + DYNAMIC_MODULE_LIMIT + 1

ListType ==
  [top : Modules \cup {None}, loaded : Seq(Modules), hash : Seq(Modules), total : Int, dynamic : Int,
   max : Int, length : Int, reserved : Int]
RegistryType ==
  [mods : [Modules -> [index : Int, next : Modules \cup {None}]], list : ListType,
   cache : [names : [0..Most - 1 -> Modules \cup {None}], mergers : [0..Most - 1 -> Modules \cup {None}]]]

\* The modules A are chained from top, the last one first.
Linked(M, top, A) ==
  /\ top = IF A = <<>> THEN None ELSE A[Len(A)]
  /\ \A i \in 1..Len(A) : M[A[i]].next = IF i = 1 THEN None ELSE A[i - 1]

\* The modules compiled in have the first slots, those loaded, L, the next ones, others none.
Indexed(M, L) ==
  /\ \A i \in 1..Len(Preloaded) : M[Preloaded[i]].index = i - 1
  /\ \A k \in 1..Len(L) : M[L[k]].index = Len(Preloaded) + k - 1
  /\ \A m \in Modules : \/ M[m].index = -1
                        \/ \E i \in 1..Len(Preloaded) : m = Preloaded[i]
                        \/ \E k \in 1..Len(L) : m = L[k]

\* The registry S = [mods, list, cache] when the modules A are active and L are loaded.
Registered(S, A, L) ==
  /\ S \in RegistryType
  /\ A \in Seq(Modules) /\ L \in Seq(Modules) /\ Len(L) <= DYNAMIC_MODULE_LIMIT
  /\ \A i, j \in 1..Len(A) : A[i] = A[j] => i = j
  /\ \A i \in 1..Len(A) : S.mods[A[i]].index # -1
  /\ Linked(S.mods, S.list.top, A)
  /\ \A m \in Modules : (\A i \in 1..Len(A) : A[i] # m) => S.mods[m].next = None
  /\ Indexed(S.mods, L)
  /\ S.list.total = Len(Preloaded) + Len(L) /\ S.list.dynamic = Len(L) /\ S.list.max = Most
  /\ \A i \in 1..Len(A) :
       S.cache.names[S.mods[A[i]].index] = A[i] /\ S.cache.mergers[S.mods[A[i]].index] = A[i]

\* Server s while the configuration is read, with vectors of n slots or more.
Vector(v, n) == v = [i \in 0..n - 1 |-> v[i]]
ServerSound(of, n) ==
  /\ of = [config |-> of.config, dir |-> of.dir, log |-> of.log]
  /\ of.log = [level |-> of.log.level, modules |-> of.log.modules]
  /\ \E k \in Nat : k >= n /\ Vector(of.config, k) /\ Vector(of.dir, k)
  /\ of.log.modules = <<>> \/ Vector(of.log.modules, n)
ServersSound ==
  /\ servers \in Seq(ToSet(servers)) /\ Len(servers) > 0
  /\ \A s \in 1..Len(servers) : ServerSound(servers[s], list.length)
  /\ phase = "read" => \A s \in 1..Len(servers) : servers[s].log.modules = <<>>

IInv ==
  /\ Registered(Registry, Prelinked \o Loaded, Loaded)
  /\ list.loaded = Preloaded \o Loaded /\ list.hash = Reverse(Prelinked \o Loaded)
  /\ list.reserved \in Nat /\ list.total <= list.length /\ list.length <= list.max
  /\ phase \in {"read", "config", "serve"} /\ (phase = "read" => list.length = list.max)
  /\ phase # "serve" => ServersSound
  /\ wild = FALSE

\* What server s has made for module m, with the directives made.
Own(makers, made, s, m) == IF m \in makers /\ (s = 1 \/ <<s, m>> \in made) THEN Made(m, s) ELSE <<>>

\* The vectors of server s hold what it made for the modules A, and the slots nobody has are empty.
Filled(of, s, M, A, made, t, n) ==
  /\ \A m \in A : /\ of.config[M[m].index] = Own(PerServer, made, s, m)
                  /\ of.dir[M[m].index] = Own(PerDir, made, s, m)
  /\ \A i \in t..n - 1 : of.config[i] = <<>> /\ of.dir[i] = <<>>

\* The level of slot i, and that of a server nothing was said of.
LevelAt(l, i) == IF l.modules = <<>> \/ l.modules[i] < 0 THEN l.level ELSE l.modules[i]
Default(s) == IF s = 1 THEN DEFAULT_LOGLEVEL ELSE UNSET

\* The log of server s has for each of the modules A the level that was last said.
LogSound(l, s, M, A, levels, t, n) ==
  /\ l.level = Said(levels, s, None, Default(s))
  /\ \A m \in A : LevelAt(l, M[m].index) = Said(levels, s, m, Default(s))
  /\ l.modules # <<>> =>
       /\ \A i \in 0..n - 1 : l.modules[i] \in {UNSET, NO_MODULE, 1, 7} /\ (l.level = UNSET => l.modules[i] # NO_MODULE)
       /\ \A i \in t..n - 1 : l.modules[i] < 0

\* What directives said is about servers and modules there are.
SaidSound(p, N, A) ==
  /\ p = [said |-> p.said, restarts |-> p.restarts]
  /\ p.said = [levels |-> p.said.levels, made |-> p.said.made, directives |-> p.said.directives]
  /\ p.said.made \subseteq (2..N) \X A
  /\ p.said.levels \in Seq([server : 1..N, of : A \cup {None}, level : {1, 7}])

ReadSound ==
  /\ SaidSound(past, Len(servers), Active)
  /\ \A s \in 1..Len(servers) :
       /\ Filled(servers[s], s, mods, Active, past.said.made, list.total, list.length)
       /\ LogSound(servers[s].log, s, mods, Active, past.said.levels, list.total, list.length)
MInv == (phase # "serve" => ReadSound) /\ ConfigsMerged

----------------------------------------------------------------------------
(* Numbers. *)

\* A set of numbers has a least element.
LEMMA LeastOf ==
  ASSUME NEW S, S \subseteq Nat, S # {}
  PROVE  Min(S) \in S /\ \A j \in S : Min(S) <= j
<1>1. PICK x \in S : \A y \in S : ~ (<<y, x>> \in OpToRel(<, Nat))
  BY NatLessThanWellFounded, WFMin
<1>2. \A y \in S : x <= y
  <2> SUFFICES ASSUME NEW y \in S PROVE x <= y
    OBVIOUS
  <2>1. x \in Nat /\ y \in Nat
    OBVIOUS
  <2>2. ~ (<<y, x>> \in {ss \in Nat \X Nat : ss[1] < ss[2]})
    BY <1>1 DEF OpToRel
  <2>3. ~ (y < x)
    BY <2>1, <2>2
  <2>4. QED
    BY <2>1, <2>3
<1>3. QED
  BY <1>2 DEF Min

\* A set that holds 0 and with each number the next one holds all up to n.
LEMMA AllUpTo ==
  ASSUME NEW n \in Nat, NEW S, 0 \in S, \A i \in 1..n : i - 1 \in S => i \in S
  PROVE  0..n \subseteq S
<1> DEFINE Out == 0..n \ S
<1> SUFFICES ASSUME Out # {} PROVE FALSE
  OBVIOUS
<1>1. Out \subseteq Nat
  OBVIOUS
<1>2. Min(Out) \in Out /\ \A j \in Out : Min(Out) <= j
  BY <1>1, LeastOf
<1>3. Min(Out) \in 1..n
  BY <1>2
<1>4. Min(Out) - 1 \in S
  BY <1>2, <1>3
<1>5. QED
  BY <1>2, <1>3, <1>4

\* AllAdded adds one module after the other, and AllRemoved removes them.
LEMMA AddedSteps ==
  ASSUME NEW S, NEW ms, Len(ms) \in Nat
  PROVE  \E f : /\ f[0] = S /\ AllAdded(S, ms) = f[Len(ms)]
                /\ \A k \in 1..Len(ms) : f[k] = ap_add_module(f[k - 1], ms[k])
<1> DEFINE n == Len(ms)
           Step(v, k) == ap_add_module(v, ms[k])
           Steps(f, k) == f = [i \in 0..k |-> IF i = 0 THEN S ELSE Step(f[i - 1], i)]
           Ok == {k \in 0..n : \E f : Steps(f, k)}
           last == CHOOSE f : Steps(f, n)
<1> HIDE DEF Step
<1>1. 0 \in Ok
  <2> DEFINE f == [i \in 0..0 |-> S]
  <2>1. f = [i \in 0..0 |-> IF i = 0 THEN S ELSE Step(f[i - 1], i)]
    OBVIOUS
  <2>2. Steps(f, 0)
    BY <2>1
  <2> HIDE DEF f, Steps
  <2>3. QED
    BY <2>2
<1>2. ASSUME NEW k \in 1..n, k - 1 \in Ok PROVE k \in Ok
  <2>1. PICK f : Steps(f, k - 1)
    BY <1>2
  <2> DEFINE g == [i \in 0..k |-> IF i = k THEN Step(f[k - 1], k) ELSE f[i]]
  <2>2. ASSUME NEW i \in 0..k PROVE g[i] = IF i = 0 THEN S ELSE Step(g[i - 1], i)
    <3>1. CASE i = k
      BY <3>1
    <3>2. CASE i # k
      <4>1. i \in 0..k - 1 /\ g[i] = f[i] /\ (i # 0 => g[i - 1] = f[i - 1])
        BY <3>2
      <4>2. f[i] = IF i = 0 THEN S ELSE Step(f[i - 1], i)
        BY <4>1, <2>1
      <4>3. QED
        BY <4>1, <4>2
    <3>3. QED
      BY <3>1, <3>2
  <2>3. g = [i \in 0..k |-> IF i = 0 THEN S ELSE Step(g[i - 1], i)]
    <3>1. g = [i \in 0..k |-> g[i]]
      OBVIOUS
    <3> HIDE DEF g
    <3>2. QED
      BY <2>2, <3>1
  <2>4. Steps(g, k)
    BY <2>3
  <2> HIDE DEF g, Steps
  <2>5. QED
    BY <2>4
<1>3. n \in Ok
  <2> HIDE DEF Ok
  <2>1. 0..n \subseteq Ok
    BY <1>1, <1>2, AllUpTo
  <2>2. QED
    BY <2>1
<1>4. \E f : Steps(f, n)
  BY <1>3
<1>5. Steps(last, n)
  <2> HIDE DEF Steps
  <2>1. QED
    BY <1>4
<1>6. AllAdded(S, ms) = last[n]
  BY DEF AllAdded, Step
<1> HIDE DEF last
<1>7. last[0] = S /\ \A k \in 1..n : last[k] = Step(last[k - 1], k)
  BY <1>5
<1>8. QED
  BY <1>6, <1>7 DEF Step

LEMMA RemovedSteps ==
  ASSUME NEW S, NEW ms, Len(ms) \in Nat
  PROVE  \E f : /\ f[0] = S /\ AllRemoved(S, ms) = f[Len(ms)]
                /\ \A k \in 1..Len(ms) : f[k] = ap_remove_loaded_module(f[k - 1], ms[k])
<1> DEFINE n == Len(ms)
           Step(v, k) == ap_remove_loaded_module(v, ms[k])
           Steps(f, k) == f = [i \in 0..k |-> IF i = 0 THEN S ELSE Step(f[i - 1], i)]
           Ok == {k \in 0..n : \E f : Steps(f, k)}
           last == CHOOSE f : Steps(f, n)
<1> HIDE DEF Step
<1>1. 0 \in Ok
  <2> DEFINE f == [i \in 0..0 |-> S]
  <2>1. f = [i \in 0..0 |-> IF i = 0 THEN S ELSE Step(f[i - 1], i)]
    OBVIOUS
  <2>2. Steps(f, 0)
    BY <2>1
  <2> HIDE DEF f, Steps
  <2>3. QED
    BY <2>2
<1>2. ASSUME NEW k \in 1..n, k - 1 \in Ok PROVE k \in Ok
  <2>1. PICK f : Steps(f, k - 1)
    BY <1>2
  <2> DEFINE g == [i \in 0..k |-> IF i = k THEN Step(f[k - 1], k) ELSE f[i]]
  <2>2. ASSUME NEW i \in 0..k PROVE g[i] = IF i = 0 THEN S ELSE Step(g[i - 1], i)
    <3>1. CASE i = k
      BY <3>1
    <3>2. CASE i # k
      <4>1. i \in 0..k - 1 /\ g[i] = f[i] /\ (i # 0 => g[i - 1] = f[i - 1])
        BY <3>2
      <4>2. f[i] = IF i = 0 THEN S ELSE Step(f[i - 1], i)
        BY <4>1, <2>1
      <4>3. QED
        BY <4>1, <4>2
    <3>3. QED
      BY <3>1, <3>2
  <2>3. g = [i \in 0..k |-> IF i = 0 THEN S ELSE Step(g[i - 1], i)]
    <3>1. g = [i \in 0..k |-> g[i]]
      OBVIOUS
    <3> HIDE DEF g
    <3>2. QED
      BY <2>2, <3>1
  <2>4. Steps(g, k)
    BY <2>3
  <2> HIDE DEF g, Steps
  <2>5. QED
    BY <2>4
<1>3. n \in Ok
  <2> HIDE DEF Ok
  <2>1. 0..n \subseteq Ok
    BY <1>1, <1>2, AllUpTo
  <2>2. QED
    BY <2>1
<1>4. \E f : Steps(f, n)
  BY <1>3
<1>5. Steps(last, n)
  <2> HIDE DEF Steps
  <2>1. QED
    BY <1>4
<1>6. AllRemoved(S, ms) = last[n]
  BY DEF AllRemoved, Step
<1> HIDE DEF last
<1>7. last[0] = S /\ \A k \in 1..n : last[k] = Step(last[k - 1], k)
  BY <1>5
<1>8. QED
  BY <1>6, <1>7 DEF Step

----------------------------------------------------------------------------
(* The chain of modules. *)

\* The modules that are linked are those the walk from the top meets.
LEMMA ChainedIs ==
  ASSUME NEW M, NEW top, NEW A \in Seq(Modules), Len(A) <= Most, Linked(M, top, A)
  PROVE  Chained(M, top) = Reverse(A)
<1> DEFINE n == Len(A)
           Size(k) == IF k + 1 <= n THEN k + 1 ELSE n
           Part(k) == [i \in 1..Size(k) |-> A[n + 1 - i]]
           First == IF top = None THEN <<>> ELSE <<top>>
           Longer(b) == IF b = <<>> \/ M[Last(b)].next = None THEN b ELSE Append(b, M[Last(b)].next)
           Eq(f) == f = [k \in 0..Most |-> IF k = 0 THEN First ELSE Longer(f[k - 1])]
           c == [k \in 0..Most |-> Part(k)]
           chain == CHOOSE f : Eq(f)
<1>1. /\ n \in Nat /\ Most \in Nat /\ None \notin Modules
      /\ \A i \in 1..n : A[i] \in Modules
  BY ConfigModulesAssumption DEF Most
<1>2. ASSUME NEW k \in Nat
      PROVE  /\ Part(k) \in Seq(Modules) /\ Len(Part(k)) = Size(k) /\ Size(k) \in Nat
             /\ \A i \in 1..Size(k) : Part(k)[i] = A[n + 1 - i]
  <2>1. Size(k) \in Nat /\ Size(k) <= n
    BY <1>1
  <2>2. \A i \in 1..Size(k) : A[n + 1 - i] \in Modules
    BY <1>1, <2>1
  <2> HIDE DEF Size
  <2>3. Part(k) \in [1..Size(k) -> Modules]
    BY <2>2
  <2>4. QED
    BY <2>1, <2>3
<1>3. Part(0) = First
  <2>1. CASE n = 0
    <3>1. top = None
      BY <2>1, <1>1 DEF Linked
    <3>2. Len(Part(0)) = 0 /\ Part(0) \in Seq(Modules)
      BY <2>1, <1>2
    <3> HIDE DEF Part
    <3>3. QED
      BY <3>1, <3>2
  <2>2. CASE n # 0
    <3>1. top = A[n] /\ top \in Modules /\ top # None
      BY <2>2, <1>1 DEF Linked
    <3>2. Part(0) \in Seq(Modules) /\ Len(Part(0)) = 1 /\ Part(0)[1] = A[n]
      BY <2>2, <1>1, <1>2
    <3> HIDE DEF Part
    <3>3. QED
      BY <3>1, <3>2
  <2>3. QED
    BY <2>1, <2>2
<1>4. ASSUME NEW k \in 1..Most PROVE Part(k) = Longer(Part(k - 1))
  <2> DEFINE b == Part(k - 1)
  <2>1. /\ b \in Seq(Modules) /\ Len(b) = Size(k - 1)
        /\ \A i \in 1..Size(k - 1) : b[i] = A[n + 1 - i]
    <3>1. k - 1 \in Nat
      OBVIOUS
    <3> HIDE DEF Part, Size
    <3>2. QED
      BY <3>1, <1>2
  <2>2. /\ Part(k) \in Seq(Modules) /\ Len(Part(k)) = Size(k)
        /\ \A i \in 1..Size(k) : Part(k)[i] = A[n + 1 - i]
    <3>1. k \in Nat
      BY <1>1
    <3> HIDE DEF Part, Size
    <3>2. QED
      BY <3>1, <1>2
  <2> HIDE DEF b, Part
  <2>3. CASE n = 0
    <3>1. b = <<>> /\ Part(k) = <<>>
      BY <2>1, <2>2, <2>3
    <3>2. QED
      BY <3>1 DEF b
  <2>4. CASE n # 0 /\ k < n
    <3>1. Size(k - 1) = k /\ Size(k) = k + 1
      BY <2>4, <1>1
    <3>2. Last(b) = A[n + 1 - k] /\ b # <<>>
      BY <2>1, <3>1, <2>4 DEF Last
    <3>3. M[A[n + 1 - k]].next = A[n - k] /\ A[n - k] \in Modules
      BY <2>4, <1>1 DEF Linked
    <3>4. Longer(b) = Append(b, A[n - k])
      BY <3>2, <3>3, <1>1
    <3>5. Append(b, A[n - k]) = Part(k)
      BY <2>1, <2>2, <3>1, <3>3, <2>4, <1>1
    <3>6. QED
      BY <3>4, <3>5 DEF b
  <2>5. CASE n # 0 /\ k >= n
    <3>1. Size(k - 1) = n /\ Size(k) = n
      BY <2>5, <1>1
    <3>2. Last(b) = A[1] /\ b # <<>>
      BY <2>1, <3>1, <2>5, <1>1 DEF Last
    <3>3. M[A[1]].next = None
      BY <2>5, <1>1 DEF Linked
    <3>4. Longer(b) = b
      BY <3>2, <3>3
    <3>5. b = Part(k)
      BY <2>1, <2>2, <3>1
    <3>6. QED
      BY <3>4, <3>5 DEF b
  <2>6. QED
    BY <2>3, <2>4, <2>5, <1>1
<1> HIDE DEF Part, Longer, First
<1>5. Eq(c)
  <2>1. \A k \in 0..Most : c[k] = IF k = 0 THEN First ELSE Longer(c[k - 1])
    BY <1>1, <1>3, <1>4
  <2>2. c = [k \in 0..Most |-> c[k]]
    OBVIOUS
  <2> HIDE DEF c
  <2>3. QED
    BY <2>1, <2>2
<1>6. Eq(chain)
  <2> HIDE DEF Eq, c
  <2>1. QED
    BY <1>5
<1>7. Chained(M, top) = chain[Most]
  BY DEF Chained, Longer, First, Most
<1> HIDE DEF chain
<1>8. chain[Most] = c[Most]
  <2> DEFINE Same == {k \in 0..Most : chain[k] = c[k]}
  <2>1. 0 \in Same
    <3> HIDE DEF c
    <3>1. chain[0] = First /\ c[0] = First
      BY <1>1, <1>5, <1>6
    <3>2. QED
      BY <1>1, <3>1
  <2>2. ASSUME NEW k \in 1..Most, k - 1 \in Same PROVE k \in Same
    <3> HIDE DEF c
    <3>1. chain[k] = Longer(chain[k - 1]) /\ c[k] = Longer(c[k - 1])
      BY <1>1, <1>5, <1>6
    <3>2. QED
      BY <3>1, <2>2
  <2> HIDE DEF Same
  <2>3. 0..Most \subseteq Same
    BY <1>1, <2>1, <2>2, AllUpTo
  <2>4. QED
    BY <1>1, <2>3 DEF Same
<1>9. c[Most] = Reverse(A)
  <2>1. Size(Most) = n
    BY <1>1
  <2>2. QED
    BY <1>1, <2>1 DEF Part, Reverse
<1>10. QED
  BY <1>7, <1>8, <1>9

----------------------------------------------------------------------------
(* Slots. *)

LEMMA IndexedApart ==
  ASSUME NEW M \in [Modules -> [index : Int, next : Modules \cup {None}]], NEW L \in Seq(Modules), Indexed(M, L)
  PROVE  /\ \A m \in Modules : M[m].index \in -1..Len(Preloaded) + Len(L) - 1
         /\ \A m, k \in Modules : M[m].index = M[k].index /\ M[m].index # -1 => m = k
<1>1. /\ Len(Preloaded) \in Nat /\ Len(L) \in Nat
      /\ \A i \in 1..Len(Preloaded) : Preloaded[i] \in Modules
      /\ \A k \in 1..Len(L) : L[k] \in Modules
  BY ConfigModulesAssumption
<1>2. \A m \in Modules :
        \/ M[m].index = -1
        \/ \E i \in 1..Len(Preloaded) : m = Preloaded[i] /\ M[m].index = i - 1
        \/ \E k \in 1..Len(L) : m = L[k] /\ M[m].index = Len(Preloaded) + k - 1
  BY DEF Indexed
<1>3. \A m \in Modules : M[m].index \in -1..Len(Preloaded) + Len(L) - 1
  BY <1>1, <1>2
<1>4. ASSUME NEW m \in Modules, NEW k \in Modules, M[m].index = M[k].index, M[m].index # -1
      PROVE  m = k
  <2>1. CASE \E i \in 1..Len(Preloaded) : m = Preloaded[i] /\ M[m].index = i - 1
    BY <1>1, <1>2, <1>4, <2>1
  <2>2. CASE \E i \in 1..Len(L) : m = L[i] /\ M[m].index = Len(Preloaded) + i - 1
    BY <1>1, <1>2, <1>4, <2>2
  <2>3. QED
    BY <1>2, <1>4, <2>1, <2>2
<1>5. QED
  BY <1>3, <1>4

\* The slot m gets when it is added, by how much the counts grow, and what is loaded then.
SlotOf(S, m) == IF S.mods[m].index = -1 THEN S.list.total ELSE S.mods[m].index
GrownBy(S, m) == IF S.mods[m].index = -1 THEN 1 ELSE 0
LoadedWith(S, L, m) == IF S.mods[m].index = -1 THEN Append(L, m) ELSE L

\* What ap_add_module does for a module that is not linked yet.
LEMMA AddIs ==
  ASSUME NEW S \in RegistryType, NEW m \in Modules, S.mods[m].next = None, SlotOf(S, m) \in 0..Most - 1
  PROVE  LET R == ap_add_module(S, m) IN
         /\ R \in RegistryType
         /\ R.mods = [S.mods EXCEPT ![m] = [index |-> SlotOf(S, m), next |-> S.list.top]]
         /\ R.list.total = S.list.total + GrownBy(S, m) /\ R.list.dynamic = S.list.dynamic + GrownBy(S, m)
         /\ R.list.top = m /\ R.list.hash = <<m>> \o S.list.hash
         /\ R.list.loaded = S.list.loaded /\ R.list.max = S.list.max
         /\ R.list.length = S.list.length /\ R.list.reserved = S.list.reserved
         /\ R.cache.names = [S.cache.names EXCEPT ![SlotOf(S, m)] = m]
         /\ R.cache.mergers = [S.cache.mergers EXCEPT ![SlotOf(S, m)] = m]
<1> DEFINE R == ap_add_module(S, m)
           index == SlotOf(S, m)
           d == GrownBy(S, m)
           hash == <<m>> \o S.list.hash
           total == S.list.total + d
           dynamic == S.list.dynamic + d
           l == [S.list EXCEPT !.total = total, !.dynamic = dynamic, !.top = m, !.hash = hash]
           M == [S.mods EXCEPT ![m] = [index |-> index, next |-> S.list.top]]
           C == [names |-> [S.cache.names EXCEPT ![index] = m], mergers |-> [S.cache.mergers EXCEPT ![index] = m]]
<1>1. /\ S.list \in ListType /\ S.mods \in [Modules -> [index : Int, next : Modules \cup {None}]]
      /\ S.cache.names \in [0..Most - 1 -> Modules \cup {None}]
      /\ S.cache.mergers \in [0..Most - 1 -> Modules \cup {None}]
  BY DEF RegistryType
<1>2. R = [mods |-> M, list |-> l, cache |-> C]
  BY <1>1 DEF ap_add_module, ListType, SlotOf, GrownBy
<1>3. hash \in Seq(Modules)
  BY <1>1 DEF ListType
<1>4. /\ total \in Int /\ dynamic \in Int /\ index \in 0..Most - 1
  BY <1>1 DEF ListType, GrownBy
<1> HIDE DEF hash, total, dynamic, index, d
<1>5. l \in ListType
  BY <1>1, <1>3, <1>4 DEF ListType
<1>6. /\ l.total = total /\ l.dynamic = dynamic /\ l.top = m /\ l.hash = hash
      /\ l.loaded = S.list.loaded /\ l.max = S.list.max /\ l.length = S.list.length /\ l.reserved = S.list.reserved
  BY <1>1 DEF ListType
<1>7. M \in [Modules -> [index : Int, next : Modules \cup {None}]]
  BY <1>1, <1>4 DEF ListType
<1>8. C \in [names : [0..Most - 1 -> Modules \cup {None}], mergers : [0..Most - 1 -> Modules \cup {None}]]
  BY <1>1, <1>4
<1> HIDE DEF l, M, R
<1>9. R.mods = M /\ R.list = l /\ R.cache = C
  BY <1>2
<1>10. R \in RegistryType
  BY <1>2, <1>7, <1>8, <1>5 DEF RegistryType
<1>11. QED
  BY <1>9, <1>10, <1>6 DEF R, M, hash, total, dynamic, index, d

\* A module that is added is the last of the chain and has a slot of its own: its old one when it
\* is compiled in, and the next one otherwise.
LEMMA AddKept ==
  ASSUME NEW S, NEW A, NEW L, Registered(S, A, L), NEW m \in Modules, \A i \in 1..Len(A) : A[i] # m,
         S.mods[m].index = -1 => Len(L) < DYNAMIC_MODULE_LIMIT
  PROVE  LET R == ap_add_module(S, m) IN
         /\ Registered(R, Append(A, m), LoadedWith(S, L, m))
         /\ R.mods[m].index = SlotOf(S, m)
         /\ R.list.hash = <<m>> \o S.list.hash /\ R.list.loaded = S.list.loaded
         /\ R.list.length = S.list.length /\ R.list.reserved = S.list.reserved
<1> DEFINE R == ap_add_module(S, m)
           B == Append(A, m)
           n == Len(A)
           d == GrownBy(S, m)
           index == SlotOf(S, m)
           N == Len(Preloaded)
           K == LoadedWith(S, L, m)
<1>1. /\ S \in RegistryType /\ A \in Seq(Modules) /\ L \in Seq(Modules) /\ Len(L) <= DYNAMIC_MODULE_LIMIT
      /\ \A i, j \in 1..n : A[i] = A[j] => i = j
      /\ \A i \in 1..n : S.mods[A[i]].index # -1
      /\ Linked(S.mods, S.list.top, A) /\ Indexed(S.mods, L)
      /\ \A x \in Modules : (\A i \in 1..n : A[i] # x) => S.mods[x].next = None
      /\ S.list.total = N + Len(L) /\ S.list.dynamic = Len(L) /\ S.list.max = Most
      /\ \A i \in 1..n : S.cache.names[S.mods[A[i]].index] = A[i] /\ S.cache.mergers[S.mods[A[i]].index] = A[i]
  BY DEF Registered
<1>2. /\ S.mods \in [Modules -> [index : Int, next : Modules \cup {None}]]
      /\ S.list.top \in Modules \cup {None} /\ S.list.total \in Int
      /\ S.cache.names \in [0..Most - 1 -> Modules \cup {None}]
      /\ S.cache.mergers \in [0..Most - 1 -> Modules \cup {None}]
  BY <1>1 DEF RegistryType, ListType
<1>3. /\ N \in Nat /\ n \in Nat /\ Len(L) \in Nat /\ Most = N + DYNAMIC_MODULE_LIMIT + 1
      /\ DYNAMIC_MODULE_LIMIT \in Nat
      /\ \A i \in 1..N : Preloaded[i] \in Modules
      /\ \A i \in 1..n : A[i] \in Modules
      /\ \A k \in 1..Len(L) : L[k] \in Modules
  BY <1>1, ConfigModulesAssumption DEF Most
<1>4. /\ \A x \in Modules : S.mods[x].index \in -1..N + Len(L) - 1
      /\ \A x, y \in Modules : S.mods[x].index = S.mods[y].index /\ S.mods[x].index # -1 => x = y
  BY <1>1, <1>2, IndexedApart
<1>5. index \in 0..Most - 1
  <2>1. CASE S.mods[m].index = -1
    BY <2>1, <1>1, <1>3 DEF SlotOf
  <2>2. CASE S.mods[m].index # -1
    BY <2>2, <1>1, <1>3, <1>4 DEF SlotOf
  <2>3. QED
    BY <2>1, <2>2
<1>6. /\ S.mods[m].next = None /\ d = IF S.mods[m].index = -1 THEN 1 ELSE 0
      /\ index = IF S.mods[m].index = -1 THEN S.list.total ELSE S.mods[m].index
  BY <1>1 DEF SlotOf, GrownBy
<1>7. /\ S.mods[m].index = -1 => K = Append(L, m) /\ Len(L) < DYNAMIC_MODULE_LIMIT
      /\ S.mods[m].index # -1 => K = L
  BY DEF LoadedWith
<1> HIDE DEF R, d, index, N, n, K
<1>8. /\ R \in RegistryType
      /\ R.mods = [S.mods EXCEPT ![m] = [index |-> index, next |-> S.list.top]]
      /\ R.list.total = S.list.total + d /\ R.list.dynamic = S.list.dynamic + d
      /\ R.list.top = m /\ R.list.hash = <<m>> \o S.list.hash
      /\ R.list.loaded = S.list.loaded /\ R.list.max = S.list.max
      /\ R.list.length = S.list.length /\ R.list.reserved = S.list.reserved
      /\ R.cache.names = [S.cache.names EXCEPT ![index] = m]
      /\ R.cache.mergers = [S.cache.mergers EXCEPT ![index] = m]
  <2>1. S \in RegistryType
    BY <1>1
  <2>2. QED
    BY <2>1, <1>5, <1>6, AddIs DEF R, d, index
<1>9. /\ B \in Seq(Modules) /\ Len(B) = n + 1 /\ B[n + 1] = m
      /\ \A i \in 1..n : B[i] = A[i]
  BY <1>1 DEF n
<1> HIDE DEF B
<1>10. /\ R.mods[m] = [index |-> index, next |-> S.list.top]
      /\ \A x \in Modules : x # m => R.mods[x] = S.mods[x]
  BY <1>2, <1>8
<1>11. /\ R.mods[m].index = index /\ R.mods[m].next = S.list.top
       /\ \A i \in 1..n : A[i] # m /\ R.mods[A[i]] = S.mods[A[i]]
  BY <1>3, <1>10 DEF n
<1>12. \A i, j \in 1..Len(B) : B[i] = B[j] => i = j
  BY <1>1, <1>3, <1>9, <1>11
<1>13. \A i \in 1..Len(B) : R.mods[B[i]].index # -1
  <2> SUFFICES ASSUME NEW i \in 1..Len(B) PROVE R.mods[B[i]].index # -1
    OBVIOUS
  <2>1. i = n + 1 \/ i \in 1..n
    BY <1>3, <1>9
  <2>2. QED
    BY <2>1, <1>1, <1>5, <1>9, <1>11
<1>14. Linked(R.mods, R.list.top, B)
  <2>1. R.list.top = B[Len(B)] /\ B # <<>>
    BY <1>3, <1>8, <1>9
  <2>2. ASSUME NEW i \in 1..Len(B) PROVE R.mods[B[i]].next = IF i = 1 THEN None ELSE B[i - 1]
    <3>1. CASE i = n + 1
      <4>1. S.list.top = IF n = 0 THEN None ELSE A[n]
        BY <1>1 DEF Linked, n
      <4>2. QED
        BY <3>1, <4>1, <1>3, <1>9, <1>11
    <3>2. CASE i \in 1..n
      <4>1. S.mods[A[i]].next = IF i = 1 THEN None ELSE A[i - 1]
        BY <3>2, <1>1 DEF Linked, n
      <4>2. i # 1 => i - 1 \in 1..n
        BY <3>2, <1>3
      <4>3. QED
        BY <3>2, <4>1, <4>2, <1>9, <1>11
    <3>3. QED
      BY <3>1, <3>2, <1>3, <1>9
  <2>3. QED
    BY <2>1, <2>2 DEF Linked
<1>15. ASSUME NEW x \in Modules, \A i \in 1..Len(B) : B[i] # x PROVE R.mods[x].next = None
  <2>1. x # m /\ \A i \in 1..n : A[i] # x
    BY <1>3, <1>9, <1>15
  <2>2. QED
    BY <2>1, <1>1, <1>10
<1>16. /\ K \in Seq(Modules) /\ Len(K) <= DYNAMIC_MODULE_LIMIT
       /\ R.list.total = N + Len(K) /\ R.list.dynamic = Len(K) /\ R.list.max = Most
  <2>1. CASE S.mods[m].index = -1
    <3>1. K \in Seq(Modules) /\ Len(K) = Len(L) + 1
      BY <2>1, <1>1, <1>7
    <3>2. QED
      BY <3>1, <2>1, <1>1, <1>3, <1>8, <1>6, <1>7, SMTT(30)
  <2>2. CASE S.mods[m].index # -1
    BY <2>2, <1>1, <1>3, <1>8, <1>6, <1>7
  <2>3. QED
    BY <2>1, <2>2
<1>17. Indexed(R.mods, K)
  <2>1. CASE S.mods[m].index = -1
    <3>1. /\ Len(K) = Len(L) + 1 /\ K[Len(L) + 1] = m /\ \A k \in 1..Len(L) : K[k] = L[k]
      BY <2>1, <1>1, <1>7
    <3>2. /\ \A i \in 1..N : Preloaded[i] # m /\ S.mods[Preloaded[i]].index = i - 1
          /\ \A k \in 1..Len(L) : L[k] # m /\ S.mods[L[k]].index = N + k - 1
      <4>1. /\ \A i \in 1..N : S.mods[Preloaded[i]].index = i - 1
            /\ \A k \in 1..Len(L) : S.mods[L[k]].index = N + k - 1
        BY <1>1 DEF Indexed, N
      <4>2. /\ \A i \in 1..N : S.mods[Preloaded[i]].index # -1
            /\ \A k \in 1..Len(L) : S.mods[L[k]].index # -1
        <5>1. N \in Nat /\ Len(L) \in Nat
          BY <1>3
        <5>2. QED
          BY <4>1, <5>1
      <4>3. QED
        BY <4>1, <4>2, <2>1
    <3>3. \A i \in 1..N : R.mods[Preloaded[i]].index = i - 1
      BY <3>2, <1>3, <1>10
    <3>4. \A k \in 1..Len(K) : R.mods[K[k]].index = N + k - 1
      <4> SUFFICES ASSUME NEW k \in 1..Len(K) PROVE R.mods[K[k]].index = N + k - 1
        OBVIOUS
      <4>1. CASE k = Len(L) + 1
        <5>1. K[k] = m /\ R.mods[m].index = index /\ index = S.list.total /\ S.list.total = N + Len(L)
          BY <4>1, <3>1, <2>1, <1>1, <1>6, <1>11
        <5>2. N \in Nat /\ Len(L) \in Nat
          BY <1>3
        <5>3. QED
          BY <4>1, <5>1, <5>2
      <4>2. CASE k \in 1..Len(L)
        <5>1. K[k] = L[k] /\ L[k] \in Modules /\ L[k] # m /\ S.mods[L[k]].index = N + k - 1
          BY <4>2, <3>1, <3>2, <1>3
        <5>2. QED
          BY <5>1, <1>10
      <4>3. QED
        BY <4>1, <4>2, <3>1, <1>3
    <3>5. ASSUME NEW x \in Modules
          PROVE  R.mods[x].index = -1 \/ (\E i \in 1..N : x = Preloaded[i]) \/ (\E k \in 1..Len(K) : x = K[k])
      <4>1. CASE x = m
        BY <4>1, <3>1, <1>3
      <4>2. CASE x # m
        <5>1. R.mods[x] = S.mods[x]
          BY <4>2, <1>10
        <5>2. S.mods[x].index = -1 \/ (\E i \in 1..N : x = Preloaded[i]) \/ (\E k \in 1..Len(L) : x = L[k])
          BY <1>1 DEF Indexed, N
        <5>3. \A k \in 1..Len(L) : k \in 1..Len(K) /\ K[k] = L[k]
          BY <3>1, <1>3
        <5>4. QED
          BY <5>1, <5>2, <5>3
      <4>3. QED
        BY <4>1, <4>2
    <3>6. QED
      BY <3>3, <3>4, <3>5 DEF Indexed, N
  <2>2. CASE S.mods[m].index # -1
    <3>1. \A x \in Modules : R.mods[x].index = S.mods[x].index
      BY <2>2, <1>10, <1>11, <1>6
    <3>2. K = L
      BY <2>2, <1>7
    <3>3. QED
      BY <3>1, <3>2, <1>1, <1>3 DEF Indexed, N
  <2>3. QED
    BY <2>1, <2>2
<1>18. ASSUME NEW i \in 1..Len(B)
       PROVE  R.cache.names[R.mods[B[i]].index] = B[i] /\ R.cache.mergers[R.mods[B[i]].index] = B[i]
  <2>1. CASE i = n + 1
    BY <2>1, <1>2, <1>5, <1>8, <1>9, <1>11
  <2>2. CASE i \in 1..n
    <3>1. /\ B[i] = A[i] /\ A[i] # m /\ R.mods[B[i]].index = S.mods[A[i]].index
          /\ A[i] \in Modules /\ S.mods[A[i]].index # -1
      BY <2>2, <1>1, <1>3, <1>9, <1>11
    <3>2. S.mods[A[i]].index # index
      <4>1. CASE S.mods[m].index = -1
        BY <4>1, <3>1, <1>1, <1>3, <1>4, <1>6
      <4>2. CASE S.mods[m].index # -1
        BY <4>2, <3>1, <1>4, <1>6
      <4>3. QED
        BY <4>1, <4>2
    <3>3. S.mods[A[i]].index \in 0..Most - 1
      <4>1. S.mods[A[i]].index \in -1..N + Len(L) - 1 /\ Len(L) <= DYNAMIC_MODULE_LIMIT
        BY <3>1, <1>1, <1>4
      <4>2. QED
        BY <4>1, <3>1, <1>3
    <3>4. S.cache.names[S.mods[A[i]].index] = A[i] /\ S.cache.mergers[S.mods[A[i]].index] = A[i]
      BY <2>2, <1>1
    <3>5. QED
      BY <3>1, <3>2, <3>3, <3>4, <1>2, <1>8
  <2>3. QED
    BY <2>1, <2>2, <1>3, <1>9
<1>19. Registered(R, B, K)
  BY <1>8, <1>9, <1>12, <1>13, <1>14, <1>15, <1>16, <1>17, <1>18 DEF Registered, N
<1>20. QED
  BY <1>6, <1>8, <1>11, <1>19 DEF R, B, K, index

\* Where an element is found in a sequence.
PlaceOf(s, x) == SelectInSeq(s, LAMBDA y : y = x)

\* It is found where there is one.
LEMMA FoundAt ==
  ASSUME NEW s, Len(s) \in Nat, NEW x
  PROVE  IF \E i \in 1..Len(s) : s[i] = x THEN PlaceOf(s, x) \in 1..Len(s) /\ s[PlaceOf(s, x)] = x
         ELSE PlaceOf(s, x) = 0
<1> DEFINE I == {i \in 1..Len(s) : s[i] = x}
<1>1. PlaceOf(s, x) = IF I # {} THEN Min(I) ELSE 0
  BY DEF PlaceOf, SelectInSeq
<1>2. I # {} => Min(I) \in I
  <2>1. I \subseteq Nat
    OBVIOUS
  <2>2. QED
    BY <2>1, LeastOf
<1>3. QED
  BY <1>1, <1>2

\* What ap_remove_module does for the module at the top of the chain.
LEMMA RemoveIs ==
  ASSUME NEW S \in RegistryType, NEW m \in Modules, Chained(S.mods, S.list.top) # <<>>,
         Len(Chained(S.mods, S.list.top)) \in Nat,
         \A i \in 1..Len(Chained(S.mods, S.list.top)) : Chained(S.mods, S.list.top)[i] = m <=> i = 1,
         S.mods[m].index \in 0..Most - 1
  PROVE  LET R == ap_remove_module(S, m) IN
         /\ R \in RegistryType
         /\ R.mods = [S.mods EXCEPT ![m] = [index |-> -1, next |-> None]]
         /\ R.list.total = S.list.total - 1 /\ R.list.dynamic = S.list.dynamic - 1
         /\ R.list.top = S.mods[m].next
         /\ R.list.loaded = S.list.loaded /\ R.list.max = S.list.max
         /\ R.list.length = S.list.length /\ R.list.reserved = S.list.reserved
         /\ R.cache.names = [S.cache.names EXCEPT ![S.mods[m].index] = None]
         /\ R.cache.mergers = [S.cache.mergers EXCEPT ![S.mods[m].index] = None]
<1> DEFINE R == ap_remove_module(S, m)
           chain == Chained(S.mods, S.list.top)
           index == S.mods[m].index
           total == S.list.total - 1
           dynamic == S.list.dynamic - 1
           top == S.mods[m].next
           l == [S.list EXCEPT !.top = top, !.total = total, !.dynamic = dynamic]
           M == [S.mods EXCEPT ![m] = [index |-> -1, next |-> None]]
           C == [names |-> [S.cache.names EXCEPT ![index] = None], mergers |-> [S.cache.mergers EXCEPT ![index] = None]]
<1>1. /\ S.list \in ListType /\ S.mods \in [Modules -> [index : Int, next : Modules \cup {None}]]
      /\ S.cache.names \in [0..Most - 1 -> Modules \cup {None}]
      /\ S.cache.mergers \in [0..Most - 1 -> Modules \cup {None}]
  BY DEF RegistryType
<1>2. SelectInSeq(chain, LAMBDA x : x = m) = 1
  <2> DEFINE at == PlaceOf(chain, m)
  <2>1. Len(chain) \in Nat /\ \A i \in 1..Len(chain) : chain[i] = m <=> i = 1
    OBVIOUS
  <2>2. IF \E i \in 1..Len(chain) : chain[i] = m THEN at \in 1..Len(chain) /\ chain[at] = m ELSE at = 0
    BY <2>1, FoundAt
  <2> HIDE DEF chain, at
  <2>3. 1 \in 1..Len(chain)
    BY <2>1 DEF chain
  <2>4. QED
    BY <2>1, <2>2, <2>3 DEF at, PlaceOf
<1>3. R = [mods |-> M, list |-> l, cache |-> C]
  <2> HIDE DEF chain
  <2>1. R = [mods |-> M,
             list |-> [S.list EXCEPT !.top = top, !.total = @ - 1, !.dynamic = @ - 1], cache |-> C]
    BY <1>2 DEF ap_remove_module, chain
  <2>2. QED
    BY <2>1, <1>1 DEF ListType
<1>4. total \in Int /\ dynamic \in Int /\ top \in Modules \cup {None}
  BY <1>1 DEF ListType
<1> HIDE DEF total, dynamic, top, chain
<1>5. l \in ListType
  BY <1>1, <1>4 DEF ListType
<1>6. /\ l.total = total /\ l.dynamic = dynamic /\ l.top = top
      /\ l.loaded = S.list.loaded /\ l.max = S.list.max /\ l.length = S.list.length /\ l.reserved = S.list.reserved
  BY <1>1 DEF ListType
<1>7. M \in [Modules -> [index : Int, next : Modules \cup {None}]]
  BY <1>1
<1>8. C \in [names : [0..Most - 1 -> Modules \cup {None}], mergers : [0..Most - 1 -> Modules \cup {None}]]
  BY <1>1
<1> HIDE DEF l, M, R
<1>9. R.mods = M /\ R.list = l /\ R.cache = C
  BY <1>3
<1>10. R \in RegistryType
  BY <1>3, <1>5, <1>7, <1>8 DEF RegistryType
<1>11. QED
  BY <1>6, <1>9, <1>10 DEF R, M, total, dynamic, top

\* A loaded module that is removed leaves the registry as it was before it was added.
LEMMA RemoveKept ==
  ASSUME NEW S, NEW A \in Seq(Modules), NEW L \in Seq(Modules), NEW m \in Modules,
         Registered(S, Append(A, m), Append(L, m)), Len(A) < Most, S.list.loaded = Preloaded \o Append(L, m)
  PROVE  LET R == ap_remove_loaded_module(S, m) IN
         /\ Registered(R, A, L) /\ R.list.loaded = Preloaded \o L
         /\ R.list.length = S.list.length /\ R.list.reserved = S.list.reserved
<1> DEFINE R == ap_remove_loaded_module(S, m)
           T == ap_remove_module(S, m)
           B == Append(A, m)
           K == Append(L, m)
           n == Len(A)
           N == Len(Preloaded)
           index == S.mods[m].index
           chain == Chained(S.mods, S.list.top)
<1>1. /\ S \in RegistryType /\ B \in Seq(Modules) /\ K \in Seq(Modules) /\ Len(K) <= DYNAMIC_MODULE_LIMIT
      /\ \A i, j \in 1..Len(B) : B[i] = B[j] => i = j
      /\ \A i \in 1..Len(B) : S.mods[B[i]].index # -1
      /\ Linked(S.mods, S.list.top, B) /\ Indexed(S.mods, K)
      /\ \A x \in Modules : (\A i \in 1..Len(B) : B[i] # x) => S.mods[x].next = None
      /\ S.list.total = N + Len(K) /\ S.list.dynamic = Len(K) /\ S.list.max = Most
      /\ \A i \in 1..Len(B) : S.cache.names[S.mods[B[i]].index] = B[i] /\ S.cache.mergers[S.mods[B[i]].index] = B[i]
  BY DEF Registered
<1>2. /\ S.mods \in [Modules -> [index : Int, next : Modules \cup {None}]]
      /\ S.list \in ListType
      /\ S.cache.names \in [0..Most - 1 -> Modules \cup {None}]
      /\ S.cache.mergers \in [0..Most - 1 -> Modules \cup {None}]
  BY <1>1 DEF RegistryType
<1>3. /\ N \in Nat /\ n \in Nat /\ Len(L) \in Nat /\ Most = N + DYNAMIC_MODULE_LIMIT + 1
      /\ DYNAMIC_MODULE_LIMIT \in Nat /\ None \notin Modules
      /\ \A i \in 1..N : Preloaded[i] \in Modules
      /\ \A i \in 1..n : A[i] \in Modules
      /\ \A k \in 1..Len(L) : L[k] \in Modules
      /\ Len(B) = n + 1 /\ B[n + 1] = m /\ \A i \in 1..n : B[i] = A[i]
      /\ Len(K) = Len(L) + 1 /\ K[Len(L) + 1] = m /\ \A k \in 1..Len(L) : K[k] = L[k]
  BY ConfigModulesAssumption DEF Most
<1>4. S.mods[m].index = index
  OBVIOUS
<1> HIDE DEF B, K, N, n, index
<1>5. /\ \A x \in Modules : S.mods[x].index \in -1..N + Len(K) - 1
      /\ \A x, y \in Modules : S.mods[x].index = S.mods[y].index /\ S.mods[x].index # -1 => x = y
  BY <1>1, <1>2, IndexedApart DEF N
<1>6. /\ \A i \in 1..N : S.mods[Preloaded[i]].index = i - 1
      /\ \A k \in 1..Len(K) : S.mods[K[k]].index = N + k - 1
      /\ \A x \in Modules : \/ S.mods[x].index = -1
                            \/ \E i \in 1..N : x = Preloaded[i]
                            \/ \E k \in 1..Len(K) : x = K[k]
  BY <1>1 DEF Indexed, N
<1>7. index = N + Len(L) /\ index \in 0..Most - 1
  <2>1. Len(L) + 1 \in 1..Len(K)
    BY <1>3
  <2>2. index = N + Len(L)
    BY <2>1, <1>3, <1>6, <1>4
  <2>3. QED
    BY <2>2, <1>1, <1>3
<1>8. chain = Reverse(B)
  <2>1. Len(B) <= Most
    BY <1>3 DEF n
  <2>2. QED
    BY <2>1, <1>1, ChainedIs
<1>9. chain # <<>> /\ Len(chain) \in Nat /\ \A i \in 1..Len(chain) : chain[i] = m <=> i = 1
  <2>1. /\ chain \in Seq(Modules) /\ Len(chain) = n + 1
        /\ \A i \in 1..n + 1 : chain[i] = B[n + 2 - i]
    BY <1>1, <1>3, <1>8 DEF Reverse
  <2> HIDE DEF chain
  <2>2. ASSUME NEW i \in 1..n + 1 PROVE chain[i] = m <=> i = 1
    <3>1. n + 2 - i \in 1..n + 1 /\ n + 1 \in 1..n + 1
      BY <1>3
    <3>2. B[n + 2 - i] = B[n + 1] <=> n + 2 - i = n + 1
      BY <3>1, <1>1, <1>3
    <3>3. chain[i] = B[n + 2 - i] /\ m = B[n + 1]
      BY <2>1, <1>3
    <3>4. QED
      BY <3>2, <3>3, <1>3
  <2>3. QED
    BY <2>1, <2>2, <1>3
<1>10. /\ T \in RegistryType
      /\ T.mods = [S.mods EXCEPT ![m] = [index |-> -1, next |-> None]]
      /\ T.list.total = S.list.total - 1 /\ T.list.dynamic = S.list.dynamic - 1
      /\ T.list.top = S.mods[m].next
      /\ T.list.loaded = S.list.loaded /\ T.list.max = S.list.max
      /\ T.list.length = S.list.length /\ T.list.reserved = S.list.reserved
      /\ T.cache.names = [S.cache.names EXCEPT ![S.mods[m].index] = None]
      /\ T.cache.mergers = [S.cache.mergers EXCEPT ![S.mods[m].index] = None]
  <2>1. S \in RegistryType /\ S.mods[m].index \in 0..Most - 1
    BY <1>1, <1>4, <1>7
  <2>2. QED
    BY <2>1, <1>9, RemoveIs
<1> HIDE DEF T, chain
<1>11. /\ \A i \in 1..N : Preloaded[i] # m
       /\ \A k \in 1..Len(L) : L[k] # m /\ S.mods[L[k]].index = N + k - 1
  <2>1. \A k \in 1..Len(L) : k \in 1..Len(K) /\ K[k] = L[k]
    BY <1>3
  <2>2. /\ \A k \in 1..Len(L) : S.mods[L[k]].index = N + k - 1
        /\ \A i \in 1..N : S.mods[Preloaded[i]].index = i - 1
    BY <2>1, <1>6
  <2>3. S.mods[m].index = N + Len(L)
    BY <1>7, <1>4
  <2>4. N \in Nat /\ Len(L) \in Nat
    BY <1>3
  <2>5. QED
    BY <2>2, <2>3, <2>4, SMTT(30)
<1>12. /\ R = [T EXCEPT !.list.loaded = Preloaded \o L]
  <2> DEFINE s == T.list.loaded
             at == PlaceOf(s, m)
  <2>1. s \in Seq(Modules) /\ s = Preloaded \o K /\ Len(s) = N + Len(L) + 1
    BY <1>3, <1>10, <1>1, ConfigModulesAssumption, SMTT(30) DEF K, N
  <2>2. /\ \A i \in 1..N : s[i] = Preloaded[i]
        /\ \A k \in 1..Len(K) : s[N + k] = K[k]
    BY <2>1, <1>1, <1>3, ConfigModulesAssumption DEF N
  <2>3. s[N + Len(L) + 1] = m
    <3>1. s[N + (Len(L) + 1)] = K[Len(L) + 1]
      BY <2>2, <1>3
    <3>2. QED
      BY <3>1, <1>3
  <2>4. \A i \in 1..N + Len(L) : s[i] # m
    <3> SUFFICES ASSUME NEW i \in 1..N + Len(L) PROVE s[i] # m
      OBVIOUS
    <3>1. CASE i <= N
      <4>1. i \in 1..N
        BY <3>1, <1>3
      <4>2. QED
        BY <4>1, <2>2, <1>11
    <3>2. CASE i > N
      <4>1. i - N \in 1..Len(L) /\ i - N \in 1..Len(K) /\ N + (i - N) = i
        BY <3>2, <1>3
      <4>2. s[N + (i - N)] = K[i - N]
        BY <4>1, <2>2
      <4>3. K[i - N] = L[i - N] /\ L[i - N] # m
        BY <4>1, <1>3, <1>11
      <4>4. QED
        BY <4>1, <4>2, <4>3
    <3>3. QED
      BY <3>1, <3>2, <1>3
  <2> HIDE DEF s
  <2>5. at = N + Len(L) + 1
    <3>1. Len(s) \in Nat /\ N + Len(L) + 1 \in 1..Len(s)
      BY <2>1, <1>3
    <3>2. at \in 1..Len(s) /\ s[at] = m
      BY <3>1, <2>3, FoundAt
    <3> HIDE DEF at
    <3>3. N \in Nat /\ Len(L) \in Nat /\ Len(s) = N + Len(L) + 1
      BY <2>1, <1>3
    <3> DEFINE below == N + Len(L)
    <3>4. at \in Int /\ at <= below + 1 /\ ~ (at <= below) /\ below \in Int
      BY <3>2, <3>3, <2>4
    <3> HIDE DEF below
    <3>5. at = below + 1
      BY <3>4
    <3>6. QED
      BY <3>5 DEF below
  <2>6. RemoveAt(s, at) = Preloaded \o L
    <3> DEFINE front == SubSeq(s, 1, N + Len(L))
               back == SubSeq(s, N + Len(L) + 2, N + Len(L) + 1)
    <3>1. RemoveAt(s, at) = front \o back
      <4> HIDE DEF at
      <4>1. at - 1 = N + Len(L) /\ at + 1 = N + Len(L) + 2
        BY <2>5, <1>3
      <4>2. QED
        BY <4>1, <2>1 DEF RemoveAt
    <3>2. back = <<>>
      BY <2>1, <1>3
    <3>3. front = Preloaded \o L
      <4>1. Preloaded \in Seq(Modules) /\ front \in Seq(Modules) /\ Len(front) = N + Len(L)
        BY <2>1, <1>3, ConfigModulesAssumption
      <4>2. Preloaded \o L \in Seq(Modules) /\ Len(Preloaded \o L) = N + Len(L)
        BY <4>1 DEF N
      <4>3. ASSUME NEW i \in 1..N + Len(L) PROVE front[i] = (Preloaded \o L)[i]
        <5>1. front[i] = s[i]
          BY <2>1, <1>3
        <5>2. CASE i <= N
          BY <5>1, <5>2, <2>2, <1>3, <4>1 DEF N
        <5>3. CASE i > N
          <6>1. i - N \in 1..Len(L) /\ i - N \in 1..Len(K) /\ N + (i - N) = i
            BY <5>3, <1>3
          <6>2. s[i] = L[i - N]
            BY <6>1, <2>2, <1>3
          <6>3. (Preloaded \o L)[i] = L[i - N]
            BY <5>3, <1>3, <4>1 DEF N
          <6>4. QED
            BY <5>1, <6>2, <6>3
        <5>4. i <= N \/ i > N
          BY <1>3
        <5>5. QED
          BY <5>2, <5>3, <5>4
      <4> HIDE DEF front
      <4>4. QED
        BY <4>1, <4>2, <4>3
    <3> HIDE DEF front, back, at
    <3>4. front \o back = front
      BY <3>2, <3>3, <1>3, ConfigModulesAssumption
    <3>5. QED
      BY <3>1, <3>3, <3>4
  <2>7. R = IF at = 0 THEN T ELSE [T EXCEPT !.list.loaded = RemoveAt(s, at)]
    BY DEF ap_remove_loaded_module, T, PlaceOf, s
  <2>8. at # 0
    BY <2>5, <1>3
  <2> HIDE DEF at, R
  <2>9. QED
    BY <2>6, <2>7, <2>8
<1> HIDE DEF R
<1>13. /\ R \in RegistryType /\ R.mods = T.mods /\ R.cache = T.cache
       /\ R.list.loaded = Preloaded \o L /\ R.list.top = T.list.top
       /\ R.list.total = T.list.total /\ R.list.dynamic = T.list.dynamic /\ R.list.max = T.list.max
       /\ R.list.length = T.list.length /\ R.list.reserved = T.list.reserved
  <2> DEFINE s == Preloaded \o L
  <2>1. s \in Seq(Modules)
    BY <1>3, ConfigModulesAssumption
  <2> HIDE DEF s
  <2>2. R = [T EXCEPT !.list.loaded = s]
    BY <1>12 DEF s
  <2>3. QED
    BY <1>10, <2>1, <2>2 DEF s, RegistryType, ListType
<1>14. /\ R.mods[m] = [index |-> -1, next |-> None]
       /\ \A x \in Modules : x # m => R.mods[x] = S.mods[x]
  BY <1>2, <1>10, <1>13
<1>15. R.mods[m].index = -1 /\ R.mods[m].next = None
  BY <1>14
<1>16. \A i \in 1..n : i \in 1..Len(B) /\ A[i] # m /\ B[i] = A[i] /\ R.mods[A[i]] = S.mods[A[i]]
  <2> SUFFICES ASSUME NEW i \in 1..n PROVE i \in 1..Len(B) /\ A[i] # m /\ B[i] = A[i] /\ R.mods[A[i]] = S.mods[A[i]]
    OBVIOUS
  <2>1. i \in 1..Len(B) /\ n + 1 \in 1..Len(B) /\ i # n + 1
    BY <1>3
  <2>2. A[i] # m
    BY <2>1, <1>1, <1>3
  <2>3. QED
    BY <2>1, <2>2, <1>3, <1>14
<1>17. \A i, j \in 1..n : A[i] = A[j] => i = j
  BY <1>1, <1>16
<1>18. \A i \in 1..n : R.mods[A[i]].index # -1
  BY <1>1, <1>16
<1>19. Linked(R.mods, R.list.top, A)
  <2>1. R.list.top = IF n = 0 THEN None ELSE A[n]
    <3>1. n + 1 \in 1..Len(B)
      BY <1>3
    <3>2. S.mods[B[n + 1]].next = IF n + 1 = 1 THEN None ELSE B[n + 1 - 1]
      <4>1. \A i \in 1..Len(B) : S.mods[B[i]].next = IF i = 1 THEN None ELSE B[i - 1]
        BY <1>1 DEF Linked
      <4>2. QED
        BY <3>1, <4>1, <1>3
    <3>3. n # 0 => B[n + 1 - 1] = A[n]
      BY <1>3
    <3>4. QED
      BY <3>2, <3>3, <1>3, <1>10, <1>13
  <2>2. \A i \in 1..n : R.mods[A[i]].next = IF i = 1 THEN None ELSE A[i - 1]
    <3> SUFFICES ASSUME NEW i \in 1..n PROVE R.mods[A[i]].next = IF i = 1 THEN None ELSE A[i - 1]
      OBVIOUS
    <3>1. S.mods[B[i]].next = IF i = 1 THEN None ELSE B[i - 1]
      BY <1>1, <1>16 DEF Linked
    <3>2. i # 1 => i - 1 \in 1..n
      BY <1>3
    <3>3. QED
      BY <3>1, <3>2, <1>16
  <2>3. A = <<>> <=> n = 0
    BY DEF n
  <2>4. QED
    BY <2>1, <2>2, <2>3 DEF Linked, n
<1>20. ASSUME NEW x \in Modules, \A i \in 1..n : A[i] # x PROVE R.mods[x].next = None
  <2>1. CASE x = m
    BY <2>1, <1>15
  <2>2. CASE x # m
    <3>1. \A i \in 1..Len(B) : B[i] # x
      <4>1. \A i \in 1..n : B[i] # x
        BY <1>3, <1>20
      <4>2. Len(B) = n + 1 /\ B[n + 1] # x /\ n \in Nat
        BY <2>2, <1>3
      <4>3. QED
        BY <4>1, <4>2
    <3>2. QED
      BY <3>1, <2>2, <1>1, <1>14
  <2>3. QED
    BY <2>1, <2>2
<1>21. Indexed(R.mods, L)
  <2>1. \A i \in 1..N : R.mods[Preloaded[i]].index = i - 1
    BY <1>3, <1>6, <1>11, <1>14
  <2>2. \A k \in 1..Len(L) : R.mods[L[k]].index = N + k - 1
    BY <1>3, <1>11, <1>14
  <2>3. ASSUME NEW x \in Modules
        PROVE  R.mods[x].index = -1 \/ (\E i \in 1..N : x = Preloaded[i]) \/ (\E k \in 1..Len(L) : x = L[k])
    <3>1. CASE x = m
      BY <3>1, <1>15
    <3>2. CASE x # m
      <4>1. R.mods[x] = S.mods[x]
        BY <3>2, <1>14
      <4>2. S.mods[x].index = -1 \/ (\E i \in 1..N : x = Preloaded[i]) \/ (\E k \in 1..Len(K) : x = K[k])
        BY <1>6
      <4>3. ASSUME NEW k \in 1..Len(K), x = K[k] PROVE k \in 1..Len(L) /\ x = L[k]
        <5>1. k # Len(L) + 1
          BY <4>3, <3>2, <1>3
        <5>2. k \in 1..Len(L)
          BY <5>1, <1>3
        <5>3. QED
          BY <5>2, <4>3, <1>3
      <4>4. QED
        BY <4>1, <4>2, <4>3
    <3>3. QED
      BY <3>1, <3>2
  <2>4. QED
    BY <2>1, <2>2, <2>3 DEF Indexed, N
<1>22. ASSUME NEW i \in 1..n
       PROVE  R.cache.names[R.mods[A[i]].index] = A[i] /\ R.cache.mergers[R.mods[A[i]].index] = A[i]
  <2>1. /\ A[i] \in Modules /\ A[i] # m /\ R.mods[A[i]].index = S.mods[A[i]].index /\ S.mods[A[i]].index # -1
        /\ S.cache.names[S.mods[A[i]].index] = A[i] /\ S.cache.mergers[S.mods[A[i]].index] = A[i]
    <3>1. i \in 1..Len(B) /\ B[i] = A[i] /\ A[i] # m /\ R.mods[A[i]] = S.mods[A[i]]
      BY <1>16
    <3>2. /\ S.mods[B[i]].index # -1
          /\ S.cache.names[S.mods[B[i]].index] = B[i] /\ S.cache.mergers[S.mods[B[i]].index] = B[i]
      BY <3>1, <1>1
    <3>3. A[i] \in Modules
      BY <1>3
    <3>4. QED
      BY <3>1, <3>2, <3>3
  <2>2. S.mods[A[i]].index # index /\ S.mods[A[i]].index \in 0..Most - 1
    <3>1. S.mods[A[i]].index # index
      BY <2>1, <1>5, <1>4
    <3>2. S.mods[A[i]].index \in -1..N + Len(K) - 1
      BY <2>1, <1>5
    <3>3. Len(K) <= DYNAMIC_MODULE_LIMIT
      BY <1>1
    <3>4. N \in Nat /\ Len(K) \in Nat /\ DYNAMIC_MODULE_LIMIT \in Nat /\ Most = N + DYNAMIC_MODULE_LIMIT + 1
      BY <1>3
    <3>5. QED
      BY <3>1, <3>2, <3>3, <3>4, <2>1
  <2>3. /\ R.cache.names = [S.cache.names EXCEPT ![index] = None]
        /\ R.cache.mergers = [S.cache.mergers EXCEPT ![index] = None]
    BY <1>10, <1>13, <1>4
  <2>4. QED
    BY <2>1, <2>2, <2>3, <1>2, <1>7
<1>23. R.list.total = N + Len(L) /\ R.list.dynamic = Len(L) /\ R.list.max = Most /\ Len(L) <= DYNAMIC_MODULE_LIMIT
  <2>1. S.list.total = N + Len(K) /\ S.list.dynamic = Len(K) /\ S.list.max = Most /\ Len(K) <= DYNAMIC_MODULE_LIMIT
    BY <1>1
  <2>2. R.list.total = S.list.total - 1 /\ R.list.dynamic = S.list.dynamic - 1 /\ R.list.max = S.list.max
    BY <1>10, <1>13
  <2>3. N \in Nat /\ Len(L) \in Nat /\ Len(K) = Len(L) + 1 /\ DYNAMIC_MODULE_LIMIT \in Nat
    BY <1>3
  <2> DEFINE k == Len(L)
  <2>4. R.list.total = (N + (k + 1)) - 1 /\ R.list.dynamic = (k + 1) - 1 /\ k \in Nat /\ k + 1 <= DYNAMIC_MODULE_LIMIT
    BY <2>1, <2>2, <2>3
  <2> HIDE DEF k
  <2>5. R.list.total = N + k /\ R.list.dynamic = k /\ k <= DYNAMIC_MODULE_LIMIT
    BY <2>3, <2>4
  <2>6. QED
    BY <2>1, <2>2, <2>5 DEF k
<1>24. Registered(R, A, L)
  BY <1>13, <1>17, <1>18, <1>19, <1>20, <1>21, <1>22, <1>23 DEF Registered, N, n
<1>25. QED
  BY <1>10, <1>13, <1>24 DEF R

\* There are no more active modules than modules compiled in.
LEMMA PrelinkedFew == Len(Prelinked) <= Len(Preloaded)
<1> DEFINE N == Len(Preloaded)
           n == Len(Prelinked)
           f == [i \in 1..n |-> PlaceOf(Preloaded, Prelinked[i])]
<1>1. /\ N \in Nat /\ n \in Nat /\ \A i \in 1..n : Prelinked[i] \in ToSet(Preloaded)
      /\ \A i, j \in 1..n : Prelinked[i] = Prelinked[j] => i = j
  BY ConfigModulesAssumption DEF IsInjective
<1>2. \A i \in 1..n : \E j \in 1..N : Preloaded[j] = Prelinked[i]
  BY <1>1, ConfigModulesAssumption DEF ToSet
<1> HIDE DEF N, n
<1>3. ASSUME NEW i \in 1..n PROVE f[i] \in 1..N /\ Preloaded[f[i]] = Prelinked[i]
  BY <1>1, <1>2, FoundAt DEF N
<1>4. f \in [1..n -> 1..N] /\ DOMAIN f = 1..n
  BY <1>3
<1> HIDE DEF f
<1>5. \A i, j \in DOMAIN f : f[i] = f[j] => i = j
  BY <1>1, <1>3, <1>4
<1>6. f \in Injection(1..n, 1..N)
  BY <1>4, <1>5 DEF Injection, IsInjective
<1>7. IsFiniteSet(1..N) /\ Cardinality(1..N) = N /\ Cardinality(1..n) = n
  BY <1>1, FS_Interval
<1>8. Cardinality(1..n) <= Cardinality(1..N)
  BY <1>6, <1>7, FS_Injection
<1>9. QED
  BY <1>7, <1>8 DEF n, N

LEMMA ReverseAppend ==
  ASSUME NEW s \in Seq(Modules), NEW m \in Modules
  PROVE  Reverse(Append(s, m)) = <<m>> \o Reverse(s)
<1> DEFINE a == Reverse(Append(s, m))
           b == <<m>> \o Reverse(s)
<1>1. Reverse(s) \in Seq(Modules) /\ Len(Reverse(s)) = Len(s) /\ \A i \in 1..Len(s) : Reverse(s)[i] = s[Len(s) - i + 1]
  BY DEF Reverse
<1>2. a \in Seq(Modules) /\ Len(a) = Len(s) + 1 /\ \A i \in 1..Len(s) + 1 : a[i] = Append(s, m)[Len(s) + 2 - i]
  BY DEF Reverse
<1>3. b \in Seq(Modules) /\ Len(b) = Len(s) + 1 /\ b[1] = m /\ \A i \in 2..Len(s) + 1 : b[i] = Reverse(s)[i - 1]
  BY <1>1
<1> HIDE DEF a, b
<1>4. ASSUME NEW i \in 1..Len(s) + 1 PROVE a[i] = b[i]
  <2>1. CASE i = 1
    BY <2>1, <1>2, <1>3
  <2>2. CASE i # 1
    <3>1. i \in 2..Len(s) + 1 /\ i - 1 \in 1..Len(s) /\ Len(s) + 2 - i \in 1..Len(s)
      BY <2>2
    <3>2. b[i] = s[Len(s) - (i - 1) + 1]
      BY <3>1, <1>1, <1>3
    <3>3. a[i] = s[Len(s) + 2 - i]
      BY <3>1, <1>2
    <3>4. QED
      BY <3>2, <3>3
  <2>3. QED
    BY <2>1, <2>2
<1>5. a = b
  BY <1>2, <1>3, <1>4
<1>6. QED
  BY <1>5 DEF a, b

\* The first k elements, and one more.
LEMMA FirstAppend ==
  ASSUME NEW s \in Seq(Modules), NEW k \in 1..Len(s)
  PROVE  /\ SubSeq(s, 1, k) = Append(SubSeq(s, 1, k - 1), s[k])
         /\ SubSeq(s, 1, k - 1) \in Seq(Modules) /\ Len(SubSeq(s, 1, k - 1)) = k - 1
         /\ \A i \in 1..k - 1 : SubSeq(s, 1, k - 1)[i] = s[i]
<1> DEFINE a == SubSeq(s, 1, k)
           b == SubSeq(s, 1, k - 1)
<1>1. k \in Nat /\ k <= Len(s) /\ Len(s) \in Nat /\ \A i \in 1..Len(s) : s[i] \in Modules
  OBVIOUS
<1>2. b \in Seq(Modules) /\ Len(b) = k - 1 /\ \A i \in 1..k - 1 : b[i] = s[i]
  BY <1>1
<1>3. a \in Seq(Modules) /\ Len(a) = k /\ \A i \in 1..k : a[i] = s[i]
  BY <1>1
<1> HIDE DEF a, b
<1>4. a = Append(b, s[k])
  BY <1>1, <1>2, <1>3
<1>5. QED
  BY <1>2, <1>4 DEF a, b

\* The registry before a module is active: those compiled in have their slots.
LEMMA BareIs ==
  ASSUME NEW S,
         S = [mods |-> [m \in Modules |-> [index |-> PlaceOf(Preloaded, m) - 1, next |-> None]],
              list |-> [top |-> None, loaded |-> Preloaded, hash |-> <<>>, total |-> Len(Preloaded),
                        dynamic |-> 0, max |-> Most, length |-> Most, reserved |-> 0],
              cache |-> [names |-> [i \in 0..Most - 1 |-> None], mergers |-> [i \in 0..Most - 1 |-> None]]]
  PROVE  Registered(S, <<>>, <<>>)
<1> DEFINE N == Len(Preloaded)
<1>1. /\ N \in Nat /\ Most \in Int /\ DYNAMIC_MODULE_LIMIT \in Nat /\ Preloaded \in Seq(Modules)
      /\ \A i \in 1..N : Preloaded[i] \in Modules
      /\ \A i, j \in 1..N : Preloaded[i] = Preloaded[j] => i = j
  <2>1. Preloaded \in Seq(Modules) /\ IsInjective(Preloaded) /\ DYNAMIC_MODULE_LIMIT \in Nat
    BY ConfigModulesAssumption
  <2>2. \A i, j \in 1..N : Preloaded[i] = Preloaded[j] => i = j
    BY <2>1 DEF IsInjective
  <2>3. QED
    BY <2>1, <2>2 DEF Most
<1>2. ASSUME NEW m \in Modules
      PROVE  IF \E i \in 1..N : Preloaded[i] = m THEN PlaceOf(Preloaded, m) \in 1..N /\ Preloaded[PlaceOf(Preloaded, m)] = m
             ELSE PlaceOf(Preloaded, m) = 0
  BY <1>1, FoundAt
<1>3. \A m \in Modules : PlaceOf(Preloaded, m) - 1 \in Int
  BY <1>1, <1>2
<1>4. S.mods = [m \in Modules |-> [index |-> PlaceOf(Preloaded, m) - 1, next |-> None]]
  OBVIOUS
<1>5. \A m \in Modules : S.mods[m].index = PlaceOf(Preloaded, m) - 1 /\ S.mods[m].next = None
  BY <1>4
<1>6. S.mods \in [Modules -> [index : Int, next : Modules \cup {None}]]
  BY <1>3, <1>4
<1>7. S.list \in ListType
  BY <1>1 DEF ListType
<1>8. S.cache \in [names : [0..Most - 1 -> Modules \cup {None}], mergers : [0..Most - 1 -> Modules \cup {None}]]
  OBVIOUS
<1>9. S \in RegistryType
  <2>1. S = [mods |-> S.mods, list |-> S.list, cache |-> S.cache]
    OBVIOUS
  <2>2. QED
    BY <2>1, <1>6, <1>7, <1>8 DEF RegistryType
<1>10. S.list.top = None /\ S.list.total = N + 0 /\ S.list.dynamic = 0 /\ S.list.max = Most
  BY <1>1
<1> HIDE DEF N
<1>11. Indexed(S.mods, <<>>)
  <2>1. ASSUME NEW i \in 1..N PROVE S.mods[Preloaded[i]].index = i - 1
    <3>1. PlaceOf(Preloaded, Preloaded[i]) = i
      BY <1>1, <1>2
    <3>2. QED
      BY <3>1, <1>1, <1>5
  <2>2. \A m \in Modules : S.mods[m].index = -1 \/ \E i \in 1..N : m = Preloaded[i]
    BY <1>2, <1>5
  <2>3. Len(<<>>) = 0
    OBVIOUS
  <2>4. QED
    BY <2>1, <2>2, <2>3 DEF Indexed, N
<1>12. Linked(S.mods, S.list.top, <<>>)
  BY <1>10 DEF Linked
<1>13. QED
  BY <1>1, <1>5, <1>9, <1>10, <1>11, <1>12 DEF Registered, N

\* Once the prelinked modules are added they are the active ones.
LEMMA SetupKept ==
  LET S == ap_setup_prelinked_modules IN
  /\ Registered(S, Prelinked, <<>>)
  /\ S.list.loaded = Preloaded /\ S.list.hash = Reverse(Prelinked)
  /\ S.list.length = Most /\ S.list.reserved = 0
<1> DEFINE S == ap_setup_prelinked_modules
           N == Len(Preloaded)
           n == Len(Prelinked)
           bare == [mods |-> [m \in Modules |-> [index |-> PlaceOf(Preloaded, m) - 1, next |-> None]],
                    list |-> [top |-> None, loaded |-> Preloaded, hash |-> <<>>, total |-> Len(Preloaded),
                              dynamic |-> 0, max |-> Most, length |-> Most, reserved |-> 0],
                    cache |-> [names |-> [i \in 0..Most - 1 |-> None], mergers |-> [i \in 0..Most - 1 |-> None]]]
           First(k) == SubSeq(Prelinked, 1, k)
           Kept(T, k) == /\ Registered(T, First(k), <<>>)
                         /\ T.list.loaded = Preloaded /\ T.list.hash = Reverse(First(k))
                         /\ T.list.length = Most /\ T.list.reserved = 0
<1>1. /\ N \in Nat /\ n \in Nat /\ Preloaded \in Seq(Modules) /\ Prelinked \in Seq(Modules)
      /\ \A i, j \in 1..n : Prelinked[i] = Prelinked[j] => i = j
      /\ \A i \in 1..n : \E j \in 1..N : Preloaded[j] = Prelinked[i]
  BY ConfigModulesAssumption DEF IsInjective, ToSet
<1>2. S = AllAdded(bare, Prelinked)
  BY DEF ap_setup_prelinked_modules, Most, PlaceOf
<1>3. Registered(bare, <<>>, <<>>) /\ bare.list.hash = <<>> /\ bare.list.loaded = Preloaded
      /\ bare.list.length = Most /\ bare.list.reserved = 0
  BY BareIs
<1> HIDE DEF bare, S
<1>4. PICK f : f[0] = bare /\ S = f[n] /\ \A k \in 1..n : f[k] = ap_add_module(f[k - 1], Prelinked[k])
  BY <1>1, <1>2, AddedSteps
<1>5. Kept(f[0], 0)
  <2>1. First(0) = <<>> /\ Reverse(<<>>) = <<>>
    BY <1>1 DEF Reverse
  <2>2. QED
    BY <2>1, <1>3, <1>4
<1>6. ASSUME NEW k \in 1..n, Kept(f[k - 1], k - 1) PROVE Kept(f[k], k)
  <2> DEFINE T == f[k - 1]
             A == First(k - 1)
             m == Prelinked[k]
  <2>1. /\ First(k) = Append(A, m) /\ A \in Seq(Modules) /\ Len(A) = k - 1
        /\ \A i \in 1..k - 1 : A[i] = Prelinked[i]
    BY <1>1, FirstAppend
  <2>2. m \in Modules
    BY <1>1
  <2>3. \A i \in 1..Len(A) : A[i] # m
    <3>1. \A i \in 1..k - 1 : i \in 1..n /\ i # k
      BY <1>1
    <3>2. \A i \in 1..k - 1 : Prelinked[i] # Prelinked[k]
      BY <3>1, <1>1
    <3>3. QED
      BY <3>2, <2>1
  <2>4. Registered(T, A, <<>>) /\ T.list.hash = Reverse(A) /\ T.list.loaded = Preloaded
        /\ T.list.length = Most /\ T.list.reserved = 0
    BY <1>6
  <2>5. T.mods[m].index # -1
    <3>1. PICK j \in 1..N : Preloaded[j] = m
      BY <1>1
    <3>2. T.mods[Preloaded[j]].index = j - 1
      BY <2>4 DEF Registered, Indexed
    <3>3. QED
      BY <3>1, <3>2, <1>1
  <2>6. f[k] = ap_add_module(T, m)
    BY <1>4
  <2> HIDE DEF T, A, m, First
  <2>7. First(k) \in Seq(Modules) /\ Reverse(First(k)) = <<m>> \o Reverse(A)
    BY <2>1, <2>2, ReverseAppend
  <2> DEFINE R == ap_add_module(T, m)
  <2>8. /\ Registered(R, Append(A, m), <<>>) /\ R.list.hash = <<m>> \o T.list.hash
        /\ R.list.loaded = T.list.loaded
        /\ R.list.length = T.list.length /\ R.list.reserved = T.list.reserved
    <3> DEFINE L == <<>>
    <3>1. LoadedWith(T, L, m) = L
      BY <2>5 DEF LoadedWith
    <3>2. Registered(T, A, L)
      BY <2>4
    <3> HIDE DEF L
    <3>3. /\ Registered(R, Append(A, m), LoadedWith(T, L, m)) /\ R.list.hash = <<m>> \o T.list.hash
          /\ R.list.loaded = T.list.loaded
          /\ R.list.length = T.list.length /\ R.list.reserved = T.list.reserved
      BY <3>2, <2>2, <2>3, <2>5, AddKept
    <3>4. QED
      BY <3>1, <3>3 DEF L
  <2> HIDE DEF R
  <2>9. QED
    BY <2>1, <2>4, <2>6, <2>7, <2>8 DEF R
<1> HIDE DEF Kept
<1>7. Kept(f[n], n)
  <2> DEFINE Ok == {k \in 0..n : Kept(f[k], k)}
  <2>1. 0 \in Ok
    BY <1>1, <1>5
  <2>2. ASSUME NEW k \in 1..n, k - 1 \in Ok PROVE k \in Ok
    BY <2>2, <1>6
  <2> HIDE DEF Ok
  <2>3. 0..n \subseteq Ok
    BY <1>1, <2>1, <2>2, AllUpTo
  <2>4. QED
    BY <1>1, <2>3 DEF Ok
<1>8. First(n) = Prelinked
  BY <1>1
<1>9. QED
  BY <1>4, <1>7, <1>8 DEF Kept, S

----------------------------------------------------------------------------
(* Sequences and vectors. *)

LEMMA LoadedIs ==
  ASSUME NEW l, NEW L \in Seq(Modules), l = Preloaded \o L
  PROVE  SubSeq(l, Len(Preloaded) + 1, Len(l)) = L
<1> DEFINE N == Len(Preloaded)
           b == SubSeq(l, N + 1, N + Len(L))
<1>1. N \in Nat /\ Len(L) \in Nat /\ Preloaded \in Seq(Modules)
  BY ConfigModulesAssumption
<1>2. l \in Seq(Modules) /\ Len(l) = N + Len(L) /\ \A k \in 1..Len(L) : l[N + k] = L[k]
  BY <1>1
<1> HIDE DEF N
<1>3. b \in Seq(Modules) /\ Len(b) = Len(L) /\ \A k \in 1..Len(L) : b[k] = l[N + k]
  BY <1>1, <1>2
<1> HIDE DEF b
<1>4. b = L
  <2>1. \A k \in 1..Len(L) : b[k] = L[k]
    BY <1>2, <1>3
  <2>2. QED
    BY <2>1, <1>3, SMTT(60)
<1>5. QED
  BY <1>2, <1>4 DEF b, N

LEMMA ConcatAppend ==
  ASSUME NEW s \in Seq(Modules), NEW t \in Seq(Modules), NEW m \in Modules
  PROVE  /\ s \o t \in Seq(Modules) /\ Len(s \o t) = Len(s) + Len(t)
         /\ s \o Append(t, m) = Append(s \o t, m)
<1> DEFINE a == s \o Append(t, m)
           b == Append(s \o t, m)
           u == Append(t, m)
           n == Len(s) + Len(t)
<1>1. s \o t \in Seq(Modules) /\ Len(s \o t) = n
      /\ \A i \in 1..n : (s \o t)[i] = IF i <= Len(s) THEN s[i] ELSE t[i - Len(s)]
  OBVIOUS
<1>2. u \in Seq(Modules) /\ Len(u) = Len(t) + 1
      /\ \A i \in 1..Len(t) + 1 : u[i] = IF i <= Len(t) THEN t[i] ELSE m
  OBVIOUS
<1>3. a \in Seq(Modules) /\ Len(a) = n + 1
      /\ \A i \in 1..n + 1 : a[i] = IF i <= Len(s) THEN s[i] ELSE u[i - Len(s)]
  BY <1>2
<1>4. b \in Seq(Modules) /\ Len(b) = n + 1 /\ \A i \in 1..n + 1 : b[i] = IF i <= n THEN (s \o t)[i] ELSE m
  BY <1>1
<1> HIDE DEF a, b, u
<1>5. ASSUME NEW i \in 1..n + 1 PROVE a[i] = b[i]
  <2>1. CASE i <= Len(s)
    <3>1. i \in 1..n
      BY <2>1
    <3>2. a[i] = s[i]
      BY <2>1, <1>3
    <3>3. b[i] = (s \o t)[i]
      BY <3>1, <1>4
    <3>4. (s \o t)[i] = s[i]
      BY <2>1, <3>1, <1>1
    <3>5. QED
      BY <3>2, <3>3, <3>4
  <2>2. CASE i > Len(s)
    <3>1. i - Len(s) \in 1..Len(t) + 1 /\ (i - Len(s) <= Len(t) <=> i <= n)
      BY <2>2
    <3>2. a[i] = IF i <= n THEN t[i - Len(s)] ELSE m
      <4>1. a[i] = u[i - Len(s)]
        <5>1. ~ (i <= Len(s))
          BY <2>2
        <5>2. QED
          BY <5>1, <1>3
      <4>2. u[i - Len(s)] = IF i - Len(s) <= Len(t) THEN t[i - Len(s)] ELSE m
        BY <3>1, <1>2
      <4>3. QED
        BY <3>1, <4>1, <4>2
    <3>3. b[i] = IF i <= n THEN t[i - Len(s)] ELSE m
      BY <2>2, <1>1, <1>4
    <3>4. QED
      BY <3>2, <3>3
  <2>3. QED
    BY <2>1, <2>2
<1>6. a = b
  <2>1. a \in Seq(Modules) /\ b \in Seq(Modules) /\ Len(a) = Len(b) /\ \A i \in 1..Len(a) : a[i] = b[i]
    BY <1>3, <1>4, <1>5
  <2>2. QED
    BY <2>1
<1>7. QED
  BY <1>1, <1>6 DEF a, b

\* A sequence is one of its own elements.
LEMMA OfItsOwn ==
  ASSUME NEW V, NEW s \in Seq(V)
  PROVE  s \in Seq(ToSet(s)) /\ \A i \in 1..Len(s) : s[i] \in ToSet(s)
<1>1. Len(s) \in Nat /\ DOMAIN s = 1..Len(s)
  OBVIOUS
<1>2. \A i \in 1..Len(s) : s[i] \in ToSet(s)
  BY <1>1 DEF ToSet
<1>3. s = [i \in 1..Len(s) |-> s[i]]
  OBVIOUS
<1>4. s \in [1..Len(s) -> ToSet(s)]
  BY <1>2, <1>3
<1>5. QED
  BY <1>1, <1>2, <1>4

LEMMA CreatedVector ==
  ASSUME NEW S, NEW makers
  PROVE  Vector(created(S, makers), S.list.length)
<1> DEFINE at(i) == {m \in ToSet(Chained(S.mods, S.list.top)) \cap makers : S.mods[m].index = i}
           e(i) == IF at(i) = {} THEN <<>> ELSE Made(CHOOSE m \in at(i) : TRUE, 1)
           n == S.list.length
<1>1. created(S, makers) = [i \in 0..n - 1 |-> e(i)]
  BY DEF created
<1> HIDE DEF e, n
<1>2. QED
  BY <1>1 DEF Vector, n

LEMMA ServerAnew ==
  ASSUME NEW S, S.list.length \in Nat
  PROVE  ServerSound(init_server_config(S), S.list.length) /\ init_server_config(S).log.modules = <<>>
<1> DEFINE c == create_server_config(S)
           d == create_default_per_dir_config(S)
           of == init_server_config(S)
           n == S.list.length
<1>1. Vector(c, n) /\ Vector(d, n)
  BY CreatedVector DEF create_server_config, create_default_per_dir_config
<1>2. of = [config |-> c, dir |-> d, log |-> [level |-> DEFAULT_LOGLEVEL, modules |-> <<>>]]
  BY DEF init_server_config, NewLog
<1> HIDE DEF of, c, d, n
<1>3. of.config = c /\ of.dir = d /\ of.log = [level |-> DEFAULT_LOGLEVEL, modules |-> <<>>]
      /\ of = [config |-> of.config, dir |-> of.dir, log |-> of.log]
  BY <1>2
<1>4. of.log.modules = <<>> /\ of.log = [level |-> of.log.level, modules |-> of.log.modules]
  BY <1>3
<1>5. n \in Nat /\ n >= n
  BY DEF n
<1>6. QED
  BY <1>1, <1>3, <1>4, <1>5 DEF ServerSound, of, n

\* What the registry says of its modules does not depend on the hash and the vectors.
LEMMA RegisteredSame ==
  ASSUME NEW S, NEW T, NEW A, NEW L, Registered(S, A, L),
         T = [mods |-> S.mods, list |-> T.list, cache |-> S.cache], T.list \in ListType,
         T.list.top = S.list.top, T.list.total = S.list.total, T.list.dynamic = S.list.dynamic,
         T.list.max = S.list.max
  PROVE  Registered(T, A, L)
<1>1. T \in RegistryType /\ T.mods = S.mods /\ T.cache = S.cache
  BY DEF Registered, RegistryType
<1>2. QED
  BY <1>1 DEF Registered

----------------------------------------------------------------------------
(* The steps. *)

\* The registry and what is loaded after a step that makes it S.
LEMMA Becoming ==
  ASSUME NEW S, NEW L, S \in RegistryType, L \in Seq(Modules), S.list.loaded = Preloaded \o L, Becomes(S)
  PROVE  Registry' = S /\ Loaded' = L /\ list' = S.list
<1>1. S = [mods |-> S.mods, list |-> S.list, cache |-> S.cache]
  BY DEF RegistryType
<1>2. mods' = S.mods /\ list' = S.list /\ cache' = S.cache
  BY DEF Becomes
<1>3. Registry' = S
  BY <1>1, <1>2 DEF Registry
<1>4. SubSeq(list'.loaded, Len(Preloaded) + 1, Len(list'.loaded)) = L
  BY <1>2, LoadedIs
<1>5. QED
  BY <1>2, <1>3, <1>4 DEF Loaded

\* What the invariant says of the registry.
LEMMA RegistryFacts ==
  ASSUME IInv
  PROVE  /\ Registered(Registry, Prelinked \o Loaded, Loaded)
         /\ Registry.mods = mods /\ Registry.list = list /\ Registry.cache = cache
         /\ list \in ListType /\ mods \in [Modules -> [index : Int, next : Modules \cup {None}]]
         /\ cache.names \in [0..Most - 1 -> Modules \cup {None}]
         /\ cache.mergers \in [0..Most - 1 -> Modules \cup {None}]
         /\ Prelinked \in Seq(Modules) /\ Loaded \in Seq(Modules) /\ Prelinked \o Loaded \in Seq(Modules)
         /\ list.total = Len(Preloaded) + Len(Loaded) /\ list.dynamic = Len(Loaded) /\ list.max = Most
         /\ Len(Loaded) <= DYNAMIC_MODULE_LIMIT
         /\ list.total \in Nat /\ list.length \in Nat /\ list.total <= list.length /\ list.length <= list.max
         /\ Most = Len(Preloaded) + DYNAMIC_MODULE_LIMIT + 1
         /\ Len(Preloaded) \in Nat /\ Len(Prelinked) \in Nat /\ DYNAMIC_MODULE_LIMIT \in Nat
         /\ Len(Prelinked \o Loaded) = Len(Prelinked) + Len(Loaded) /\ Len(Prelinked) <= Len(Preloaded)
<1>1. /\ Len(Preloaded) \in Nat /\ Len(Prelinked) \in Nat /\ DYNAMIC_MODULE_LIMIT \in Nat
      /\ Most = Len(Preloaded) + DYNAMIC_MODULE_LIMIT + 1 /\ Prelinked \in Seq(Modules)
      /\ Len(Prelinked) <= Len(Preloaded)
  BY ConfigModulesAssumption, PrelinkedFew DEF Most, ToSet
<1>2. Registry.mods = mods /\ Registry.list = list /\ Registry.cache = cache
  BY DEF Registry
<1>3. Registered(Registry, Prelinked \o Loaded, Loaded) /\ list.total <= list.length /\ list.length <= list.max
  BY DEF IInv
<1>4. /\ Registry \in RegistryType /\ Loaded \in Seq(Modules) /\ Prelinked \o Loaded \in Seq(Modules)
      /\ list.total = Len(Preloaded) + Len(Loaded) /\ list.dynamic = Len(Loaded) /\ list.max = Most
      /\ Len(Loaded) <= DYNAMIC_MODULE_LIMIT
  BY <1>2, <1>3 DEF Registered
<1>5. /\ list \in ListType /\ mods \in [Modules -> [index : Int, next : Modules \cup {None}]]
      /\ cache.names \in [0..Most - 1 -> Modules \cup {None}]
      /\ cache.mergers \in [0..Most - 1 -> Modules \cup {None}]
  BY <1>2, <1>4 DEF RegistryType
<1>6. list.total \in Nat /\ list.length \in Nat
  <2>1. Len(Loaded) \in Nat /\ list.length \in Int
    BY <1>4, <1>5 DEF ListType
  <2>2. QED
    BY <2>1, <1>1, <1>3, <1>4
<1>7. Len(Prelinked \o Loaded) = Len(Prelinked) + Len(Loaded)
  BY <1>1, <1>4
<1>8. QED
  BY <1>1, <1>2, <1>3, <1>4, <1>5, <1>6, <1>7

\* The modules a walk of the list meets.
LEMMA ActiveAre ==
  ASSUME IInv
  PROVE  /\ Chained(mods, list.top) = Reverse(Prelinked \o Loaded)
         /\ \A m \in Active : /\ m \in Modules /\ mods[m].index \in 0..list.total - 1
                              /\ cache.names[mods[m].index] = m /\ cache.mergers[mods[m].index] = m
         /\ \A m, k \in Active : mods[m].index = mods[k].index => m = k
<1> DEFINE A == Prelinked \o Loaded
           n == Len(A)
<1>1. /\ A \in Seq(Modules) /\ n \in Nat /\ n <= Most
      /\ list.total = Len(Preloaded) + Len(Loaded)
      /\ mods \in [Modules -> [index : Int, next : Modules \cup {None}]] /\ Loaded \in Seq(Modules)
  BY RegistryFacts
<1>2. /\ Linked(mods, list.top, A) /\ Indexed(mods, Loaded)
      /\ \A i \in 1..n : mods[A[i]].index # -1
      /\ \A i \in 1..n : cache.names[mods[A[i]].index] = A[i] /\ cache.mergers[mods[A[i]].index] = A[i]
  BY RegistryFacts DEF Registered
<1> HIDE DEF A
<1>3. Chained(mods, list.top) = Reverse(A)
  BY <1>1, <1>2, ChainedIs
<1>4. \A m \in Active : \E i \in 1..n : m = A[i]
  <2>1. DOMAIN Reverse(A) = 1..n /\ \A i \in 1..n : Reverse(A)[i] = A[n - i + 1]
    BY DEF Reverse
  <2>2. \A m \in Active : \E i \in 1..n : m = Reverse(A)[i]
    BY <1>3, <2>1 DEF Active, ToSet
  <2>3. \A i \in 1..n : n - i + 1 \in 1..n
    BY <1>1
  <2> HIDE DEF n
  <2>4. QED
    BY <2>1, <2>2, <2>3
<1>5. /\ \A m \in Modules : mods[m].index \in -1..Len(Preloaded) + Len(Loaded) - 1
      /\ \A m, k \in Modules : mods[m].index = mods[k].index /\ mods[m].index # -1 => m = k
  BY <1>1, <1>2, IndexedApart
<1>6. \A i \in 1..n : A[i] \in Modules
  BY <1>1
<1>7. ASSUME NEW m \in Active
      PROVE  /\ m \in Modules /\ mods[m].index \in 0..list.total - 1 /\ mods[m].index # -1
             /\ cache.names[mods[m].index] = m /\ cache.mergers[mods[m].index] = m
  <2>1. PICK i \in 1..n : m = A[i]
    BY <1>4
  <2>2. m \in Modules /\ mods[m].index # -1
    BY <2>1, <1>2, <1>6
  <2>3. mods[m].index \in -1..list.total - 1
    BY <2>2, <1>1, <1>5
  <2>4. list.total \in Int
    BY RegistryFacts
  <2>5. mods[m].index \in 0..list.total - 1
    BY <2>2, <2>3, <2>4
  <2>6. QED
    BY <2>1, <2>2, <2>5, <1>2
<1>8. QED
  BY <1>3, <1>5, <1>7 DEF A

\* The invariant says of the modules what is promised.
LEMMA ModulesFromIInv == IInv => ModulesSound
<1> SUFFICES ASSUME IInv PROVE ModulesSound
  OBVIOUS
<1>1. list.hash = Reverse(Prelinked \o Loaded) /\ wild = FALSE
  BY DEF IInv
<1>2. /\ list.total = Len(Preloaded) + Len(Loaded) /\ list.dynamic = Len(Loaded)
      /\ list.total <= list.length /\ list.total \in Nat /\ list.length \in Nat
  BY RegistryFacts
<1>3. /\ Chained(mods, list.top) = Reverse(Prelinked \o Loaded)
      /\ \A m \in Active : /\ mods[m].index \in 0..list.total - 1
                           /\ cache.names[mods[m].index] = m /\ cache.mergers[mods[m].index] = m
      /\ \A m, k \in Active : mods[m].index = mods[k].index => m = k
  BY ActiveAre
<1>4. \A m \in Active : mods[m].index \in 0..list.length - 1
  BY <1>2, <1>3
<1>5. \A m \in Active : \A k \in Active \ {m} : mods[k].index # mods[m].index
  BY <1>3
<1>6. QED
  BY <1>1, <1>2, <1>3, <1>4, <1>5 DEF ModulesSound

\* What the invariant says of server s while the configuration is read.
LEMMA ServerFacts ==
  ASSUME IInv, phase # "serve"
  PROVE  /\ servers \in Seq(ToSet(servers)) /\ Len(servers) \in Nat \ {0} /\ DOMAIN servers = 1..Len(servers)
         /\ \A s \in 1..Len(servers) :
              /\ ServerSound(servers[s], list.length)
              /\ phase = "read" => servers[s].log.modules = <<>>
<1>1. ServersSound
  BY DEF IInv
<1>2. QED
  BY <1>1 DEF ServersSound

\* Server s replaced by one with vectors as long.
LEMMA ServersKept ==
  ASSUME IInv, phase # "serve", NEW s \in 1..Len(servers), NEW of, ServerSound(of, list.length),
         phase = "read" => of.log.modules = <<>>,
         servers' = [servers EXCEPT ![s] = of], phase' = phase, list'.length = list.length
  PROVE  ServersSound'
<1> DEFINE n == Len(servers)
           V == ToSet(servers) \cup {of}
<1>1. /\ servers \in Seq(ToSet(servers)) /\ n \in Nat \ {0}
      /\ \A i \in 1..n : ServerSound(servers[i], list.length) /\ (phase = "read" => servers[i].log.modules = <<>>)
  BY ServerFacts
<1>2. servers' \in Seq(V) /\ Len(servers') = n
      /\ \A i \in 1..n : servers'[i] = IF i = s THEN of ELSE servers[i]
  BY <1>1
<1>3. servers' \in Seq(ToSet(servers'))
  BY <1>2, OfItsOwn
<1> HIDE DEF n
<1>4. \A i \in 1..n : ServerSound(servers'[i], list.length) /\ (phase = "read" => servers'[i].log.modules = <<>>)
  BY <1>1, <1>2
<1>5. QED
  BY <1>1, <1>2, <1>3, <1>4 DEF ServersSound

\* Once the configuration has been set up anew, as S, with the vectors of the main server.
LEMMA AnewKept ==
  ASSUME NEW S, Registered(S, Prelinked, <<>>), S.list.loaded = Preloaded, S.list.hash = Reverse(Prelinked),
         S.list.length = Most, S.list.reserved = 0
  PROVE  /\ S \in RegistryType /\ S.list.total = Len(Preloaded) /\ S.list.total <= S.list.length
         /\ S.list.max = Most /\ Most \in Nat
         /\ SubSeq(S.list.loaded, Len(Preloaded) + 1, Len(S.list.loaded)) = <<>>
         /\ S.list.loaded = Preloaded \o <<>> /\ Prelinked \o <<>> = Prelinked
         /\ ServerSound(init_server_config(S), Most) /\ init_server_config(S).log.modules = <<>>
<1>1. /\ Len(Preloaded) \in Nat /\ DYNAMIC_MODULE_LIMIT \in Nat
      /\ Most = Len(Preloaded) + DYNAMIC_MODULE_LIMIT + 1
      /\ Preloaded \o <<>> = Preloaded /\ Prelinked \o <<>> = Prelinked
  BY ConfigModulesAssumption DEF Most, ToSet
<1>2. S \in RegistryType /\ S.list.total = Len(Preloaded) + Len(<<>>) /\ S.list.max = Most
  BY DEF Registered
<1>3. SubSeq(S.list.loaded, Len(Preloaded) + 1, Len(S.list.loaded)) = <<>>
  <2> DEFINE L == <<>>
  <2>1. L \in Seq(Modules) /\ S.list.loaded = Preloaded \o L
    BY <1>1
  <2> HIDE DEF L
  <2>2. SubSeq(S.list.loaded, Len(Preloaded) + 1, Len(S.list.loaded)) = L
    BY <2>1, LoadedIs
  <2>3. QED
    BY <2>2 DEF L
<1>4. ServerSound(init_server_config(S), S.list.length) /\ init_server_config(S).log.modules = <<>>
  BY <1>1, ServerAnew
<1>5. QED
  BY <1>1, <1>2, <1>3, <1>4

LEMMA OneServer ==
  ASSUME NEW of, ServerSound(of, Most), of.log.modules = <<>>
  PROVE  servers = <<of>> /\ list.length = Most => ServersSound
<1> SUFFICES ASSUME servers = <<of>>, list.length = Most PROVE ServersSound
  OBVIOUS
<1>1. servers \in Seq({of}) /\ Len(servers) = 1 /\ servers[1] = of
  OBVIOUS
<1>2. servers \in Seq(ToSet(servers))
  BY <1>1, OfItsOwn
<1>3. \A s \in 1..1 : s = 1
  OBVIOUS
<1>4. QED
  BY <1>1, <1>2, <1>3 DEF ServersSound

\* The first reading begins with the invariant.
LEMMA InitSound == ModulesInit => IInv
<1> SUFFICES ASSUME ModulesInit PROVE IInv
  OBVIOUS
<1> DEFINE S == ap_setup_prelinked_modules
<1>1. /\ Registered(S, Prelinked, <<>>) /\ S.list.loaded = Preloaded /\ S.list.hash = Reverse(Prelinked)
      /\ S.list.length = Most /\ S.list.reserved = 0
  BY SetupKept
<1>2. /\ mods = S.mods /\ list = S.list /\ cache = S.cache /\ servers = <<init_server_config(S)>>
      /\ phase = "read" /\ wild = FALSE
  BY DEF ModulesInit
<1> HIDE DEF S
<1>3. /\ S \in RegistryType /\ S.list.total = Len(Preloaded) /\ S.list.total <= S.list.length
      /\ S.list.max = Most /\ Most \in Nat
      /\ SubSeq(S.list.loaded, Len(Preloaded) + 1, Len(S.list.loaded)) = <<>>
      /\ S.list.loaded = Preloaded \o <<>> /\ Prelinked \o <<>> = Prelinked
      /\ ServerSound(init_server_config(S), Most) /\ init_server_config(S).log.modules = <<>>
  BY <1>1, AnewKept
<1>4. Registry = S
  <2>1. S = [mods |-> S.mods, list |-> S.list, cache |-> S.cache]
    BY <1>3 DEF RegistryType
  <2>2. QED
    BY <2>1, <1>2 DEF Registry
<1>5. Loaded = <<>>
  BY <1>2, <1>3 DEF Loaded
<1>6. ServersSound
  BY <1>1, <1>2, <1>3, OneServer
<1>7. Registered(Registry, Prelinked \o Loaded, Loaded)
  BY <1>1, <1>3, <1>4, <1>5
<1>8. list.loaded = Preloaded \o Loaded /\ list.hash = Reverse(Prelinked \o Loaded)
  BY <1>1, <1>2, <1>3, <1>5
<1>9. list.reserved \in Nat /\ list.total <= list.length /\ list.length = list.max
  BY <1>1, <1>2, <1>3
<1>10. list.length <= list.max
  BY <1>1, <1>2, <1>3
<1>11. QED
  BY <1>2, <1>6, <1>7, <1>8, <1>9, <1>10 DEF IInv

\* A step that leaves the modules, and of the list all but the reserved slots and the length.
LEMMA ModulesSame ==
  ASSUME IInv, mods' = mods, cache' = cache, list' \in ListType,
         list'.top = list.top, list'.loaded = list.loaded, list'.hash = list.hash,
         list'.total = list.total, list'.dynamic = list.dynamic, list'.max = list.max
  PROVE  /\ Registered(Registry, Prelinked \o Loaded, Loaded)'
         /\ (list.loaded = Preloaded \o Loaded /\ list.hash = Reverse(Prelinked \o Loaded))'
<1>1. Loaded' = Loaded
  BY DEF Loaded
<1>2. Registry' = [mods |-> Registry.mods, list |-> list', cache |-> Registry.cache] /\ Registry'.list = list'
      /\ Registry.list = list
  BY DEF Registry
<1>3. Registered(Registry, Prelinked \o Loaded, Loaded)
  BY RegistryFacts
<1> DEFINE T == Registry'
<1>4. Registered(T, Prelinked \o Loaded, Loaded)
  <2>1. /\ T.list.top = Registry.list.top /\ T.list.total = Registry.list.total
        /\ T.list.dynamic = Registry.list.dynamic /\ T.list.max = Registry.list.max /\ T.list \in ListType
    BY <1>2
  <2>2. T = [mods |-> Registry.mods, list |-> T.list, cache |-> Registry.cache]
    BY <1>2
  <2> HIDE DEF T
  <2>3. QED
    BY <2>1, <2>2, <1>3, RegisteredSame
<1>5. list.loaded = Preloaded \o Loaded /\ list.hash = Reverse(Prelinked \o Loaded)
  BY DEF IInv
<1>6. QED
  BY <1>1, <1>4, <1>5

\* A module that is loaded gets the next slot, within the vectors of the main server.
LEMMA LoadKept == ASSUME IInv, NEW m \in Modules, Load(m) PROVE IInv'
<1> DEFINE S == ap_add_module(Registry, m)
           L == Append(Loaded, m)
           T == [S EXCEPT !.list.loaded = Append(list.loaded, m)]
           index == T.mods[m].index
           of == Configured(servers[1], m, index)
           A == Prelinked \o Loaded
<1>1. /\ phase \in {"read", "config"} /\ mods[m].index = -1
      /\ list.dynamic < DYNAMIC_MODULE_LIMIT
      /\ phase = "config" => list.reserved > 0 /\ list.total < list.length
      /\ Becomes(T) /\ servers' = [servers EXCEPT ![1] = of]
      /\ wild' = (wild \/ index \notin DOMAIN servers[1].config \/ index >= list.length)
      /\ phase' = phase
  BY DEF Load
<1>2. /\ Registered(Registry, A, Loaded) /\ Loaded \in Seq(Modules) /\ A \in Seq(Modules) /\ Len(A) \in Nat
      /\ Registry.mods = mods /\ Registry.list = list
      /\ list.total = Len(Preloaded) + Len(Loaded) /\ list.dynamic = Len(Loaded) /\ list.max = Most
      /\ list.total \in Nat /\ list.length \in Nat /\ list.length <= list.max
      /\ Most = Len(Preloaded) + DYNAMIC_MODULE_LIMIT + 1 /\ list \in ListType
      /\ Len(Preloaded) \in Nat /\ DYNAMIC_MODULE_LIMIT \in Nat /\ Prelinked \in Seq(Modules)
  BY RegistryFacts
<1>3. /\ list.loaded = Preloaded \o Loaded /\ list.hash = Reverse(A) /\ list.reserved \in Nat /\ wild = FALSE
      /\ phase = "read" => list.length = list.max
  BY DEF IInv
<1>4. \A i \in 1..Len(A) : A[i] # m
  <2>1. \A i \in 1..Len(A) : Registry.mods[A[i]].index # -1
    BY <1>2 DEF Registered
  <2>2. QED
    BY <2>1, <1>1, <1>2
<1>5. LoadedWith(Registry, Loaded, m) = L /\ SlotOf(Registry, m) = list.total
  BY <1>1, <1>2 DEF LoadedWith, SlotOf
<1>6. Len(Loaded) < DYNAMIC_MODULE_LIMIT
  BY <1>1, <1>2
<1> HIDE DEF A, L
<1>7. /\ Registered(S, Append(A, m), L) /\ S.mods[m].index = list.total
      /\ S.list.hash = <<m>> \o list.hash /\ S.list.length = list.length /\ S.list.reserved = list.reserved
  <2>1. Registered(Registry, A, Loaded) /\ Registry.list = list
    BY <1>2
  <2>2. /\ Registered(S, Append(A, m), LoadedWith(Registry, Loaded, m)) /\ S.mods[m].index = SlotOf(Registry, m)
        /\ S.list.hash = <<m>> \o Registry.list.hash
        /\ S.list.length = Registry.list.length /\ S.list.reserved = Registry.list.reserved
    <3>1. Registry.mods[m].index = -1 => Len(Loaded) < DYNAMIC_MODULE_LIMIT
      BY <1>6
    <3> HIDE DEF S
    <3>2. QED
      BY <2>1, <3>1, <1>4, AddKept, SMTT(30) DEF S
  <2>3. QED
    BY <2>1, <2>2, <1>5
<1>8. L \in Seq(Modules) /\ Len(L) = Len(Loaded) + 1 /\ Append(list.loaded, m) = Preloaded \o L
      /\ Append(A, m) = Prelinked \o L /\ Append(list.loaded, m) \in Seq(Modules)
  <2>1. Preloaded \in Seq(Modules)
    BY ConfigModulesAssumption
  <2>2. L \in Seq(Modules) /\ Len(L) = Len(Loaded) + 1
    BY <1>2 DEF L
  <2>3. Preloaded \o Append(Loaded, m) = Append(Preloaded \o Loaded, m)
    BY <2>1, <1>2, ConcatAppend
  <2>4. Prelinked \o Append(Loaded, m) = Append(Prelinked \o Loaded, m)
    BY <1>2, ConcatAppend
  <2>5. Append(list.loaded, m) \in Seq(Modules)
    BY <1>2 DEF ListType
  <2>6. QED
    BY <2>2, <2>3, <2>4, <2>5, <1>3 DEF L, A
<1> HIDE DEF S
<1>9. S \in RegistryType /\ S.list \in ListType /\ S = [mods |-> S.mods, list |-> S.list, cache |-> S.cache]
  BY <1>7 DEF Registered, RegistryType
<1>10. /\ T = [mods |-> S.mods, list |-> T.list, cache |-> S.cache] /\ T.mods = S.mods
       /\ T.list.top = S.list.top /\ T.list.total = S.list.total /\ T.list.dynamic = S.list.dynamic
       /\ T.list.max = S.list.max /\ T.list.loaded = Append(list.loaded, m) /\ T.list \in ListType
       /\ T.list.hash = S.list.hash /\ T.list.length = S.list.length /\ T.list.reserved = S.list.reserved
  <2> DEFINE loaded == Append(list.loaded, m)
  <2> HIDE DEF loaded
  <2>1. T = [S EXCEPT !.list.loaded = loaded]
    BY DEF loaded
  <2>2. loaded \in Seq(Modules)
    BY <1>8 DEF loaded
  <2> HIDE DEF T
  <2>3. QED
    BY <2>1, <2>2, <1>9 DEF loaded, ListType
<1> HIDE DEF T
<1>11. Registered(T, Prelinked \o L, L)
  BY <1>7, <1>8, <1>10, RegisteredSame
<1>12. Registry' = T /\ Loaded' = L /\ list' = T.list
  <2>1. T \in RegistryType /\ T.list.loaded = Preloaded \o L
    BY <1>8, <1>10, <1>11 DEF Registered
  <2>2. QED
    BY <2>1, <1>1, <1>8, Becoming
<1>13. T.list.hash = Reverse(Prelinked \o L)
  BY <1>2, <1>3, <1>7, <1>8, <1>10, ReverseAppend
<1>14. list'.total = list.total + 1 /\ list'.length = list.length /\ list'.max = list.max /\ list'.reserved \in Nat
  <2>1. T.list.total = Len(Preloaded) + Len(L) /\ T.list.max = Most
    BY <1>11 DEF Registered
  <2>2. T.list.length = list.length /\ T.list.reserved = list.reserved
    BY <1>7, <1>10
  <2>3. list' = T.list /\ Len(L) = Len(Loaded) + 1 /\ list.reserved \in Nat
    BY <1>3, <1>8, <1>12
  <2>4. QED
    BY <2>1, <2>2, <2>3, <1>2
<1>15. list.total < list.length
  BY <1>1, <1>2, <1>3, <1>6
<1>16. index = list.total
  BY <1>7, <1>10
<1> HIDE DEF index
<1>17. /\ 1 \in 1..Len(servers) /\ ServerSound(servers[1], list.length)
       /\ phase = "read" => servers[1].log.modules = <<>>
  BY <1>1, ServerFacts
<1>18. /\ ServerSound(of, list.length) /\ of.log = servers[1].log /\ index \in DOMAIN servers[1].config
  <2> DEFINE main == servers[1]
             c == IF m \in PerServer THEN [main.config EXCEPT ![index] = Made(m, 1)] ELSE main.config
             d == IF m \in PerDir THEN [main.dir EXCEPT ![index] = Made(m, 1)] ELSE main.dir
  <2>1. PICK k \in Nat : k >= list.length /\ Vector(main.config, k) /\ Vector(main.dir, k)
    BY <1>17 DEF ServerSound
  <2>2. /\ main = [config |-> main.config, dir |-> main.dir, log |-> main.log]
        /\ main.log = [level |-> main.log.level, modules |-> main.log.modules]
        /\ main.log.modules = <<>> \/ Vector(main.log.modules, list.length)
    BY <1>17 DEF ServerSound
  <2>3. index \in 0..k - 1 /\ DOMAIN main.config = 0..k - 1 /\ DOMAIN main.dir = 0..k - 1
    BY <2>1, <1>2, <1>15, <1>16 DEF Vector
  <2>4. Vector(c, k) /\ Vector(d, k)
    BY <2>1, <2>3 DEF Vector
  <2>5. of = [config |-> c, dir |-> d, log |-> main.log]
    <3>1. of = [main EXCEPT !.config = c, !.dir = d]
      BY DEF Configured
    <3> HIDE DEF c, d, main, of
    <3>2. QED
      BY <3>1, <2>2
  <2> HIDE DEF c, d, main, of
  <2>6. of.config = c /\ of.dir = d /\ of.log = main.log /\ of = [config |-> of.config, dir |-> of.dir, log |-> of.log]
    BY <2>5
  <2>7. QED
    BY <2>1, <2>2, <2>3, <2>4, <2>6 DEF ServerSound, main
<1> HIDE DEF of
<1>19. ServersSound'
  BY <1>1, <1>14, <1>17, <1>18, ServersKept
<1>20. wild' = FALSE
  <2>1. index \in DOMAIN servers[1].config /\ ~ (index >= list.length)
    BY <1>2, <1>15, <1>16, <1>18
  <2>2. QED
    BY <2>1, <1>1, <1>3
<1>21. Registered(Registry, Prelinked \o Loaded, Loaded)'
  BY <1>11, <1>12
<1>22. (list.loaded = Preloaded \o Loaded /\ list.hash = Reverse(Prelinked \o Loaded))'
  BY <1>8, <1>10, <1>12, <1>13
<1>23. list'.total <= list'.length /\ list'.length <= list'.max /\ (phase' = "read" => list'.length = list'.max)
  BY <1>1, <1>2, <1>3, <1>14, <1>15
<1>24. QED
  BY <1>1, <1>14, <1>19, <1>20, <1>21, <1>22, <1>23 DEF IInv

LEMMA ReserveKept == ASSUME IInv, ap_reserve_module_slots PROVE IInv'
<1>1. /\ phase = "read" /\ phase' = phase /\ list' = [list EXCEPT !.reserved = @ + 1]
      /\ mods' = mods /\ cache' = cache /\ servers' = servers /\ wild' = wild
  BY DEF ap_reserve_module_slots
<1>2. list \in ListType /\ list.reserved \in Nat
  BY RegistryFacts DEF IInv
<1>3. /\ list' \in ListType /\ list'.reserved \in Nat /\ list'.length = list.length
      /\ list'.top = list.top /\ list'.loaded = list.loaded /\ list'.hash = list.hash
      /\ list'.total = list.total /\ list'.dynamic = list.dynamic /\ list'.max = list.max
  BY <1>1, <1>2, SMTT(30) DEF ListType
<1>4. /\ Registered(Registry, Prelinked \o Loaded, Loaded)'
      /\ (list.loaded = Preloaded \o Loaded /\ list.hash = Reverse(Prelinked \o Loaded))'
      /\ list'.total = list.total /\ list'.max = list.max
  BY <1>1, <1>3, ModulesSame
<1>5. ServersSound'
  BY <1>1, <1>3 DEF IInv, ServersSound
<1>6. list'.total <= list'.length /\ list'.length = list'.max /\ wild' = FALSE
  BY <1>1, <1>3, <1>4 DEF IInv
<1>7. list'.length <= list'.max
  BY <1>3, <1>4 DEF IInv
<1>8. QED
  BY <1>1, <1>3, <1>4, <1>5, <1>6, <1>7 DEF IInv

\* Vectors that are as long as there can be modules are long enough once fewer slots are needed.
LEMMA TrimKept == ASSUME IInv, conf_vector_length_pre_config PROVE IInv'
<1> DEFINE n == list'.length
<1>1. /\ phase = "read" /\ phase' = "config" /\ mods' = mods /\ cache' = cache /\ servers' = servers /\ wild' = wild
      /\ list' = [list EXCEPT !.length = IF list.total + list.reserved < list.max
                                         THEN list.total + list.reserved ELSE @]
  BY DEF conf_vector_length_pre_config
<1>2. /\ list \in ListType /\ list.reserved \in Nat /\ list.total \in Nat /\ list.length \in Nat
      /\ list.total <= list.length /\ list.length = list.max /\ wild = FALSE
  BY <1>1, RegistryFacts DEF IInv
<1>3. /\ list' \in ListType /\ list'.reserved = list.reserved
      /\ n = IF list.total + list.reserved < list.max THEN list.total + list.reserved ELSE list.length
      /\ list'.top = list.top /\ list'.loaded = list.loaded /\ list'.hash = list.hash
      /\ list'.total = list.total /\ list'.dynamic = list.dynamic /\ list'.max = list.max
  BY <1>1, <1>2, SMTT(30) DEF ListType
<1>4. n \in Nat /\ list.total <= n /\ n <= list.length
  BY <1>2, <1>3
<1>5. /\ Registered(Registry, Prelinked \o Loaded, Loaded)'
      /\ (list.loaded = Preloaded \o Loaded /\ list.hash = Reverse(Prelinked \o Loaded))'
      /\ list'.total = list.total /\ list'.max = list.max
  BY <1>1, <1>3, ModulesSame
<1> HIDE DEF n
<1>6. ServersSound'
  <2>1. /\ servers \in Seq(ToSet(servers)) /\ Len(servers) > 0
        /\ \A s \in 1..Len(servers) : ServerSound(servers[s], list.length) /\ servers[s].log.modules = <<>>
    BY <1>1, ServerFacts
  <2>2. ASSUME NEW s \in 1..Len(servers) PROVE ServerSound(servers[s], n)
    <3> DEFINE of == servers[s]
    <3>1. /\ of = [config |-> of.config, dir |-> of.dir, log |-> of.log]
          /\ of.log = [level |-> of.log.level, modules |-> of.log.modules] /\ of.log.modules = <<>>
          /\ \E k \in Nat : k >= list.length /\ Vector(of.config, k) /\ Vector(of.dir, k)
      BY <2>1 DEF ServerSound
    <3> HIDE DEF of
    <3>2. \E k \in Nat : k >= n /\ Vector(of.config, k) /\ Vector(of.dir, k)
      BY <3>1, <1>2, <1>4
    <3>3. QED
      BY <3>1, <3>2 DEF ServerSound, of
  <2>3. QED
    BY <2>1, <2>2, <1>1 DEF ServersSound, n
<1>7. list'.total <= list'.length /\ list'.length <= list'.max /\ list'.reserved \in Nat
  BY <1>2, <1>3, <1>4, <1>5 DEF n
<1>8. QED
  BY <1>1, <1>2, <1>5, <1>6, <1>7 DEF IInv

\* A step that leaves the registry and its phase.
LEMMA RegistrySame ==
  ASSUME IInv, mods' = mods, cache' = cache, list' = list, phase # "serve", phase' = phase, wild' = FALSE, ServersSound'
  PROVE  IInv'
<1>1. Registry' = Registry /\ Loaded' = Loaded
  BY DEF Registry, Loaded
<1>2. QED
  BY <1>1 DEF IInv

LEMMA HostKept == ASSUME IInv, ap_init_virtual_host PROVE IInv'
<1> DEFINE n == list.length
           of == [config |-> Empty(n), dir |-> Empty(n), log |-> NewLog(UNSET)]
           N == Len(servers)
           V == ToSet(servers) \cup {of}
<1>1. /\ phase = "config" /\ phase' = phase /\ servers' = Append(servers, of)
      /\ mods' = mods /\ cache' = cache /\ list' = list /\ wild' = wild
  BY DEF ap_init_virtual_host
<1>2. n \in Nat /\ wild = FALSE
  BY RegistryFacts DEF IInv
<1>3. Vector(Empty(n), n)
  <2> HIDE DEF n
  <2>1. QED
    BY DEF Vector, Empty
<1>4. ServerSound(of, n)
  <2> DEFINE e == Empty(n)
  <2>1. of = [config |-> e, dir |-> e, log |-> [level |-> UNSET, modules |-> <<>>]]
    BY DEF NewLog
  <2>2. Vector(e, n) /\ n >= n
    BY <1>2, <1>3
  <2> HIDE DEF e, of, n
  <2>3. /\ of.config = e /\ of.dir = e /\ of.log = [level |-> UNSET, modules |-> <<>>]
        /\ of = [config |-> of.config, dir |-> of.dir, log |-> of.log]
    BY <2>1
  <2>4. of.log.modules = <<>> /\ of.log = [level |-> of.log.level, modules |-> of.log.modules]
    BY <2>3
  <2>5. QED
    BY <2>2, <2>3, <2>4, <1>2 DEF ServerSound
<1> HIDE DEF of
<1>5. servers \in Seq(ToSet(servers)) /\ N \in Nat \ {0} /\ \A s \in 1..N : ServerSound(servers[s], n)
  BY <1>1, ServerFacts
<1>6. /\ servers' \in Seq(V) /\ Len(servers') = N + 1
      /\ \A s \in 1..N + 1 : servers'[s] = IF s = N + 1 THEN of ELSE servers[s]
  BY <1>1, <1>5
<1>7. servers' \in Seq(ToSet(servers'))
  BY <1>6, OfItsOwn
<1> HIDE DEF N, n
<1>8. \A s \in 1..Len(servers') : ServerSound(servers'[s], n)
  BY <1>4, <1>5, <1>6
<1>9. ServersSound'
  BY <1>1, <1>5, <1>6, <1>7, <1>8 DEF ServersSound, n
<1>10. QED
  BY <1>1, <1>2, <1>9, RegistrySame

\* The slot of an active module is inside the vectors of every server.
LEMMA SlotInside ==
  ASSUME IInv, phase # "serve", NEW s \in 1..Len(servers), NEW m \in Active
  PROVE  /\ mods[m].index \in 0..list.length - 1
         /\ mods[m].index \in DOMAIN servers[s].config /\ mods[m].index \in DOMAIN servers[s].dir
         /\ servers[s].log.modules # <<>> => mods[m].index \in DOMAIN servers[s].log.modules
<1> DEFINE i == mods[m].index
<1>1. i \in 0..list.total - 1
  BY ActiveAre
<1> HIDE DEF i
<1>2. list.total \in Nat /\ list.length \in Nat /\ list.total <= list.length
  BY RegistryFacts
<1>3. ServerSound(servers[s], list.length)
  BY ServerFacts
<1>4. i \in 0..list.length - 1
  BY <1>1, <1>2
<1>5. PICK k \in Nat : k >= list.length /\ Vector(servers[s].config, k) /\ Vector(servers[s].dir, k)
  BY <1>3 DEF ServerSound
<1>6. i \in 0..k - 1
  BY <1>2, <1>4, <1>5
<1>7. i \in DOMAIN servers[s].config /\ i \in DOMAIN servers[s].dir
  BY <1>5, <1>6 DEF Vector
<1>8. servers[s].log.modules # <<>> => i \in DOMAIN servers[s].log.modules
  BY <1>3, <1>4 DEF ServerSound, Vector
<1>9. QED
  BY <1>4, <1>7, <1>8 DEF i

LEMMA VectorsKept == ASSUME IInv, NEW s \in DOMAIN servers, NEW m \in Modules, ap_set_config_vectors(s, m) PROVE IInv'
<1> DEFINE i == mods[m].index
           of == servers[s]
           c == IF of.config[i] = <<>> /\ m \in PerServer THEN Made(m, s) ELSE of.config[i]
           d == IF of.dir[i] = <<>> /\ m \in PerDir THEN Made(m, s) ELSE of.dir[i]
           C == [of.config EXCEPT ![i] = c]
           D == [of.dir EXCEPT ![i] = d]
           new == [of EXCEPT !.dir = D, !.config = C]
<1>1. /\ phase = "config" /\ m \in Active /\ phase' = phase /\ mods' = mods /\ cache' = cache /\ list' = list
      /\ wild' = (wild \/ i \notin DOMAIN of.config \/ i \notin DOMAIN of.dir)
      /\ servers' = [servers EXCEPT ![s].dir[i] = d, ![s].config[i] = c]
  BY DEF ap_set_config_vectors
<1>2. s \in 1..Len(servers) /\ ServerSound(of, list.length) /\ servers \in Seq(ToSet(servers))
  BY <1>1, ServerFacts
<1>3. i \in 0..list.length - 1 /\ i \in DOMAIN of.config /\ i \in DOMAIN of.dir
  BY <1>1, <1>2, SlotInside
<1>4. wild' = FALSE
  <2> HIDE DEF of, i
  <2>1. wild = FALSE
    BY DEF IInv
  <2>2. QED
    BY <2>1, <1>1, <1>3
<1>5. /\ of = [config |-> of.config, dir |-> of.dir, log |-> of.log]
      /\ of.log = [level |-> of.log.level, modules |-> of.log.modules]
      /\ of.log.modules = <<>> \/ Vector(of.log.modules, list.length)
      /\ \E k \in Nat : k >= list.length /\ Vector(of.config, k) /\ Vector(of.dir, k)
  BY <1>2 DEF ServerSound
<1>6. PICK k \in Nat : k >= list.length /\ Vector(of.config, k) /\ Vector(of.dir, k)
  BY <1>5
<1> HIDE DEF c, d, i
<1>7. servers' = [servers EXCEPT ![s] = new]
  <2> HIDE DEF of
  <2>1. servers' = [servers EXCEPT ![s].dir[i] = d, ![s].config[i] = c]
    BY <1>1
  <2>2. servers[s] = of /\ of = [config |-> of.config, dir |-> of.dir, log |-> of.log]
    BY <1>5 DEF of
  <2>3. QED
    BY <2>1, <2>2, <1>2
<1>8. Vector(C, k) /\ Vector(D, k)
  BY <1>3, <1>6 DEF Vector
<1> HIDE DEF C, D, of
<1>9. /\ new.config = C /\ new.dir = D /\ new.log = of.log
      /\ new = [config |-> new.config, dir |-> new.dir, log |-> new.log]
  <2>1. new = [config |-> C, dir |-> D, log |-> of.log]
    <3>1. of = [config |-> of.config, dir |-> of.dir, log |-> of.log]
      BY <1>5
    <3> DEFINE a == of.config
               b == of.dir
               g == of.log
    <3> HIDE DEF a, b, g
    <3>2. of = [config |-> a, dir |-> b, log |-> g]
      BY <3>1 DEF a, b, g
    <3> DEFINE e == [of EXCEPT !.dir = D]
    <3>3. new = [e EXCEPT !.config = C]
      OBVIOUS
    <3>4. e = [config |-> a, dir |-> D, log |-> g]
      BY <3>2
    <3> HIDE DEF e, new
    <3>5. new = [config |-> C, dir |-> D, log |-> g]
      BY <3>3, <3>4
    <3>6. QED
      BY <3>5 DEF g
  <2> HIDE DEF new
  <2>2. QED
    BY <2>1
<1> HIDE DEF new
<1>10. ServerSound(new, list.length)
  BY <1>5, <1>6, <1>8, <1>9 DEF ServerSound
<1>11. ServersSound'
  BY <1>1, <1>2, <1>7, <1>10, ServersKept
<1>12. QED
  BY <1>1, <1>4, <1>11, RegistrySame

LEMMA LevelKept ==
  ASSUME IInv, NEW s \in DOMAIN servers, NEW m \in Modules \cup {None}, NEW level, SetLevel(s, m, level)
  PROVE  IInv'
<1> DEFINE of == servers[s]
           n == list.length
           l == of.log
           g == IF m = None THEN [reset_module_loglevels(l, NO_MODULE) EXCEPT !.level = level]
                ELSE set_module_loglevel(l, mods[m].index, level)
           new == [of EXCEPT !.log = g]
<1>1. /\ phase = "config" /\ (m # None => m \in Active) /\ phase' = phase
      /\ mods' = mods /\ cache' = cache /\ list' = list
      /\ servers' = [servers EXCEPT ![s].log = g]
      /\ wild' = (wild \/ (m # None /\ l.modules # <<>> /\ mods[m].index \notin DOMAIN l.modules))
  BY DEF SetLevel
<1>2. s \in 1..Len(servers) /\ ServerSound(of, n) /\ servers \in Seq(ToSet(servers))
  BY <1>1, ServerFacts
<1>3. m # None => mods[m].index \in 0..n - 1 /\ (l.modules # <<>> => mods[m].index \in DOMAIN l.modules)
  BY <1>1, <1>2, SlotInside
<1>4. wild' = FALSE
  <2> HIDE DEF l
  <2>1. wild = FALSE
    BY DEF IInv
  <2>2. QED
    BY <2>1, <1>1, <1>3
<1>5. /\ of = [config |-> of.config, dir |-> of.dir, log |-> l]
      /\ l = [level |-> l.level, modules |-> l.modules]
      /\ l.modules = <<>> \/ Vector(l.modules, n)
      /\ \E k \in Nat : k >= n /\ Vector(of.config, k) /\ Vector(of.dir, k)
  BY <1>2 DEF ServerSound
<1>6. servers' = [servers EXCEPT ![s] = new]
  <2> HIDE DEF g
  <2>1. servers' = [servers EXCEPT ![s].log = g]
    BY <1>1
  <2>2. QED
    BY <2>1, <1>2
<1> HIDE DEF of, l, n
<1>7. /\ g = [level |-> g.level, modules |-> g.modules]
      /\ g.modules = <<>> \/ Vector(g.modules, n)
  <2>1. CASE m = None
    <3> DEFINE v == [i \in DOMAIN l.modules |-> NO_MODULE]
    <3>1. CASE l.modules = <<>>
      <4>1. g = [l EXCEPT !.level = level]
        BY <2>1, <3>1 DEF reset_module_loglevels
      <4>2. g = [level |-> level, modules |-> <<>>]
        BY <4>1, <3>1, <1>5
      <4> HIDE DEF g
      <4>3. QED
        BY <4>2
    <3>2. CASE l.modules # <<>>
      <4>1. g = [[l EXCEPT !.modules = v] EXCEPT !.level = level]
        BY <2>1, <3>2 DEF reset_module_loglevels
      <4>2. Vector(v, n)
        BY <3>2, <1>5 DEF Vector
      <4> HIDE DEF g, v
      <4>3. g = [level |-> level, modules |-> v]
        BY <4>1, <1>5
      <4>4. QED
        BY <4>2, <4>3
    <3>3. QED
      BY <3>1, <3>2
  <2>2. CASE m # None
    <3> DEFINE all == [i \in 0..n - 1 |-> IF l.level = UNSET THEN UNSET ELSE NO_MODULE]
               levels == IF l.modules = <<>> THEN all ELSE l.modules
               index == mods[m].index
               v == [levels EXCEPT ![index] = level]
    <3>1. g = [l EXCEPT !.modules = v]
      BY <2>2 DEF set_module_loglevel, n
    <3>2. Vector(levels, n)
      <4>1. Vector(all, n)
        BY DEF Vector
      <4> HIDE DEF all
      <4>2. QED
        BY <4>1, <1>5
    <3> HIDE DEF levels, g
    <3>3. Vector(v, n)
      BY <3>2 DEF Vector
    <3> HIDE DEF v
    <3>4. g = [level |-> l.level, modules |-> v]
      BY <3>1, <1>5
    <3>5. QED
      BY <3>3, <3>4
  <2>3. QED
    BY <2>1, <2>2
<1> HIDE DEF g
<1>8. /\ new.config = of.config /\ new.dir = of.dir /\ new.log = g
      /\ new = [config |-> new.config, dir |-> new.dir, log |-> new.log]
  <2>1. new = [config |-> of.config, dir |-> of.dir, log |-> g]
    BY <1>5
  <2> HIDE DEF new
  <2>2. QED
    BY <2>1
<1> HIDE DEF new
<1>9. ServerSound(new, n)
  BY <1>5, <1>7, <1>8 DEF ServerSound
<1>10. ServersSound'
  BY <1>1, <1>2, <1>6, <1>9, ServersKept DEF n
<1>11. QED
  BY <1>1, <1>4, <1>10, RegistrySame

LEMMA FixupKept == ASSUME IInv, ap_fixup_virtual_hosts PROVE IInv'
<1>1. phase' = "serve" /\ mods' = mods /\ cache' = cache /\ list' = list /\ wild' = wild
  BY DEF ap_fixup_virtual_hosts
<1>2. Registry' = Registry /\ Loaded' = Loaded
  BY <1>1 DEF Registry, Loaded
<1>3. QED
  BY <1>1, <1>2 DEF IInv

\* After the loaded modules are removed, the last one first, those compiled in are left.
LEMMA AllGone ==
  ASSUME NEW S, NEW L \in Seq(Modules), Registered(S, Prelinked \o L, L), S.list.loaded = Preloaded \o L
  PROVE  LET R == AllRemoved(S, Reverse(L)) IN
         /\ Registered(R, Prelinked, <<>>) /\ R.list.loaded = Preloaded
         /\ R.list.length = S.list.length /\ R.list.reserved = S.list.reserved
<1> DEFINE n == Len(L)
           ms == Reverse(L)
           Rest(k) == SubSeq(L, 1, n - k)
           Kept(T, k) == /\ Registered(T, Prelinked \o Rest(k), Rest(k)) /\ T.list.loaded = Preloaded \o Rest(k)
                         /\ T.list.length = S.list.length /\ T.list.reserved = S.list.reserved
           R == AllRemoved(S, ms)
<1>1. n \in Nat /\ Len(ms) = n /\ \A k \in 1..n : ms[k] = L[n - k + 1]
  BY DEF Reverse
<1>2. /\ Prelinked \in Seq(Modules) /\ Preloaded \in Seq(Modules) /\ Len(Prelinked) <= Len(Preloaded)
      /\ Len(Preloaded) \in Nat /\ Len(Prelinked) \in Nat /\ DYNAMIC_MODULE_LIMIT \in Nat
      /\ Most = Len(Preloaded) + DYNAMIC_MODULE_LIMIT + 1
  BY ConfigModulesAssumption, PrelinkedFew DEF ToSet, Most
<1> HIDE DEF ms, R, n
<1>3. PICK f : f[0] = S /\ R = f[n] /\ \A k \in 1..n : f[k] = ap_remove_loaded_module(f[k - 1], ms[k])
  <2>1. Len(ms) \in Nat
    BY <1>1
  <2>2. \E f : /\ f[0] = S /\ AllRemoved(S, ms) = f[Len(ms)]
               /\ \A k \in 1..Len(ms) : f[k] = ap_remove_loaded_module(f[k - 1], ms[k])
    BY <2>1, RemovedSteps
  <2>3. QED
    BY <2>2, <1>1 DEF R
<1>4. Kept(f[0], 0)
  <2>1. Rest(0) = L
    BY <1>1 DEF n
  <2>2. QED
    BY <2>1, <1>3
<1>5. ASSUME NEW k \in 1..n, Kept(f[k - 1], k - 1) PROVE Kept(f[k], k)
  <2> DEFINE T == f[k - 1]
             m == ms[k]
             A == Prelinked \o Rest(k)
             K == Rest(k)
  <2> DEFINE j == n - k + 1
  <2>1. j \in 1..Len(L) /\ n - (k - 1) = j /\ j - 1 = n - k /\ ms[k] = L[j] /\ L[j] \in Modules
    BY <1>1 DEF n
  <2> HIDE DEF j
  <2>2. /\ SubSeq(L, 1, j) = Append(SubSeq(L, 1, j - 1), L[j])
        /\ SubSeq(L, 1, j - 1) \in Seq(Modules) /\ Len(SubSeq(L, 1, j - 1)) = j - 1
    BY <2>1, FirstAppend
  <2>3. Rest(k - 1) = Append(K, m) /\ K \in Seq(Modules) /\ Len(K) = n - k /\ m \in Modules
    BY <2>1, <2>2
  <2> HIDE DEF Rest, m, T
  <2>4. /\ A \in Seq(Modules) /\ Len(A) = Len(Prelinked) + Len(K)
        /\ Prelinked \o Append(K, m) = Append(A, m)
        /\ Len(Append(K, m)) = Len(K) + 1 /\ Len(K) \in Nat
    <3> HIDE DEF K
    <3>1. Len(Append(K, m)) = Len(K) + 1 /\ Len(K) \in Nat
      BY <2>3
    <3>2. QED
      BY <2>3, <3>1, <1>2, ConcatAppend DEF K
  <2>5. /\ Registered(T, Append(A, m), Append(K, m)) /\ T.list.loaded = Preloaded \o Append(K, m)
        /\ T.list.length = S.list.length /\ T.list.reserved = S.list.reserved
    BY <2>3, <2>4, <1>5 DEF T
  <2> HIDE DEF A, K
  <2>6. Len(A) < Most
    <3>1. Len(Append(K, m)) <= DYNAMIC_MODULE_LIMIT
      BY <2>5 DEF Registered
    <3>2. QED
      BY <3>1, <2>4, <1>2
  <2> DEFINE Q == ap_remove_loaded_module(T, m)
  <2>7. Q = f[k]
    BY <1>3 DEF T, m
  <2>8. /\ Registered(Q, A, K) /\ Q.list.loaded = Preloaded \o K
        /\ Q.list.length = T.list.length /\ Q.list.reserved = T.list.reserved
    BY <2>3, <2>4, <2>5, <2>6, RemoveKept
  <2> HIDE DEF Q
  <2>9. QED
    BY <2>5, <2>7, <2>8 DEF A, K
<1> HIDE DEF Kept
<1>6. Kept(f[n], n)
  <2> DEFINE Ok == {k \in 0..n : Kept(f[k], k)}
  <2>1. 0 \in Ok
    BY <1>1, <1>4
  <2>2. ASSUME NEW k \in 1..n, k - 1 \in Ok PROVE k \in Ok
    BY <2>2, <1>5
  <2> HIDE DEF Ok
  <2>3. 0..n \subseteq Ok
    BY <1>1, <2>1, <2>2, AllUpTo
  <2>4. QED
    BY <1>1, <2>3 DEF Ok
<1>7. Rest(n) = <<>> /\ Prelinked \o <<>> = Prelinked /\ Preloaded \o <<>> = Preloaded
  BY <1>1, <1>2
<1> HIDE DEF Rest
<1>8. QED
  BY <1>3, <1>6, <1>7 DEF Kept, R, ms

\* A restart unloads what was loaded.
LEMMA RestartIs ==
  ASSUME IInv, Restart
  PROVE  \E S : /\ Becomes(S) /\ servers' = <<init_server_config(S)>> /\ Registered(S, Prelinked, <<>>)
                /\ S.list.loaded = Preloaded /\ S.list.hash = Reverse(Prelinked)
                /\ S.list.length = Most /\ S.list.reserved = 0
<1> DEFINE reset == [Registry EXCEPT !.list.reserved = 0, !.list.length = list.max]
           gone == AllRemoved(reset, Reverse(Loaded))
           anew == [gone EXCEPT !.list = rebuild_conf_hash(@)]
<1>1. /\ Becomes(anew) /\ servers' = <<init_server_config(anew)>>
  BY DEF Restart, Loaded
<1>2. /\ Registered(Registry, Prelinked \o Loaded, Loaded) /\ Registry.list = list /\ Loaded \in Seq(Modules)
      /\ list \in ListType /\ list.max = Most /\ Most \in Int
      /\ Registry = [mods |-> Registry.mods, list |-> list, cache |-> Registry.cache]
  <2>1. Most \in Int
    BY ConfigModulesAssumption DEF Most
  <2>2. QED
    BY <2>1, RegistryFacts DEF Registry
<1>3. list.loaded = Preloaded \o Loaded
  BY DEF IInv
<1>4. /\ reset = [mods |-> Registry.mods, list |-> reset.list, cache |-> Registry.cache]
      /\ reset.list \in ListType /\ reset.list.top = list.top /\ reset.list.total = list.total
      /\ reset.list.dynamic = list.dynamic /\ reset.list.max = list.max /\ reset.list.loaded = list.loaded
      /\ reset.list.reserved = 0 /\ reset.list.length = Most
  <2> DEFINE l == [list EXCEPT !.reserved = 0, !.length = Most]
  <2>1. /\ l \in ListType /\ l.top = list.top /\ l.total = list.total
        /\ l.dynamic = list.dynamic /\ l.max = list.max /\ l.loaded = list.loaded
        /\ l.reserved = 0 /\ l.length = Most
    <3> DEFINE most == Most
    <3>1. most \in Int /\ l = [list EXCEPT !.reserved = 0, !.length = most] /\ list \in ListType
      BY <1>2
    <3> HIDE DEF l, most
    <3>2. l \in ListType
      <4> DEFINE none == 0
                 e == [list EXCEPT !.reserved = none]
      <4>1. l = [e EXCEPT !.length = most] /\ none \in Int
        BY <3>1
      <4> HIDE DEF none
      <4>2. e \in ListType
        BY <3>1, <4>1 DEF ListType
      <4> HIDE DEF e
      <4>3. QED
        BY <3>1, <4>1, <4>2 DEF ListType
    <3>3. /\ l.top = list.top /\ l.total = list.total /\ l.dynamic = list.dynamic
          /\ l.max = list.max /\ l.loaded = list.loaded
      BY <3>1 DEF ListType
    <3>4. l.reserved = 0 /\ l.length = most
      BY <3>1 DEF ListType
    <3>5. QED
      BY <3>2, <3>3, <3>4 DEF most
  <2>2. reset = [Registry EXCEPT !.list = l]
    BY <1>2
  <2> HIDE DEF l, reset
  <2>3. reset = [mods |-> Registry.mods, list |-> l, cache |-> Registry.cache]
    BY <2>2, <1>2
  <2>4. QED
    BY <2>1, <2>3
<1> HIDE DEF reset
<1>5. Registered(reset, Prelinked \o Loaded, Loaded)
  BY <1>2, <1>4, RegisteredSame
<1>6. /\ Registered(gone, Prelinked, <<>>) /\ gone.list.loaded = Preloaded
      /\ gone.list.length = Most /\ gone.list.reserved = 0
  BY <1>2, <1>3, <1>4, <1>5, AllGone
<1> HIDE DEF gone
<1>7. gone \in RegistryType /\ gone = [mods |-> gone.mods, list |-> gone.list, cache |-> gone.cache]
      /\ gone.list \in ListType
  BY <1>6 DEF Registered, RegistryType
<1>8. Reverse(Prelinked) \in Seq(Modules)
  BY ConfigModulesAssumption DEF Reverse, ToSet
<1>9. /\ anew = [mods |-> gone.mods, list |-> anew.list, cache |-> gone.cache]
      /\ anew.list \in ListType /\ anew.list.top = gone.list.top /\ anew.list.total = gone.list.total
      /\ anew.list.dynamic = gone.list.dynamic /\ anew.list.max = gone.list.max
      /\ anew.list.loaded = Preloaded /\ anew.list.hash = Reverse(Prelinked)
      /\ anew.list.length = Most /\ anew.list.reserved = 0
  <2> DEFINE hash == Reverse(Prelinked)
  <2> HIDE DEF hash
  <2>1. anew = [gone EXCEPT !.list = [gone.list EXCEPT !.hash = hash]]
    BY DEF rebuild_conf_hash, hash
  <2> HIDE DEF anew
  <2>2. hash \in Seq(Modules)
    BY <1>8 DEF hash
  <2>3. QED
    BY <2>1, <2>2, <1>6, <1>7 DEF ListType, hash
<1> HIDE DEF anew
<1>10. Registered(anew, Prelinked, <<>>)
  BY <1>6, <1>9, RegisteredSame
<1>11. QED
  BY <1>1, <1>9, <1>10

\* A restart begins anew.
LEMMA RestartKept == ASSUME IInv, Restart PROVE IInv'
<1>1. PICK anew : /\ Becomes(anew) /\ servers' = <<init_server_config(anew)>> /\ Registered(anew, Prelinked, <<>>)
                  /\ anew.list.loaded = Preloaded /\ anew.list.hash = Reverse(Prelinked)
                  /\ anew.list.length = Most /\ anew.list.reserved = 0
  BY RestartIs
<1>2. phase' = "read" /\ wild' = wild
  BY DEF Restart
<1>3. wild = FALSE
  BY DEF IInv
<1>11. /\ anew \in RegistryType /\ anew.list.total = Len(Preloaded) /\ anew.list.total <= anew.list.length
       /\ anew.list.max = Most /\ Most \in Nat
       /\ anew.list.loaded = Preloaded \o <<>> /\ Prelinked \o <<>> = Prelinked
       /\ ServerSound(init_server_config(anew), Most) /\ init_server_config(anew).log.modules = <<>>
  BY <1>1, AnewKept
<1>12. Registry' = anew /\ Loaded' = <<>> /\ list' = anew.list
  <2> DEFINE L == <<>>
  <2>1. L \in Seq(Modules) /\ anew.list.loaded = Preloaded \o L
    BY <1>11
  <2> HIDE DEF L
  <2>2. Registry' = anew /\ Loaded' = L /\ list' = anew.list
    BY <2>1, <1>1, <1>11, Becoming
  <2>3. QED
    BY <2>2 DEF L
<1>13. ServersSound'
  <2> DEFINE of == init_server_config(anew)
  <2>1. ServerSound(of, Most) /\ of.log.modules = <<>>
    BY <1>11
  <2>2. servers' = <<of>> /\ list'.length = Most /\ phase' = "read"
    BY <1>1, <1>2, <1>12
  <2> HIDE DEF of
  <2>3. servers' \in Seq({of}) /\ Len(servers') = 1 /\ servers'[1] = of
    BY <2>2
  <2>4. servers' \in Seq(ToSet(servers'))
    BY <2>3, OfItsOwn
  <2>5. \A s \in 1..1 : s = 1
    OBVIOUS
  <2>6. QED
    BY <2>1, <2>2, <2>3, <2>4, <2>5 DEF ServersSound
<1>14. Registered(Registry, Prelinked \o Loaded, Loaded)'
  BY <1>1, <1>11, <1>12
<1>15. (list.loaded = Preloaded \o Loaded /\ list.hash = Reverse(Prelinked \o Loaded))'
  BY <1>1, <1>11, <1>12
<1>16. /\ list'.reserved \in Nat /\ list'.total <= list'.length /\ list'.length = list'.max
       /\ list'.length <= list'.max
  BY <1>1, <1>11, <1>12
<1>17. QED
  BY <1>2, <1>3, <1>13, <1>14, <1>15, <1>16 DEF IInv

LEMMA StutterKept == ASSUME IInv, UNCHANGED modulesVars PROVE IInv'
<1>1. Registry' = Registry /\ Loaded' = Loaded /\ (ServersSound' <=> ServersSound)
  BY DEF modulesVars, Registry, Loaded, ServersSound
<1>2. list' = list /\ phase' = phase /\ wild' = wild
  BY DEF modulesVars
<1>3. QED
  BY <1>1, <1>2 DEF IInv

LEMMA NextKept == IInv /\ [ModulesNext]_modulesVars => IInv'
<1> SUFFICES ASSUME IInv, [ModulesNext]_modulesVars PROVE IInv'
  OBVIOUS
<1>1. CASE \E m \in Modules : Load(m)
  BY <1>1, LoadKept
<1>2. CASE ap_reserve_module_slots
  BY <1>2, ReserveKept
<1>3. CASE conf_vector_length_pre_config
  BY <1>3, TrimKept
<1>4. CASE ap_init_virtual_host
  BY <1>4, HostKept
<1>5. CASE \E s \in DOMAIN servers, m \in Modules : ap_set_config_vectors(s, m)
  BY <1>5, VectorsKept
<1>6. CASE \E s \in DOMAIN servers, m \in Modules \cup {None}, level \in {1, 7} : SetLevel(s, m, level)
  BY <1>6, LevelKept
<1>7. CASE ap_fixup_virtual_hosts
  BY <1>7, FixupKept
<1>8. CASE Restart
  BY <1>8, RestartKept
<1>9. CASE UNCHANGED modulesVars
  BY <1>9, StutterKept
<1>10. QED
  BY <1>1, <1>2, <1>3, <1>4, <1>5, <1>6, <1>7, <1>8, <1>9 DEF ModulesNext

\* However modules are loaded while the configuration is read or into reserved slots, and unloaded
\* by restarts: the list holds the active ones in order and so does the hash of commands, each has
\* a slot of its own inside the vectors that says its name and its merger, and no index is ever
\* past the end of a vector (554-699, 2235-2390).
THEOREM ModulesHeld == ModulesSpec => []ModulesSound
<1>1. ModulesInit => IInv
  BY InitSound
<1>2. IInv /\ [ModulesNext]_modulesVars => IInv'
  BY NextKept
<1>3. IInv => ModulesSound
  BY ModulesFromIInv
<1>4. QED
  BY <1>1, <1>2, <1>3, PTL DEF ModulesSpec

----------------------------------------------------------------------------
(* What directives said of levels. *)

\* A set of the numbers up to n has a greatest element.
LEMMA GreatestOf ==
  ASSUME NEW n \in Nat, NEW S, S \subseteq 1..n, S # {}
  PROVE  Max(S) \in S /\ \A j \in S : j <= Max(S)
<1> DEFINE R == {x \in 0..n : n - x \in S}
<1>1. R \subseteq Nat
  OBVIOUS
<1>2. R # {}
  <2>1. PICK x \in S : TRUE
    OBVIOUS
  <2>2. n - x \in 0..n /\ n - (n - x) = x
    OBVIOUS
  <2>3. n - x \in R
    BY <2>2
  <2>4. QED
    BY <2>3
<1>3. Min(R) \in R /\ \A j \in R : Min(R) <= j
  BY <1>1, <1>2, LeastOf
<1> DEFINE g == n - Min(R)
<1>4. g \in S
  BY <1>3
<1>5. ASSUME NEW j \in S PROVE g >= j
  <2>1. n - j \in 0..n /\ n - (n - j) = j
    OBVIOUS
  <2>2. n - j \in R
    BY <2>1
  <2>3. Min(R) <= n - j /\ Min(R) \in 0..n
    BY <1>3, <2>2
  <2> HIDE DEF R
  <2>4. QED
    BY <2>3
<1> HIDE DEF g
<1>6. Max(S) \in S /\ \A j \in S : Max(S) >= j
  BY <1>4, <1>5 DEF Max
<1>7. QED
  <2> DEFINE x == Max(S)
  <2>1. x \in S /\ \A j \in S : x >= j
    BY <1>6
  <2> HIDE DEF x
  <2>2. \A j \in S : j <= x
    BY <2>1
  <2>3. QED
    BY <2>1, <2>2 DEF x

\* One more directive counts where it is about the module and the server.
LEMMA SaidAppend ==
  ASSUME NEW T, NEW levels \in Seq(T), NEW l \in T, NEW s, NEW m, NEW d
  PROVE  Said(Append(levels, l), s, m, d) = IF l.server = s /\ l.of \in {m, None} THEN l.level ELSE Said(levels, s, m, d)
<1> DEFINE more == Append(levels, l)
           n == Len(levels)
           S == About(levels, s, m)
           R == About(more, s, m)
<1>1. n \in Nat /\ DOMAIN levels = 1..n /\ DOMAIN more = 1..n + 1
      /\ more[n + 1] = l /\ \A k \in 1..n : more[k] = levels[k]
  OBVIOUS
<1> HIDE DEF more, n
<1>2. S \subseteq 1..n /\ R \subseteq 1..n + 1
  BY <1>1 DEF About
<1>3. \A k \in 1..n : k \in R <=> k \in S
  BY <1>1 DEF About
<1>4. n + 1 \in R <=> l.server = s /\ l.of \in {m, None}
  BY <1>1 DEF About
<1> HIDE DEF S, R
<1>5. CASE l.server = s /\ l.of \in {m, None}
  <2>1. n + 1 \in R
    BY <1>4, <1>5
  <2>2. Max(R) \in R /\ \A j \in R : j <= Max(R)
    <3>1. n + 1 \in Nat /\ R # {} /\ R \subseteq 1..n + 1
      BY <1>1, <1>2, <2>1
    <3>2. QED
      BY <3>1, GreatestOf
  <2>3. Max(R) = n + 1
    <3> DEFINE x == Max(R)
    <3>1. x \in 1..n + 1 /\ n + 1 <= x
      BY <2>1, <2>2, <1>2
    <3> HIDE DEF x
    <3>2. x = n + 1
      BY <3>1, <1>1
    <3>3. QED
      BY <3>2 DEF x
  <2>4. Said(more, s, m, d) = l.level
    BY <2>1, <2>3, <1>1 DEF Said, R
  <2>5. QED
    BY <2>4, <1>5 DEF more
<1>6. CASE ~ (l.server = s /\ l.of \in {m, None})
  <2>1. R = S
    <3>1. \A k \in 1..n + 1 : k \in 1..n \/ k = n + 1
      BY <1>1
    <3>2. 1..n \subseteq 1..n + 1
      BY <1>1
    <3>3. QED
      BY <3>1, <3>2, <1>2, <1>3, <1>4, <1>6
  <2>2. CASE S = {}
    BY <2>1, <2>2, <1>6 DEF Said, R, S, more
  <2>3. CASE S # {}
    <3>1. Max(S) \in 1..n
      BY <2>3, <1>1, <1>2, GreatestOf
    <3>2. more[Max(S)] = levels[Max(S)]
      BY <3>1, <1>1
    <3>3. Said(more, s, m, d) = Said(levels, s, m, d)
      BY <3>2, <2>1, <2>3 DEF Said, R, S
    <3>4. QED
      BY <3>3, <1>6 DEF more
  <2>4. QED
    BY <2>2, <2>3
<1>7. QED
  BY <1>5, <1>6

\* Where no directive names a module, what was said of all counts for it; where none is about the
\* server, its default does.
LEMMA SaidOfNone ==
  ASSUME NEW levels, NEW s, NEW m, NEW d
  PROVE  /\ (\A k \in DOMAIN levels : levels[k].of # m) => Said(levels, s, m, d) = Said(levels, s, None, d)
         /\ (\A k \in DOMAIN levels : levels[k].server # s) => Said(levels, s, m, d) = d
<1>1. ASSUME \A k \in DOMAIN levels : levels[k].of # m PROVE Said(levels, s, m, d) = Said(levels, s, None, d)
  <2>1. About(levels, s, m) = About(levels, s, None)
    BY <1>1 DEF About
  <2>2. QED
    BY <2>1 DEF Said
<1>2. ASSUME \A k \in DOMAIN levels : levels[k].server # s PROVE Said(levels, s, m, d) = d
  <2>1. About(levels, s, m) = {}
    BY <1>2 DEF About
  <2>2. QED
    BY <2>1 DEF Said
<1>3. QED
  BY <1>1, <1>2

\* A level that was said is not the one of a server nothing was said of.
LEMMA SaidLevels ==
  ASSUME NEW N, NEW A, NEW levels \in Seq([server : N, of : A, level : {1, 7}]), NEW s, NEW m, NEW d
  PROVE  /\ Said(levels, s, m, d) \in {d, 1, 7}
         /\ Said(levels, s, m, UNSET) = UNSET => Said(levels, s, m, d) = d
         /\ Said(levels, s, m, UNSET) # UNSET => Said(levels, s, m, d) = Said(levels, s, m, UNSET)
         /\ Said(levels, s, None, UNSET) # UNSET => Said(levels, s, m, UNSET) # UNSET
<1> DEFINE n == Len(levels)
           S == About(levels, s, m)
           R == About(levels, s, None)
<1>1. n \in Nat /\ DOMAIN levels = 1..n /\ \A k \in 1..n : levels[k].level \in {1, 7}
  <2> DEFINE T == [server : N, of : A, level : {1, 7}]
  <2>1. levels \in Seq(T) /\ \A l \in T : l.level \in {1, 7}
    OBVIOUS
  <2> HIDE DEF T
  <2>2. n \in Nat /\ DOMAIN levels = 1..n /\ \A k \in 1..n : levels[k] \in T
    BY <2>1
  <2>3. QED
    BY <2>1, <2>2
<1>2. S \subseteq 1..n /\ R \subseteq S
  BY <1>1 DEF About
<1> HIDE DEF n, S, R
<1>3. S # {} => levels[Max(S)].level \in {1, 7}
  <2> SUFFICES ASSUME S # {} PROVE levels[Max(S)].level \in {1, 7}
    OBVIOUS
  <2>1. Max(S) \in S
    BY <1>1, <1>2, GreatestOf
  <2>2. QED
    BY <2>1, <1>1, <1>2
<1>4. \A e : Said(levels, s, m, e) = IF S = {} THEN e ELSE levels[Max(S)].level
  BY DEF Said, S
<1>5. Said(levels, s, None, UNSET) # UNSET => S # {}
  BY <1>2 DEF Said, R
<1>6. \A x \in {1, 7} : x # UNSET
  BY DEF UNSET
<1>7. QED
  BY <1>3, <1>4, <1>5, <1>6

----------------------------------------------------------------------------
(* What is made for the main server, and merged for the others. *)

\* The modules a walk from the top meets.
LEMMA ChainSet ==
  ASSUME NEW M, NEW top, NEW A \in Seq(Modules), Len(A) <= Most, Linked(M, top, A)
  PROVE  ToSet(Chained(M, top)) = {A[i] : i \in 1..Len(A)}
<1> DEFINE n == Len(A)
<1>1. Chained(M, top) = Reverse(A)
  BY ChainedIs
<1>2. n \in Nat /\ DOMAIN Reverse(A) = 1..n /\ \A i \in 1..n : Reverse(A)[i] = A[n - i + 1]
  BY DEF Reverse
<1>3. \A i \in 1..n : n - i + 1 \in 1..n /\ n - (n - i + 1) + 1 = i
  OBVIOUS
<1> HIDE DEF n
<1>4. ToSet(Reverse(A)) = {Reverse(A)[i] : i \in 1..n}
  BY <1>2 DEF ToSet
<1>5. {Reverse(A)[i] : i \in 1..n} = {A[i] : i \in 1..n}
  <2>1. ASSUME NEW i \in 1..n PROVE A[i] \in {Reverse(A)[j] : j \in 1..n}
    <3>1. n - i + 1 \in 1..n /\ Reverse(A)[n - i + 1] = A[n - (n - i + 1) + 1]
      BY <1>2, <1>3
    <3>2. QED
      BY <3>1, <1>3
  <2>2. QED
    BY <2>1, <1>2, <1>3
<1>6. QED
  BY <1>1, <1>4, <1>5 DEF n

\* The vector of the main server: what each module made, in its slot.
LEMMA CreatedIs ==
  ASSUME NEW S, NEW makers, NEW A, A = ToSet(Chained(S.mods, S.list.top)),
         \A m, k \in A : S.mods[m].index = S.mods[k].index => m = k,
         NEW i \in 0..S.list.length - 1
  PROVE  /\ \A m \in A : S.mods[m].index = i =>
              created(S, makers)[i] = IF m \in makers THEN Made(m, 1) ELSE <<>>
         /\ (\A m \in A : S.mods[m].index # i) => created(S, makers)[i] = <<>>
<1> DEFINE at == {m \in A \cap makers : S.mods[m].index = i}
<1>1. created(S, makers)[i] = IF at = {} THEN <<>> ELSE Made(CHOOSE m \in at : TRUE, 1)
  BY DEF created
<1>2. ASSUME NEW m \in A, S.mods[m].index = i
      PROVE  created(S, makers)[i] = IF m \in makers THEN Made(m, 1) ELSE <<>>
  <2>1. CASE m \in makers
    <3>1. m \in at /\ \A k \in at : k = m
      BY <1>2, <2>1
    <3> HIDE DEF at
    <3>2. (CHOOSE k \in at : TRUE) = m
      BY <3>1
    <3>3. QED
      BY <3>1, <3>2, <1>1, <2>1
  <2>2. CASE m \notin makers
    <3>1. at = {}
      BY <1>2, <2>2
    <3>2. QED
      BY <3>1, <1>1, <2>2
  <2>3. QED
    BY <2>1, <2>2
<1>3. ASSUME \A m \in A : S.mods[m].index # i PROVE created(S, makers)[i] = <<>>
  <2>1. at = {}
    BY <1>3
  <2>2. QED
    BY <2>1, <1>1
<1>4. QED
  BY <1>2, <1>3

\* What module m has in slot i of a virtual host over what it has in the main server.
Overlaid(base, virt, i, m) ==
  IF virt[i] = <<>> THEN base[i] ELSE IF m \in MergesServer THEN base[i] \o virt[i] ELSE virt[i]

\* Each step of a merge is about the slot of one module: what the module has in the end is merged
\* over what the main server has, and slots nobody has stay.
LEMMA MergedIs ==
  ASSUME NEW A \in Seq(Modules), Chained(mods, list.top) = Reverse(A),
         \A i, j \in 1..Len(A) : mods[A[i]].index = mods[A[j]].index => i = j,
         NEW n \in Nat, NEW base, NEW virt, Vector(virt, n),
         \A i \in 1..Len(A) : mods[A[i]].index \in 0..n - 1,
         NEW k \in 1..Len(A)
  PROVE  merge_server_configs(base, virt)[mods[A[k]].index] = Overlaid(base, virt, mods[A[k]].index, A[k])
<1> DEFINE N == Len(A)
           c == Reverse(A)
           Over(v, m) == LET i == mods[m].index IN
                         IF v[i] = <<>> THEN [v EXCEPT ![i] = base[i]]
                         ELSE IF m \in MergesServer THEN [v EXCEPT ![i] = base[i] \o v[i]] ELSE v
           Steps(f, j) == f = [x \in 0..j |-> IF x = 0 THEN virt ELSE Over(f[x - 1], c[x])]
           Ok == {j \in 0..N : \E f : Steps(f, j)}
           last == CHOOSE f : Steps(f, N)
           at == mods[A[k]].index
           one == IF virt[at] = <<>> THEN base[at]
                  ELSE IF A[k] \in MergesServer THEN base[at] \o virt[at] ELSE virt[at]
<1>1. N \in Nat /\ Len(c) = N /\ \A i \in 1..N : c[i] = A[N - i + 1]
  BY DEF Reverse
<1>2. merge_server_configs(base, virt) = last[N]
  BY <1>1 DEF merge_server_configs
<1>3. ASSUME NEW v, NEW m, Vector(v, n), mods[m].index \in 0..n - 1
      PROVE  /\ Vector(Over(v, m), n)
             /\ \A i \in 0..n - 1 : i # mods[m].index => Over(v, m)[i] = v[i]
             /\ LET i == mods[m].index IN
                Over(v, m)[i] = IF v[i] = <<>> THEN base[i]
                                ELSE IF m \in MergesServer THEN base[i] \o v[i] ELSE v[i]
  <2> DEFINE i == mods[m].index
  <2>1. DOMAIN v = 0..n - 1
    BY <1>3 DEF Vector
  <2> DEFINE w(x) == [v EXCEPT ![i] = x]
  <2>2. ASSUME NEW x PROVE Vector(w(x), n) /\ w(x)[i] = x /\ \A j \in 0..n - 1 : j # i => w(x)[j] = v[j]
    BY <1>3, <2>1 DEF Vector
  <2> HIDE DEF i
  <2>5. Over(v, m) = IF v[i] = <<>> THEN w(base[i]) ELSE IF m \in MergesServer THEN w(base[i] \o v[i]) ELSE v
    BY DEF i
  <2> HIDE DEF Over, w
  <2> DEFINE a == base[i]
             b == base[i] \o v[i]
  <2>6. CASE v[i] = <<>>
    <3>1. Vector(w(a), n) /\ w(a)[i] = a /\ \A j \in 0..n - 1 : j # i => w(a)[j] = v[j]
      BY <2>2
    <3>2. Over(v, m) = w(a)
      BY <2>5, <2>6
    <3>3. QED
      BY <3>1, <3>2, <2>6 DEF i
  <2>7. CASE v[i] # <<>> /\ m \in MergesServer
    <3>1. Vector(w(b), n) /\ w(b)[i] = b /\ \A j \in 0..n - 1 : j # i => w(b)[j] = v[j]
      BY <2>2
    <3>2. Over(v, m) = w(b)
      BY <2>5, <2>7
    <3>3. QED
      BY <3>1, <3>2, <2>7 DEF i
  <2>8. CASE v[i] # <<>> /\ m \notin MergesServer
    <3>1. Over(v, m) = v
      BY <2>5, <2>8
    <3>2. QED
      BY <3>1, <2>8, <1>3 DEF i
  <2>9. QED
    BY <2>6, <2>7, <2>8
<1> HIDE DEF Over, c, N
<1>4. PICK f : Steps(f, N)
  <2>1. 0 \in Ok
    <3> DEFINE g == [i \in 0..0 |-> virt]
    <3>1. g = [x \in 0..0 |-> IF x = 0 THEN virt ELSE Over(g[x - 1], c[x])]
      OBVIOUS
    <3>2. Steps(g, 0)
      BY <3>1
    <3> HIDE DEF g, Steps
    <3>3. QED
      BY <3>2, <1>1
  <2>2. ASSUME NEW j \in 1..N, j - 1 \in Ok PROVE j \in Ok
    <3>1. PICK g : Steps(g, j - 1)
      BY <2>2
    <3> DEFINE h == [x \in 0..j |-> IF x = j THEN Over(g[j - 1], c[j]) ELSE g[x]]
    <3>2. ASSUME NEW x \in 0..j PROVE h[x] = IF x = 0 THEN virt ELSE Over(h[x - 1], c[x])
      <4>1. CASE x = j
        BY <4>1
      <4>2. CASE x # j
        <5>1. x \in 0..j - 1 /\ h[x] = g[x] /\ (x # 0 => h[x - 1] = g[x - 1])
          BY <4>2
        <5>2. g[x] = IF x = 0 THEN virt ELSE Over(g[x - 1], c[x])
          BY <5>1, <3>1
        <5>3. QED
          BY <5>1, <5>2
      <4>3. QED
        BY <4>1, <4>2
    <3>3. h = [x \in 0..j |-> h[x]]
      OBVIOUS
    <3> HIDE DEF h
    <3>4. Steps(h, j)
      BY <3>2, <3>3
    <3> HIDE DEF Steps
    <3>5. QED
      BY <3>4, <1>1
  <2> HIDE DEF Ok
  <2>3. 0..N \subseteq Ok
    BY <1>1, <2>1, <2>2, AllUpTo
  <2>4. QED
    BY <1>1, <2>3 DEF Ok
<1>5. Steps(last, N)
  BY <1>4
<1> HIDE DEF last
<1>6. last[0] = virt /\ \A j \in 1..N : last[j] = Over(last[j - 1], c[j])
  BY <1>1, <1>5
<1> HIDE DEF Steps, Ok
<1> DEFINE place == N - k + 1
<1>7. /\ place \in 1..N /\ c[place] = A[k]
      /\ \A j \in 1..N : mods[c[j]].index \in 0..n - 1 /\ (j # place => mods[c[j]].index # at)
  <2>1. place \in 1..N /\ N - place + 1 = k
    BY <1>1 DEF N
  <2>2. \A j \in 1..N : N - j + 1 \in 1..N /\ (N - j + 1 = k => j = place)
    BY <1>1 DEF N
  <2>3. k \in 1..N /\ \A i, j \in 1..N : mods[A[i]].index = mods[A[j]].index => i = j
    BY DEF N
  <2>4. \A i \in 1..N : mods[A[i]].index \in 0..n - 1
    BY DEF N
  <2> HIDE DEF place
  <2>5. c[place] = A[k]
    BY <1>1, <2>1
  <2>6. ASSUME NEW j \in 1..N
        PROVE  mods[c[j]].index \in 0..n - 1 /\ (j # place => mods[c[j]].index # at)
    <3> DEFINE x == N - j + 1
    <3>1. x \in 1..N /\ (x = k => j = place) /\ c[j] = A[x]
      BY <1>1, <2>2
    <3> HIDE DEF x
    <3>2. mods[A[x]].index = mods[A[k]].index => x = k
      BY <3>1, <2>3
    <3>3. QED
      BY <3>1, <3>2, <2>4
  <2>7. QED
    BY <2>1, <2>5, <2>6
<1>8. at \in 0..n - 1
  BY <1>7
<1> HIDE DEF place, at
<1> DEFINE Good(j) == Vector(last[j], n) /\ last[j][at] = IF j < place THEN virt[at] ELSE one
           Fine == {j \in 0..N : Good(j)}
<1>9. 0 \in Fine
  BY <1>1, <1>6, <1>7
<1>10. ASSUME NEW j \in 1..N, j - 1 \in Fine PROVE j \in Fine
  <2>1. Good(j - 1) /\ mods[c[j]].index \in 0..n - 1 /\ last[j] = Over(last[j - 1], c[j])
    BY <1>6, <1>7, <1>10
  <2> DEFINE v == last[j - 1]
             m == c[j]
  <2>2. /\ Vector(Over(v, m), n)
        /\ \A i \in 0..n - 1 : i # mods[m].index => Over(v, m)[i] = v[i]
        /\ Over(v, m)[mods[m].index] = IF v[mods[m].index] = <<>> THEN base[mods[m].index]
                                       ELSE IF m \in MergesServer THEN base[mods[m].index] \o v[mods[m].index]
                                       ELSE v[mods[m].index]
    <3> HIDE DEF v, m
    <3>1. Vector(v, n) /\ mods[m].index \in 0..n - 1
      BY <2>1 DEF v, m
    <3>2. QED
      BY <3>1, <1>3
  <2>3. CASE j = place
    <3>1. m = A[k] /\ mods[m].index = at /\ v[at] = virt[at]
      BY <2>1, <2>3, <1>1, <1>7 DEF at
    <3>2. Over(v, m)[at] = one
      BY <2>2, <3>1 DEF at
    <3>3. Good(j)
      BY <2>1, <2>2, <2>3, <3>2
    <3>4. QED
      BY <3>3
  <2>4. CASE j # place
    <3>1. Over(v, m)[at] = v[at]
      BY <2>2, <2>4, <1>7, <1>8
    <3>2. j - 1 < place <=> j < place
      BY <2>4, <1>1, <1>7
    <3> HIDE DEF one
    <3>3. Good(j)
      BY <2>1, <2>2, <3>1, <3>2
    <3>4. QED
      BY <3>3
  <2>5. QED
    BY <2>3, <2>4
<1> HIDE DEF Fine
<1>11. 0..N \subseteq Fine
  BY <1>1, <1>9, <1>10, AllUpTo
<1>12. Good(N)
  BY <1>1, <1>11 DEF Fine
<1>13. last[N][at] = one
  BY <1>1, <1>7, <1>12
<1>14. QED
  BY <1>2, <1>13 DEF at, Overlaid

\* The active modules of a registry, and their slots.
LEMMA RegisteredActive ==
  ASSUME NEW S, NEW A, NEW L, Registered(S, A, L), Len(A) <= Most
  PROVE  LET on == ToSet(Chained(S.mods, S.list.top)) IN
         /\ on = {A[i] : i \in 1..Len(A)} /\ Chained(S.mods, S.list.top) = Reverse(A)
         /\ \A m \in on : m \in Modules /\ S.mods[m].index \in 0..S.list.total - 1
         /\ \A m, k \in on : S.mods[m].index = S.mods[k].index => m = k
         /\ \A i, j \in 1..Len(A) : S.mods[A[i]].index = S.mods[A[j]].index => i = j
<1> DEFINE on == ToSet(Chained(S.mods, S.list.top))
           n == Len(A)
<1>1. /\ A \in Seq(Modules) /\ L \in Seq(Modules) /\ n \in Nat /\ Linked(S.mods, S.list.top, A)
      /\ S.mods \in [Modules -> [index : Int, next : Modules \cup {None}]] /\ Indexed(S.mods, L)
      /\ S.list.total = Len(Preloaded) + Len(L) /\ Len(Preloaded) \in Nat /\ Len(L) \in Nat
      /\ \A i \in 1..n : S.mods[A[i]].index # -1 /\ A[i] \in Modules
      /\ \A i, j \in 1..n : A[i] = A[j] => i = j
  <2>1. Len(Preloaded) \in Nat
    BY ConfigModulesAssumption
  <2>2. QED
    BY <2>1 DEF Registered, RegistryType
<1>2. on = {A[i] : i \in 1..n} /\ Chained(S.mods, S.list.top) = Reverse(A)
  BY <1>1, ChainSet, ChainedIs
<1>3. /\ \A m \in Modules : S.mods[m].index \in -1..Len(Preloaded) + Len(L) - 1
      /\ \A m, k \in Modules : S.mods[m].index = S.mods[k].index /\ S.mods[m].index # -1 => m = k
  BY <1>1, IndexedApart
<1> HIDE DEF on, n
<1>4. \A m \in on : m \in Modules /\ S.mods[m].index # -1
  BY <1>1, <1>2
<1>5. ASSUME NEW m \in on PROVE S.mods[m].index \in 0..S.list.total - 1
  <2>1. S.mods[m].index \in -1..Len(Preloaded) + Len(L) - 1 /\ S.mods[m].index # -1
    BY <1>3, <1>4
  <2>2. QED
    BY <2>1, <1>1
<1>6. \A m, k \in on : S.mods[m].index = S.mods[k].index => m = k
  BY <1>3, <1>4
<1>7. \A i, j \in 1..n : S.mods[A[i]].index = S.mods[A[j]].index => i = j
  <2>1. \A i \in 1..n : A[i] \in on
    BY <1>2
  <2>2. QED
    BY <2>1, <1>1, <1>6
<1>8. QED
  BY <1>2, <1>4, <1>5, <1>6, <1>7 DEF on, n

\* What the invariant says of the active modules.
LEMMA ActiveIs ==
  ASSUME IInv
  PROVE  LET A == Prelinked \o Loaded IN
         /\ A \in Seq(Modules) /\ Len(A) \in Nat /\ Len(A) <= Most
         /\ Active = {A[i] : i \in 1..Len(A)} /\ Chained(mods, list.top) = Reverse(A)
         /\ \A m \in Active : m \in Modules /\ mods[m].index \in 0..list.total - 1 /\ cache.mergers[mods[m].index] = m
         /\ \A m, k \in Active : mods[m].index = mods[k].index => m = k
         /\ \A i, j \in 1..Len(A) : mods[A[i]].index = mods[A[j]].index => i = j
<1> DEFINE A == Prelinked \o Loaded
           S == Registry
<1>1. /\ Registered(S, A, Loaded) /\ S.mods = mods /\ S.list = list /\ A \in Seq(Modules)
      /\ Len(A) \in Nat /\ Len(A) <= Most
  BY RegistryFacts
<1> HIDE DEF A, S
<1>2. /\ ToSet(Chained(mods, list.top)) = {A[i] : i \in 1..Len(A)} /\ Chained(mods, list.top) = Reverse(A)
      /\ \A i, j \in 1..Len(A) : mods[A[i]].index = mods[A[j]].index => i = j
  <2>1. /\ ToSet(Chained(S.mods, S.list.top)) = {A[i] : i \in 1..Len(A)} /\ Chained(S.mods, S.list.top) = Reverse(A)
        /\ \A i, j \in 1..Len(A) : S.mods[A[i]].index = S.mods[A[j]].index => i = j
    <3>1. Registered(S, A, Loaded) /\ Len(A) <= Most
      BY <1>1
    <3>2. ToSet(Chained(S.mods, S.list.top)) = {A[i] : i \in 1..Len(A)}
      BY <3>1, RegisteredActive, ZenonT(60)
    <3>3. Chained(S.mods, S.list.top) = Reverse(A)
      BY <3>1, RegisteredActive, ZenonT(60)
    <3>4. \A i, j \in 1..Len(A) : S.mods[A[i]].index = S.mods[A[j]].index => i = j
      BY <3>1, RegisteredActive, ZenonT(60)
    <3>5. QED
      BY <3>2, <3>3, <3>4
  <2>2. QED
    BY <2>1, <1>1
<1>3. /\ \A m \in Active : m \in Modules /\ mods[m].index \in 0..list.total - 1 /\ cache.mergers[mods[m].index] = m
      /\ \A m, k \in Active : mods[m].index = mods[k].index => m = k
  BY ActiveAre
<1>4. QED
  BY <1>1, <1>2, <1>3 DEF A, Active

\* The main server when a reading begins.
LEMMA AnewRead ==
  ASSUME NEW S, Registered(S, Prelinked, <<>>), S.list.length = Most
  PROVE  LET on == ToSet(Chained(S.mods, S.list.top))
             of == init_server_config(S)
         IN /\ Filled(of, 1, S.mods, on, {}, S.list.total, Most)
            /\ LogSound(of.log, 1, S.mods, on, <<>>, S.list.total, Most)
<1> DEFINE on == ToSet(Chained(S.mods, S.list.top))
           of == init_server_config(S)
           c == create_server_config(S)
           d == create_default_per_dir_config(S)
           n == Most
           t == S.list.total
<1>1. Len(Prelinked) <= Most /\ n \in Nat /\ Len(Preloaded) \in Nat /\ Len(Preloaded) <= n
  BY ConfigModulesAssumption, PrelinkedFew DEF Most, ToSet
<1>2. /\ \A m \in on : m \in Modules /\ S.mods[m].index \in 0..t - 1
      /\ \A m, k \in on : S.mods[m].index = S.mods[k].index => m = k
  BY <1>1, RegisteredActive
<1>3. t = Len(Preloaded) + Len(<<>>)
  BY DEF Registered
<1>4. t \in Nat /\ t <= n
  BY <1>1, <1>3
<1>5. of = [config |-> c, dir |-> d, log |-> [level |-> DEFAULT_LOGLEVEL, modules |-> <<>>]]
  BY DEF init_server_config, NewLog
<1>6. of.config = c /\ of.dir = d /\ of.log = [level |-> DEFAULT_LOGLEVEL, modules |-> <<>>]
  <2> HIDE DEF of, c, d
  <2>1. QED
    BY <1>5
<1>7. of.log.level = DEFAULT_LOGLEVEL /\ of.log.modules = <<>>
  <2> HIDE DEF of
  <2>1. QED
    BY <1>6
<1> HIDE DEF of, t, on
<1>8. ASSUME NEW m \in on PROVE c[S.mods[m].index] = Own(PerServer, {}, 1, m) /\ d[S.mods[m].index] = Own(PerDir, {}, 1, m)
  <2> DEFINE i == S.mods[m].index
  <2>1. i \in 0..S.list.length - 1
    BY <1>1, <1>2, <1>4
  <2> HIDE DEF i
  <2>2. /\ created(S, PerServer)[i] = IF m \in PerServer THEN Made(m, 1) ELSE <<>>
        /\ created(S, PerDir)[i] = IF m \in PerDir THEN Made(m, 1) ELSE <<>>
    BY <2>1, <1>2, CreatedIs DEF on, i
  <2>3. QED
    BY <2>2 DEF i, create_server_config, create_default_per_dir_config, Own
<1>9. ASSUME NEW i \in t..n - 1 PROVE c[i] = <<>> /\ d[i] = <<>>
  <2>1. i \in 0..S.list.length - 1
    BY <1>4
  <2>2. \A m \in on : S.mods[m].index # i
    BY <1>2, <1>4
  <2>3. created(S, PerServer)[i] = <<>> /\ created(S, PerDir)[i] = <<>>
    BY <2>1, <2>2, <1>2, CreatedIs DEF on
  <2>4. QED
    BY <2>3 DEF create_server_config, create_default_per_dir_config
<1>10. Filled(of, 1, S.mods, on, {}, t, n)
  <2> HIDE DEF c, d, n
  <2>1. QED
    BY <1>6, <1>8, <1>9 DEF Filled
<1>11. \A m : Said(<<>>, 1, m, Default(1)) = DEFAULT_LOGLEVEL
  BY SaidOfNone DEF Default
<1>12. LogSound(of.log, 1, S.mods, on, <<>>, t, n)
  BY <1>7, <1>11 DEF LogSound, LevelAt
<1>13. QED
  BY <1>10, <1>12 DEF of, t, on

----------------------------------------------------------------------------
(* The steps keep what servers have of their modules. *)

LEMMA NothingSaid ==
  ASSUME NEW p, NEW r, p = [said |-> NoPast, restarts |-> r], NEW N, NEW A
  PROVE  SaidSound(p, N, A)
<1> DEFINE said == p.said
           T == [server : 1..N, of : A \cup {None}, level : {1, 7}]
<1>1. said = [levels |-> <<>>, made |-> {}, directives |-> 0] /\ p = [said |-> said, restarts |-> p.restarts]
  BY DEF NoPast
<1> HIDE DEF said
<1>2. /\ said = [levels |-> said.levels, made |-> said.made, directives |-> said.directives]
      /\ said.made = {} /\ said.levels = <<>>
  BY <1>1
<1>3. <<>> \in Seq(T)
  OBVIOUS
<1> HIDE DEF T
<1>4. said.levels \in Seq(T) /\ said.made \subseteq (2..N) \X A
  BY <1>2, <1>3
<1>5. QED
  BY <1>1, <1>2, <1>4 DEF SaidSound, said, T

LEMMA InitRead == ModulesInit => MInv
<1> SUFFICES ASSUME ModulesInit PROVE MInv
  OBVIOUS
<1> DEFINE S == ap_setup_prelinked_modules
           of == init_server_config(S)
<1>1. Registered(S, Prelinked, <<>>) /\ S.list.length = Most
  BY SetupKept
<1>2. /\ mods = S.mods /\ list = S.list /\ servers = <<of>> /\ phase = "read"
      /\ past = [said |-> NoPast, restarts |-> 0]
  BY DEF ModulesInit
<1> HIDE DEF S
<1>3. /\ Filled(of, 1, mods, Active, {}, list.total, list.length)
      /\ LogSound(of.log, 1, mods, Active, <<>>, list.total, list.length)
  BY <1>1, <1>2, AnewRead DEF Active
<1>4. past.said.made = {} /\ past.said.levels = <<>>
  BY <1>2 DEF NoPast
<1> HIDE DEF of
<1>5. Len(servers) = 1 /\ servers[1] = of /\ \A s \in 1..1 : s = 1
  BY <1>2
<1>6. SaidSound(past, Len(servers), Active)
  BY <1>2, NothingSaid
<1>7. ReadSound
  BY <1>3, <1>4, <1>5, <1>6 DEF ReadSound
<1>8. QED
  BY <1>2, <1>7 DEF MInv, ConfigsMerged

LEMMA RestartRead == ASSUME IInv, Restart PROVE MInv'
<1>1. PICK S : /\ Becomes(S) /\ servers' = <<init_server_config(S)>> /\ Registered(S, Prelinked, <<>>)
               /\ S.list.length = Most
  BY RestartIs
<1> DEFINE of == init_server_config(S)
<1>2. mods' = S.mods /\ list' = S.list
  BY <1>1 DEF Becomes
<1>3. /\ phase' = "read" /\ past' = [said |-> NoPast, restarts |-> past.restarts + 1]
  BY DEF Restart
<1>4. /\ Filled(of, 1, mods', Active', {}, list'.total, list'.length)
      /\ LogSound(of.log, 1, mods', Active', <<>>, list'.total, list'.length)
  BY <1>1, <1>2, AnewRead DEF Active
<1>6. past'.said.made = {} /\ past'.said.levels = <<>>
  BY <1>3 DEF NoPast
<1> HIDE DEF of
<1>7. Len(servers') = 1 /\ servers'[1] = of /\ \A s \in 1..1 : s = 1
  BY <1>1 DEF of
<1>8. SaidSound(past, Len(servers), Active)'
  BY <1>3, NothingSaid
<1>9. ReadSound'
  BY <1>4, <1>6, <1>7, <1>8 DEF ReadSound
<1>10. QED
  BY <1>3, <1>9 DEF MInv, ConfigsMerged

\* What was said of servers and modules is said of more of them.
LEMMA SaidOfMore ==
  ASSUME NEW p, NEW N \in Nat, NEW O \in Nat, N <= O, NEW A, NEW B, A \subseteq B, SaidSound(p, N, A)
  PROVE  SaidSound(p, O, B)
<1> DEFINE T == [server : 1..N, of : A \cup {None}, level : {1, 7}]
           U == [server : 1..O, of : B \cup {None}, level : {1, 7}]
           levels == p.said.levels
<1>1. T \subseteq U
  OBVIOUS
<1>2. levels \in Seq(T)
  BY DEF SaidSound
<1> HIDE DEF T, U, levels
<1>3. levels \in Seq(U)
  BY <1>1, <1>2
<1>4. (2..N) \X A \subseteq (2..O) \X B
  OBVIOUS
<1>5. p.said.made \subseteq (2..O) \X B
  BY <1>4 DEF SaidSound
<1>6. QED
  BY <1>3, <1>5 DEF SaidSound, U, levels

\* What the invariant says of a server, and of the directives.
LEMMA ReadFacts ==
  ASSUME MInv, phase # "serve"
  PROVE  /\ SaidSound(past, Len(servers), Active)
         /\ \A s \in 1..Len(servers) :
              /\ Filled(servers[s], s, mods, Active, past.said.made, list.total, list.length)
              /\ LogSound(servers[s].log, s, mods, Active, past.said.levels, list.total, list.length)
         /\ past.said.made \subseteq (2..Len(servers)) \X Active
         /\ past.said.levels \in Seq([server : 1..Len(servers), of : Active \cup {None}, level : {1, 7}])
         /\ \A k \in DOMAIN past.said.levels :
              past.said.levels[k].server \in 1..Len(servers) /\ past.said.levels[k].of \in Active \cup {None}
<1>1. ReadSound
  BY DEF MInv
<1>2. SaidSound(past, Len(servers), Active)
  BY <1>1 DEF ReadSound
<1> DEFINE T == [server : 1..Len(servers), of : Active \cup {None}, level : {1, 7}]
           levels == past.said.levels
<1>3. levels \in Seq(T) /\ past.said.made \subseteq (2..Len(servers)) \X Active
  BY <1>2 DEF SaidSound
<1>4. \A l \in T : l.server \in 1..Len(servers) /\ l.of \in Active \cup {None}
  OBVIOUS
<1>5. \A k \in DOMAIN levels : levels[k] \in T
  <2> HIDE DEF T, levels
  <2>1. QED
    BY <1>3
<1>6. QED
  BY <1>1, <1>2, <1>3, <1>4, <1>5 DEF ReadSound

LEMMA ReserveRead == ASSUME IInv, MInv, ap_reserve_module_slots PROVE MInv'
<1>1. /\ phase = "read" /\ phase' = phase /\ list' = [list EXCEPT !.reserved = @ + 1]
      /\ mods' = mods /\ servers' = servers /\ past' = past
  BY DEF ap_reserve_module_slots
<1>2. list \in ListType
  BY RegistryFacts
<1>3. list'.top = list.top /\ list'.total = list.total /\ list'.length = list.length
  BY <1>1, <1>2, SMTT(30) DEF ListType
<1>4. Active' = Active
  BY <1>1, <1>3 DEF Active
<1>5. ReadSound'
  BY <1>1, <1>3, <1>4, ReadFacts DEF ReadSound
<1>6. QED
  BY <1>1, <1>5 DEF MInv, ConfigsMerged

LEMMA TrimRead == ASSUME IInv, MInv, conf_vector_length_pre_config PROVE MInv'
<1> DEFINE t == list.total
           n == list.length
           o == list'.length
<1>1. /\ phase = "read" /\ phase' = "config" /\ mods' = mods /\ servers' = servers /\ past' = past
      /\ list' = [list EXCEPT !.length = IF list.total + list.reserved < list.max
                                         THEN list.total + list.reserved ELSE @]
  BY DEF conf_vector_length_pre_config
<1>2. /\ list \in ListType /\ list.reserved \in Nat /\ t \in Nat /\ n \in Nat /\ t <= n /\ n = list.max
  BY <1>1, RegistryFacts DEF IInv
<1>3. /\ list'.top = list.top /\ list'.total = t
      /\ o = IF t + list.reserved < list.max THEN t + list.reserved ELSE n
  BY <1>1, <1>2, SMTT(30) DEF ListType
<1>4. o \in Nat /\ o <= n
  BY <1>2, <1>3
<1>5. Active' = Active
  BY <1>1, <1>3 DEF Active
<1> HIDE DEF t, n, o
<1>6. ASSUME NEW s \in 1..Len(servers)
      PROVE  /\ Filled(servers[s], s, mods, Active, past.said.made, t, o)
             /\ LogSound(servers[s].log, s, mods, Active, past.said.levels, t, o)
  <2>1. /\ Filled(servers[s], s, mods, Active, past.said.made, t, n)
        /\ LogSound(servers[s].log, s, mods, Active, past.said.levels, t, n)
    BY <1>1, ReadFacts DEF t, n
  <2>2. \A i \in t..o - 1 : i \in t..n - 1
    BY <1>2, <1>4
  <2>3. servers[s].log.modules = <<>>
    BY <1>1, ServerFacts
  <2>4. QED
    BY <2>1, <2>2, <2>3 DEF Filled, LogSound
<1>7. ReadSound'
  BY <1>1, <1>3, <1>5, <1>6, ReadFacts DEF ReadSound, t, o
<1>8. QED
  BY <1>1, <1>7 DEF MInv, ConfigsMerged

LEMMA HostRead == ASSUME IInv, MInv, ap_init_virtual_host PROVE MInv'
<1> DEFINE n == list.length
           t == list.total
           of == [config |-> Empty(n), dir |-> Empty(n), log |-> NewLog(UNSET)]
           N == Len(servers)
           made == past.said.made
           levels == past.said.levels
<1>1. /\ phase = "config" /\ phase' = phase /\ servers' = Append(servers, of)
      /\ mods' = mods /\ list' = list /\ past' = past
  BY DEF ap_init_virtual_host
<1>2. n \in Nat /\ t \in Nat /\ t <= n
  BY RegistryFacts
<1>3. of.config = Empty(n) /\ of.dir = Empty(n) /\ of.log.level = UNSET /\ of.log.modules = <<>>
  BY DEF NewLog
<1>4. \A i \in 0..n - 1 : Empty(n)[i] = <<>>
  BY DEF Empty
<1>5. servers \in Seq(ToSet(servers)) /\ N \in Nat \ {0}
  BY <1>1, ServerFacts
<1> HIDE DEF of
<1>6. Len(servers') = N + 1 /\ \A s \in 1..N + 1 : servers'[s] = IF s = N + 1 THEN of ELSE servers[s]
  <2> DEFINE V == ToSet(servers) \cup {of}
  <2>1. servers \in Seq(V) /\ of \in V
    BY <1>5
  <2> HIDE DEF V
  <2>2. QED
    BY <2>1, <1>1
<1>7. Active' = Active
  BY <1>1 DEF Active
<1>8. /\ SaidSound(past, N, Active) /\ made \subseteq (2..N) \X Active
      /\ \A s \in 1..N : /\ Filled(servers[s], s, mods, Active, made, t, n)
                         /\ LogSound(servers[s].log, s, mods, Active, levels, t, n)
      /\ \A k \in DOMAIN levels : levels[k].server \in 1..N
  BY <1>1, ReadFacts
<1>9. \A m \in Active : mods[m].index \in 0..t - 1
  BY ActiveIs
<1> HIDE DEF n, t, N, made, levels
<1>10. N + 1 \in Nat /\ N <= N + 1 /\ N + 1 # 1
  BY <1>5
<1>11. SaidSound(past, N + 1, Active)
  BY <1>5, <1>8, <1>10, SaidOfMore
<1>12. Filled(of, N + 1, mods, Active, made, t, n)
  <2>1. ASSUME NEW m \in Active PROVE of.config[mods[m].index] = <<>> /\ of.dir[mods[m].index] = <<>>
    BY <1>2, <1>3, <1>4, <1>9
  <2>2. ASSUME NEW i \in t..n - 1 PROVE of.config[i] = <<>> /\ of.dir[i] = <<>>
    BY <1>2, <1>3, <1>4
  <2>3. \A m \in Active : <<N + 1, m>> \notin made
    BY <1>5, <1>8
  <2>4. \A m \in Active : Own(PerServer, made, N + 1, m) = <<>> /\ Own(PerDir, made, N + 1, m) = <<>>
    BY <2>3, <1>10 DEF Own
  <2>5. QED
    BY <2>1, <2>2, <2>4 DEF Filled
<1>13. LogSound(of.log, N + 1, mods, Active, levels, t, n)
  <2>1. Default(N + 1) = UNSET
    BY <1>10 DEF Default
  <2>2. \A k \in DOMAIN levels : levels[k].server # N + 1
    BY <1>5, <1>8
  <2>3. \A m : Said(levels, N + 1, m, UNSET) = UNSET
    BY <2>2, SaidOfNone
  <2>4. QED
    BY <2>1, <2>3, <1>3 DEF LogSound, LevelAt
<1>14. \A s \in 1..N + 1 : /\ Filled(servers'[s], s, mods, Active, made, t, n)
                           /\ LogSound(servers'[s].log, s, mods, Active, levels, t, n)
  <2> SUFFICES ASSUME NEW s \in 1..N + 1
               PROVE  /\ Filled(servers'[s], s, mods, Active, made, t, n)
                      /\ LogSound(servers'[s].log, s, mods, Active, levels, t, n)
    OBVIOUS
  <2>1. CASE s = N + 1
    BY <2>1, <1>6, <1>12, <1>13
  <2>2. CASE s # N + 1
    <3>1. s \in 1..N /\ servers'[s] = servers[s]
      BY <2>2, <1>5, <1>6
    <3>2. QED
      BY <3>1, <1>8
  <2>3. QED
    BY <2>1, <2>2
<1>15. ReadSound'
  BY <1>1, <1>6, <1>7, <1>11, <1>14 DEF ReadSound, n, t, made, levels
<1>16. QED
  BY <1>1, <1>15 DEF MInv, ConfigsMerged

\* A module that is loaded is active, in the first slot that nobody has.
LEMMA LoadIs ==
  ASSUME IInv, NEW m \in Modules, Load(m)
  PROVE  /\ phase \in {"read", "config"} /\ phase' = phase /\ past' = past
         /\ m \notin Active /\ Active' = Active \cup {m}
         /\ mods'[m].index = list.total /\ \A k \in Active : mods'[k].index = mods[k].index
         /\ list'.total = list.total + 1 /\ list'.length = list.length /\ list.total < list.length
         /\ servers' = [servers EXCEPT ![1] = Configured(servers[1], m, list.total)]
<1> DEFINE S == ap_add_module(Registry, m)
           T == [S EXCEPT !.list.loaded = Append(list.loaded, m)]
           A == Prelinked \o Loaded
           L == Append(Loaded, m)
<1>1. /\ phase \in {"read", "config"} /\ mods[m].index = -1 /\ list.dynamic < DYNAMIC_MODULE_LIMIT
      /\ phase = "config" => list.total < list.length
      /\ Becomes(T) /\ phase' = phase /\ past' = past
      /\ servers' = [servers EXCEPT ![1] = Configured(servers[1], m, T.mods[m].index)]
  BY DEF Load
<1>2. /\ Registered(Registry, A, Loaded) /\ Loaded \in Seq(Modules) /\ A \in Seq(Modules)
      /\ Registry.mods = mods /\ Registry.list = list /\ list \in ListType
      /\ list.total = Len(Preloaded) + Len(Loaded) /\ list.dynamic = Len(Loaded) /\ list.max = Most
      /\ list.total \in Nat /\ list.length \in Nat /\ Prelinked \in Seq(Modules)
      /\ Most = Len(Preloaded) + DYNAMIC_MODULE_LIMIT + 1
      /\ Len(Preloaded) \in Nat /\ DYNAMIC_MODULE_LIMIT \in Nat /\ Len(Prelinked) <= Len(Preloaded)
      /\ mods \in [Modules -> [index : Int, next : Modules \cup {None}]] /\ Len(Prelinked) \in Nat
  BY RegistryFacts
<1>3. list.loaded = Preloaded \o Loaded /\ (phase = "read" => list.length = list.max)
  BY DEF IInv
<1>4. /\ Active = {A[i] : i \in 1..Len(A)} /\ Len(A) \in Nat
      /\ \A k \in Active : k \in Modules /\ mods[k].index \in 0..list.total - 1
  BY ActiveIs
<1>5. m \notin Active
  BY <1>1, <1>4
<1>6. list.total < list.length
  BY <1>1, <1>2, <1>3
<1> HIDE DEF A, L
<1>7. Registry.mods[m].next = None
  <2>1. \A i \in 1..Len(A) : A[i] # m
    BY <1>4, <1>5
  <2>2. QED
    BY <2>1, <1>2 DEF Registered
<1>8. SlotOf(Registry, m) = list.total /\ list.total \in 0..Most - 1 /\ Registry \in RegistryType
  BY <1>1, <1>2 DEF SlotOf, Registered
<1>9. /\ S \in RegistryType /\ S.mods = [mods EXCEPT ![m] = [index |-> list.total, next |-> list.top]]
      /\ S.list.length = list.length
  <2>1. /\ S \in RegistryType
        /\ S.mods = [Registry.mods EXCEPT ![m] = [index |-> SlotOf(Registry, m), next |-> Registry.list.top]]
        /\ S.list.length = Registry.list.length
    <3>1. SlotOf(Registry, m) \in 0..Most - 1
      BY <1>8
    <3>2. QED
      BY <3>1, <1>7, <1>8, AddIs
  <2>2. QED
    BY <2>1, <1>2, <1>8
<1> HIDE DEF S
<1>10. T.mods = S.mods /\ T.list.loaded = Append(list.loaded, m) /\ T.list.length = S.list.length
  <2> DEFINE loaded == Append(list.loaded, m)
  <2> HIDE DEF loaded
  <2>1. T = [S EXCEPT !.list.loaded = loaded]
    BY DEF loaded
  <2>2. S.list \in ListType /\ S = [mods |-> S.mods, list |-> S.list, cache |-> S.cache]
    BY <1>9 DEF RegistryType
  <2> HIDE DEF T
  <2>3. QED
    BY <2>1, <2>2 DEF ListType, loaded
<1> HIDE DEF T
<1>11. mods' = S.mods /\ list'.loaded = Append(list.loaded, m) /\ list'.length = list.length
  BY <1>1, <1>9, <1>10 DEF Becomes
<1>12. mods'[m].index = list.total /\ T.mods[m].index = list.total /\ \A k \in Active : mods'[k].index = mods[k].index
  BY <1>2, <1>4, <1>5, <1>9, <1>10, <1>11
<1>13. L \in Seq(Modules) /\ Len(L) = Len(Loaded) + 1 /\ Loaded' = L
  <2>1. L \in Seq(Modules) /\ Len(L) = Len(Loaded) + 1
    BY <1>2 DEF L
  <2>2. Preloaded \in Seq(Modules)
    BY ConfigModulesAssumption
  <2>3. list'.loaded = Preloaded \o L
    <3>1. Preloaded \o Append(Loaded, m) = Append(Preloaded \o Loaded, m)
      BY <2>2, <1>2, ConcatAppend
    <3>2. QED
      BY <3>1, <1>3, <1>11 DEF L
  <2>4. SubSeq(list'.loaded, Len(Preloaded) + 1, Len(list'.loaded)) = L
    BY <2>1, <2>3, LoadedIs
  <2>5. QED
    BY <2>1, <2>4 DEF Loaded
<1>14. Prelinked \o L = Append(A, m)
  BY <1>2, ConcatAppend DEF A, L
<1>15. /\ Registered(Registry', Append(A, m), L) /\ Registry'.mods = mods' /\ Registry'.list = list'
  <2>1. IInv'
    BY LoadKept
  <2>2. Registered(Registry', Prelinked \o Loaded', Loaded')
    BY <2>1 DEF IInv
  <2>3. QED
    BY <2>2, <1>13, <1>14 DEF Registry
<1>16. list'.total = list.total + 1
  BY <1>2, <1>13, <1>15 DEF Registered
<1>17. Active' = Active \cup {m}
  <2> DEFINE B == Append(A, m)
             R == Registry'
  <2>1. Len(B) = Len(A) + 1 /\ B[Len(A) + 1] = m /\ \A i \in 1..Len(A) : B[i] = A[i]
    BY <1>2
  <2>2. Len(A) = Len(Prelinked) + Len(Loaded)
    BY <1>2 DEF A
  <2>3. Len(B) <= Most
    BY <2>1, <2>2, <1>1, <1>2
  <2>4. Registered(R, B, L) /\ R.mods = mods' /\ R.list = list'
    BY <1>15
  <2> HIDE DEF B, R
  <2>5. ToSet(Chained(R.mods, R.list.top)) = {B[i] : i \in 1..Len(B)}
    BY <2>3, <2>4, RegisteredActive, SMTT(30)
  <2>6. Active' = {B[i] : i \in 1..Len(A) + 1}
    BY <2>1, <2>4, <2>5 DEF Active
  <2>7. \A i \in 1..Len(A) + 1 : i \in 1..Len(A) \/ i = Len(A) + 1
    BY <1>4
  <2>8. 1..Len(A) \subseteq 1..Len(A) + 1 /\ Len(A) + 1 \in 1..Len(A) + 1
    BY <1>4
  <2>9. QED
    BY <2>1, <2>6, <2>7, <2>8, <1>4
<1>18. QED
  BY <1>1, <1>5, <1>6, <1>11, <1>12, <1>16, <1>17

LEMMA LoadRead == ASSUME IInv, MInv, NEW m \in Modules, Load(m) PROVE MInv'
<1> DEFINE n == list.length
           t == list.total
           N == Len(servers)
           made == past.said.made
           levels == past.said.levels
           of == Configured(servers[1], m, t)
           B == Active \cup {m}
<1>1. /\ phase \in {"read", "config"} /\ phase' = phase /\ past' = past
      /\ m \notin Active /\ Active' = B
      /\ mods'[m].index = t /\ \A k \in Active : mods'[k].index = mods[k].index
      /\ list'.total = t + 1 /\ list'.length = n /\ t < n
      /\ servers' = [servers EXCEPT ![1] = of]
  BY LoadIs
<1>2. n \in Nat /\ t \in Nat /\ None \notin Modules
  BY RegistryFacts, ConfigModulesAssumption
<1>3. servers \in Seq(ToSet(servers)) /\ N \in Nat \ {0} /\ \A s \in 1..N : ServerSound(servers[s], n)
  BY <1>1, ServerFacts
<1>4. Len(servers') = N /\ \A s \in 1..N : servers'[s] = IF s = 1 THEN of ELSE servers[s]
  <2> DEFINE V == ToSet(servers) \cup {of}
  <2>1. servers \in Seq(V) /\ of \in V
    BY <1>3
  <2> HIDE DEF V, of
  <2>2. QED
    BY <2>1, <1>1, <1>3
<1>5. /\ SaidSound(past, N, Active) /\ made \subseteq (2..N) \X Active
      /\ \A s \in 1..N : /\ Filled(servers[s], s, mods, Active, made, t, n)
                         /\ LogSound(servers[s].log, s, mods, Active, levels, t, n)
      /\ \A k \in DOMAIN levels : levels[k].of \in Active \cup {None}
  BY <1>1, ReadFacts
<1>6. \A k \in Active : mods[k].index \in 0..t - 1
  BY ActiveIs
<1>7. SaidSound(past, N, B)
  BY <1>3, <1>5, SaidOfMore
<1> HIDE DEF n, t, N, made, levels
<1>8. t \in t..n - 1 /\ t \in 0..n - 1 /\ \A i \in t + 1..n - 1 : i \in t..n - 1 /\ i # t
  BY <1>1, <1>2
<1>9. \A k \in Active : mods[k].index # t
  BY <1>2, <1>6
<1>10. \A s \in 1..N : <<s, m>> \notin made
  BY <1>1, <1>5
<1>11. ASSUME NEW s \in 1..N, s # 1 PROVE Filled(servers[s], s, mods', B, made, t + 1, n)
  <2>1. Filled(servers[s], s, mods, Active, made, t, n)
    BY <1>5
  <2>2. Own(PerServer, made, s, m) = <<>> /\ Own(PerDir, made, s, m) = <<>>
    BY <1>10, <1>11 DEF Own
  <2>3. servers[s].config[mods'[m].index] = <<>> /\ servers[s].dir[mods'[m].index] = <<>>
    BY <2>1, <1>1, <1>8 DEF Filled
  <2>4. QED
    BY <2>1, <2>2, <2>3, <1>1, <1>8 DEF Filled
<1>12. Filled(of, 1, mods', B, made, t + 1, n) /\ of.log = servers[1].log
  <2> DEFINE main == servers[1]
             c == IF m \in PerServer THEN [main.config EXCEPT ![t] = Made(m, 1)] ELSE main.config
             d == IF m \in PerDir THEN [main.dir EXCEPT ![t] = Made(m, 1)] ELSE main.dir
  <2>1. ServerSound(main, n) /\ Filled(main, 1, mods, Active, made, t, n)
    BY <1>3, <1>5
  <2>2. PICK k \in Nat : k >= n /\ Vector(main.config, k) /\ Vector(main.dir, k)
    BY <2>1 DEF ServerSound
  <2>3. t \in DOMAIN main.config /\ t \in DOMAIN main.dir
    <3>1. t \in 0..k - 1
      BY <2>2, <1>2, <1>8
    <3>2. QED
      BY <3>1, <2>2 DEF Vector
  <2>4. main = [config |-> main.config, dir |-> main.dir, log |-> main.log]
    BY <2>1 DEF ServerSound
  <2>5. of.config = c /\ of.dir = d /\ of.log = main.log
    <3>1. of = [main EXCEPT !.config = c, !.dir = d]
      BY DEF Configured
    <3> HIDE DEF c, d, main, of
    <3>2. of = [config |-> c, dir |-> d, log |-> main.log]
      BY <3>1, <2>4
    <3>3. QED
      BY <3>2
  <2>6. /\ \A i : i # t => c[i] = main.config[i] /\ d[i] = main.dir[i]
        /\ c[t] = (IF m \in PerServer THEN Made(m, 1) ELSE main.config[t])
        /\ d[t] = (IF m \in PerDir THEN Made(m, 1) ELSE main.dir[t])
    BY <2>3
  <2>7. main.config[t] = <<>> /\ main.dir[t] = <<>>
    BY <2>1, <1>8 DEF Filled
  <2> HIDE DEF c, d, main, of
  <2>8. c[mods'[m].index] = Own(PerServer, made, 1, m) /\ d[mods'[m].index] = Own(PerDir, made, 1, m)
    BY <2>6, <2>7, <1>1 DEF Own
  <2>9. ASSUME NEW x \in Active
        PROVE  c[mods'[x].index] = Own(PerServer, made, 1, x) /\ d[mods'[x].index] = Own(PerDir, made, 1, x)
    BY <2>1, <2>6, <1>1, <1>9 DEF Filled
  <2>10. ASSUME NEW i \in t + 1..n - 1 PROVE c[i] = <<>> /\ d[i] = <<>>
    BY <2>1, <2>6, <1>8 DEF Filled
  <2>11. QED
    BY <2>5, <2>8, <2>9, <2>10 DEF Filled, main
<1>13. ASSUME NEW s \in 1..N PROVE LogSound(servers[s].log, s, mods', B, levels, t + 1, n)
  <2> DEFINE l == servers[s].log
  <2>1. LogSound(l, s, mods, Active, levels, t, n)
    BY <1>5
  <2> HIDE DEF l
  <2>2. \A k \in DOMAIN levels : levels[k].of # m
    BY <1>1, <1>2, <1>5
  <2>3. Said(levels, s, m, Default(s)) = Said(levels, s, None, Default(s))
    BY <2>2, SaidOfNone
  <2>4. LevelAt(l, mods'[m].index) = l.level
    BY <2>1, <1>1, <1>8 DEF LevelAt, LogSound
  <2>5. QED
    BY <2>1, <2>3, <2>4, <1>1, <1>8 DEF LogSound, l
<1> HIDE DEF of
<1>14. \A s \in 1..N : /\ Filled(servers'[s], s, mods', B, made, t + 1, n)
                       /\ LogSound(servers'[s].log, s, mods', B, levels, t + 1, n)
  <2> SUFFICES ASSUME NEW s \in 1..N
               PROVE  /\ Filled(servers'[s], s, mods', B, made, t + 1, n)
                      /\ LogSound(servers'[s].log, s, mods', B, levels, t + 1, n)
    OBVIOUS
  <2>1. CASE s = 1
    <3>1. servers'[s] = of /\ of.log = servers[s].log
      BY <2>1, <1>4, <1>12
    <3>2. Filled(of, s, mods', B, made, t + 1, n) /\ LogSound(servers[s].log, s, mods', B, levels, t + 1, n)
      BY <2>1, <1>12, <1>13
    <3>3. QED
      BY <3>1, <3>2
  <2>2. CASE s # 1
    BY <2>2, <1>4, <1>11, <1>13
  <2>3. QED
    BY <2>1, <2>2
<1>15. ReadSound'
  BY <1>1, <1>4, <1>7, <1>14 DEF ReadSound, n, t, made, levels
<1>16. QED
  BY <1>1, <1>15 DEF MInv, ConfigsMerged

\* What was said once there is one more directive, of a level or of a module.
MoreLevels(p, s, m, level) == [p EXCEPT !.said.levels = Append(@, [server |-> s, of |-> m, level |-> level])]
MoreMade(p, s, m) == [p EXCEPT !.said.made = @ \cup {<<s, m>>}, !.said.directives = @ + 1]

\* One more directive about the level of a module, or of all, in server s.
LEMMA LevelSaid ==
  ASSUME NEW p, NEW N, NEW A, SaidSound(p, N, A), NEW s \in 1..N, NEW m \in A \cup {None}, NEW level \in {1, 7}
  PROVE  LET q == MoreLevels(p, s, m, level) IN
         /\ SaidSound(q, N, A) /\ q.said.made = p.said.made
         /\ q.said.levels = Append(p.said.levels, [server |-> s, of |-> m, level |-> level])
<1> DEFINE T == [server : 1..N, of : A \cup {None}, level : {1, 7}]
           l == [server |-> s, of |-> m, level |-> level]
           levels == p.said.levels
           more == Append(levels, l)
           q == [p EXCEPT !.said.levels = more]
<1>1. /\ p = [said |-> p.said, restarts |-> p.restarts]
      /\ p.said = [levels |-> p.said.levels, made |-> p.said.made, directives |-> p.said.directives]
      /\ p.said.made \subseteq (2..N) \X A /\ levels \in Seq(T)
  BY DEF SaidSound
<1>2. l \in T
  OBVIOUS
<1> HIDE DEF l
<1>3. more \in Seq(T)
  <2> HIDE DEF T, levels
  <2>1. QED
    BY <1>1, <1>2
<1> HIDE DEF more
<1>4. q = [said |-> [levels |-> more, made |-> p.said.made, directives |-> p.said.directives], restarts |-> p.restarts]
  BY <1>1
<1> HIDE DEF q, T
<1>5. /\ q = [said |-> q.said, restarts |-> q.restarts]
      /\ q.said = [levels |-> more, made |-> p.said.made, directives |-> p.said.directives]
  BY <1>4
<1>6. q.said.levels = more /\ q.said.made = p.said.made /\ q.said.directives = p.said.directives
  BY <1>5
<1>7. SaidSound(q, N, A)
  BY <1>1, <1>3, <1>5, <1>6 DEF SaidSound, T
<1>8. QED
  BY <1>6, <1>7 DEF q, more, l, MoreLevels

\* One more directive of module m in virtual host s.
LEMMA MadeSaid ==
  ASSUME NEW p, NEW N \in Nat, NEW A, SaidSound(p, N, A), NEW s \in 2..N, NEW m \in A
  PROVE  LET q == MoreMade(p, s, m) IN
         /\ SaidSound(q, N, A) /\ q.said.levels = p.said.levels
         /\ q.said.made = p.said.made \cup {<<s, m>>}
<1> DEFINE T == [server : 1..N, of : A \cup {None}, level : {1, 7}]
           made == p.said.made \cup {<<s, m>>}
           u == [p EXCEPT !.said.made = made]
           d == u.said.directives + 1
           q == MoreMade(p, s, m)
<1>1. /\ p = [said |-> p.said, restarts |-> p.restarts]
      /\ p.said = [levels |-> p.said.levels, made |-> p.said.made, directives |-> p.said.directives]
      /\ p.said.made \subseteq (2..N) \X A /\ p.said.levels \in Seq(T)
  BY DEF SaidSound
<1>2. made \subseteq (2..N) \X A
  BY <1>1
<1>3. q = [u EXCEPT !.said.directives = d]
  BY DEF MoreMade
<1> HIDE DEF made, d, q, T
<1> DEFINE a == p.said.levels
           b == p.said.made
           c == p.said.directives
           e == p.restarts
<1>4. p = [said |-> [levels |-> a, made |-> b, directives |-> c], restarts |-> e]
  BY <1>1
<1> HIDE DEF a, b, c, e
<1>5. u = [said |-> [levels |-> a, made |-> made, directives |-> c], restarts |-> e]
  BY <1>4
<1> HIDE DEF u
<1>6. q = [said |-> [levels |-> a, made |-> made, directives |-> d], restarts |-> e]
  BY <1>3, <1>5
<1>7. /\ q = [said |-> q.said, restarts |-> q.restarts]
      /\ q.said = [levels |-> a, made |-> made, directives |-> d]
  BY <1>6
<1>8. q.said.levels = a /\ q.said.made = made /\ q.said.directives = d
  BY <1>7
<1>9. SaidSound(q, N, A)
  BY <1>1, <1>2, <1>7, <1>8 DEF SaidSound, T, a
<1>10. QED
  BY <1>8, <1>9 DEF made, q, a

LEMMA VectorsRead ==
  ASSUME IInv, MInv, NEW s \in DOMAIN servers, NEW m \in Modules, ap_set_config_vectors(s, m)
  PROVE  MInv'
<1> DEFINE n == list.length
           t == list.total
           N == Len(servers)
           made == past.said.made
           more == made \cup {<<s, m>>}
           levels == past.said.levels
           i == mods[m].index
           of == servers[s]
           c == IF of.config[i] = <<>> /\ m \in PerServer THEN Made(m, s) ELSE of.config[i]
           d == IF of.dir[i] = <<>> /\ m \in PerDir THEN Made(m, s) ELSE of.dir[i]
           C == [of.config EXCEPT ![i] = c]
           D == [of.dir EXCEPT ![i] = d]
           new == [of EXCEPT !.dir = D, !.config = C]
<1>1. /\ phase = "config" /\ m \in Active /\ s > 1 /\ phase' = phase /\ mods' = mods /\ list' = list
      /\ servers' = [servers EXCEPT ![s].dir[i] = d, ![s].config[i] = c]
      /\ past' = [past EXCEPT !.said.made = @ \cup {<<s, m>>}, !.said.directives = @ + 1]
  BY DEF ap_set_config_vectors
<1>2. /\ s \in 1..N /\ N \in Nat /\ servers \in Seq(ToSet(servers)) /\ ServerSound(of, n)
      /\ n \in Nat /\ t \in Nat
  BY <1>1, ServerFacts, RegistryFacts
<1>3. i \in DOMAIN of.config /\ i \in DOMAIN of.dir
  BY <1>1, <1>2, SlotInside
<1>4. /\ SaidSound(past, N, Active) /\ made \subseteq (2..N) \X Active
      /\ \A x \in 1..N : /\ Filled(servers[x], x, mods, Active, made, t, n)
                         /\ LogSound(servers[x].log, x, mods, Active, levels, t, n)
  BY <1>1, ReadFacts
<1>5. Active' = Active
  BY <1>1 DEF Active
<1>6. /\ \A k \in Active : mods[k].index \in 0..t - 1 /\ (mods[k].index = mods[m].index => k = m)
  BY <1>1, ActiveIs
<1>7. servers' = [servers EXCEPT ![s] = new]
  <2> HIDE DEF c, d
  <2>1. servers' = [servers EXCEPT ![s].dir[i] = d, ![s].config[i] = c]
    BY <1>1
  <2>2. QED
    BY <2>1, <1>2
<1>8. of = [config |-> of.config, dir |-> of.dir, log |-> of.log]
  BY <1>2 DEF ServerSound
<1>9. SaidSound(past', N, Active) /\ past'.said.made = more /\ past'.said.levels = levels
  <2> DEFINE q == MoreMade(past, s, m)
  <2>1. past' = q
    BY <1>1 DEF MoreMade
  <2> HIDE DEF N, q
  <2>2. N \in Nat /\ s \in 1..N /\ s > 1
    BY <1>1, <1>2 DEF N
  <2>3. s \in 2..N /\ m \in Active /\ SaidSound(past, N, Active)
    <3>1. s \in 2..N
      BY <2>2
    <3>2. m \in Active /\ SaidSound(past, N, Active)
      BY <1>1, <1>4
    <3>3. QED
      BY <3>1, <3>2
  <2>4. SaidSound(q, N, Active) /\ q.said.levels = past.said.levels /\ q.said.made = past.said.made \cup {<<s, m>>}
    BY <2>2, <2>3, MadeSaid DEF q
  <2>5. QED
    BY <2>1, <2>4 DEF N
<1>10. Filled(of, s, mods, Active, made, t, n)
  BY <1>2, <1>4
<1>11. /\ of.config[i] = Own(PerServer, made, s, m) /\ of.dir[i] = Own(PerDir, made, s, m)
  BY <1>1, <1>10 DEF Filled
<1>12. c = Own(PerServer, more, s, m) /\ d = Own(PerDir, more, s, m)
  <2> HIDE DEF of, i, N, n, t, made, levels
  <2>1. s # 1 /\ <<s, m>> \in more /\ Made(m, s) # <<>>
    <3>1. s # 1
      BY <1>1, <1>2
    <3>2. <<s, m>> \in more
      OBVIOUS
    <3>3. Made(m, s) # <<>>
      BY DEF Made
    <3>4. QED
      BY <3>1, <3>2, <3>3
  <2> HIDE DEF more
  <2>2. of.config[i] = (IF m \in PerServer /\ <<s, m>> \in made THEN Made(m, s) ELSE <<>>)
        /\ of.dir[i] = (IF m \in PerDir /\ <<s, m>> \in made THEN Made(m, s) ELSE <<>>)
    BY <2>1, <1>11 DEF Own
  <2>3. QED
    BY <2>1, <2>2 DEF Own
<1>13. /\ \A j : j # i => C[j] = of.config[j] /\ D[j] = of.dir[j]
       /\ C[i] = c /\ D[i] = d
  <2> HIDE DEF c, d
  <2>1. QED
    BY <1>3
<1> HIDE DEF c, d
<1>14. new.config = C /\ new.dir = D /\ new.log = of.log
  <2> HIDE DEF C, D, of
  <2> DEFINE a == of.config
             b == of.dir
             g == of.log
             e == [of EXCEPT !.dir = D]
  <2>1. new = [config |-> C, dir |-> D, log |-> of.log]
    <3> HIDE DEF a, b, g
    <3>1. of = [config |-> a, dir |-> b, log |-> g]
      BY <1>8 DEF a, b, g
    <3>2. new = [e EXCEPT !.config = C]
      OBVIOUS
    <3>3. e = [config |-> a, dir |-> D, log |-> g]
      BY <3>1
    <3> HIDE DEF e, new
    <3>4. new = [config |-> C, dir |-> D, log |-> g]
      BY <3>2, <3>3
    <3>5. QED
      BY <3>4 DEF g
  <2> HIDE DEF new
  <2>2. QED
    BY <2>1
<1> HIDE DEF C, D, new
<1>15. Len(servers') = N /\ \A x \in 1..N : servers'[x] = IF x = s THEN new ELSE servers[x]
  <2> DEFINE V == ToSet(servers) \cup {new}
  <2>1. servers \in Seq(V) /\ new \in V
    BY <1>2
  <2> HIDE DEF V
  <2>2. QED
    BY <2>1, <1>2, <1>7
<1> HIDE DEF n, t, N, made, more, levels, i, of
<1>16. Filled(new, s, mods, Active, more, t, n)
  <2>1. ASSUME NEW k \in Active, k # m
        PROVE  /\ new.config[mods[k].index] = Own(PerServer, more, s, k)
               /\ new.dir[mods[k].index] = Own(PerDir, more, s, k)
    <3>1. mods[k].index # i
      BY <2>1, <1>6 DEF i
    <3>2. <<s, k>> \in more <=> <<s, k>> \in made
      BY <2>1 DEF more
    <3>3. Own(PerServer, more, s, k) = Own(PerServer, made, s, k) /\ Own(PerDir, more, s, k) = Own(PerDir, made, s, k)
      BY <3>2 DEF Own
    <3>4. QED
      BY <3>1, <3>3, <1>10, <1>13, <1>14 DEF Filled
  <2>2. new.config[mods[m].index] = Own(PerServer, more, s, m) /\ new.dir[mods[m].index] = Own(PerDir, more, s, m)
    BY <1>12, <1>13, <1>14 DEF i
  <2>3. ASSUME NEW j \in t..n - 1 PROVE new.config[j] = <<>> /\ new.dir[j] = <<>>
    <3>1. j # i
      BY <1>1, <1>2, <1>6 DEF i
    <3>2. QED
      BY <3>1, <1>10, <1>13, <1>14 DEF Filled
  <2>4. QED
    BY <2>1, <2>2, <2>3 DEF Filled
<1>17. ASSUME NEW x \in 1..N, x # s PROVE Filled(servers[x], x, mods, Active, more, t, n)
  <2>1. \A k : <<x, k>> \in more <=> <<x, k>> \in made
    BY <1>17 DEF more
  <2>2. \A k : Own(PerServer, more, x, k) = Own(PerServer, made, x, k) /\ Own(PerDir, more, x, k) = Own(PerDir, made, x, k)
    BY <2>1 DEF Own
  <2>3. Filled(servers[x], x, mods, Active, made, t, n)
    BY <1>4
  <2>4. QED
    BY <2>2, <2>3 DEF Filled
<1>18. \A x \in 1..N : /\ Filled(servers'[x], x, mods, Active, more, t, n)
                       /\ LogSound(servers'[x].log, x, mods, Active, levels, t, n)
  <2> SUFFICES ASSUME NEW x \in 1..N
               PROVE  /\ Filled(servers'[x], x, mods, Active, more, t, n)
                      /\ LogSound(servers'[x].log, x, mods, Active, levels, t, n)
    OBVIOUS
  <2>1. LogSound(servers[x].log, x, mods, Active, levels, t, n)
    BY <1>4
  <2>2. CASE x = s
    <3>1. servers'[x] = new /\ new.log = servers[x].log
      BY <2>2, <1>14, <1>15 DEF of
    <3>2. QED
      BY <3>1, <2>1, <2>2, <1>16
  <2>3. CASE x # s
    BY <2>1, <2>3, <1>15, <1>17
  <2>4. QED
    BY <2>2, <2>3
<1>19. ReadSound'
  BY <1>1, <1>5, <1>9, <1>15, <1>18 DEF ReadSound, n, t, more, levels
<1>20. QED
  BY <1>1, <1>19 DEF MInv, ConfigsMerged

\* A level for all of a server.
LEMMA LevelOfAll ==
  ASSUME NEW l, NEW s, NEW M, NEW A, NEW T, NEW levels \in Seq(T), NEW t \in Nat, NEW n \in Nat, NEW level \in {1, 7},
         LogSound(l, s, M, A, levels, t, n), l = [level |-> l.level, modules |-> l.modules],
         l.modules = <<>> \/ Vector(l.modules, n), \A m \in A : M[m].index \in 0..t - 1, t <= n,
         NEW e \in T, e.server = s, e.of = None, e.level = level
  PROVE  LogSound([reset_module_loglevels(l, NO_MODULE) EXCEPT !.level = level], s, M, A, Append(levels, e), t, n)
<1> DEFINE more == Append(levels, e)
           v == [i \in DOMAIN l.modules |-> NO_MODULE]
           g == [reset_module_loglevels(l, NO_MODULE) EXCEPT !.level = level]
<1>1. \A m : Said(more, s, m, Default(s)) = level
  BY SaidAppend
<1>2. g = [level |-> level, modules |-> IF l.modules = <<>> THEN <<>> ELSE v]
  <2> DEFINE a == l.level
             b == l.modules
  <2> HIDE DEF a, b
  <2>1. l = [level |-> a, modules |-> b]
    BY DEF a, b
  <2> HIDE DEF v
  <2>2. CASE l.modules = <<>>
    <3>1. g = [l EXCEPT !.level = level]
      BY <2>2 DEF reset_module_loglevels
    <3>2. b = <<>>
      BY <2>2 DEF b
    <3> HIDE DEF g
    <3>3. g = [level |-> level, modules |-> <<>>]
      BY <3>1, <3>2, <2>1
    <3>4. QED
      BY <3>3, <2>2
  <2>3. CASE l.modules # <<>>
    <3>1. g = [[l EXCEPT !.modules = v] EXCEPT !.level = level]
      BY <2>3 DEF reset_module_loglevels, v
    <3> HIDE DEF g
    <3>2. g = [level |-> level, modules |-> v]
      BY <3>1, <2>1
    <3>3. QED
      BY <3>2, <2>3
  <2>4. QED
    BY <2>2, <2>3
<1>3. l.modules # <<>> => \A i \in 0..n - 1 : v[i] = NO_MODULE
  BY DEF Vector
<1> HIDE DEF g, v, more
<1>4. g.level = level /\ g.modules = IF l.modules = <<>> THEN <<>> ELSE v
  BY <1>2
<1>5. \A i \in 0..n - 1 : g.modules # <<>> => g.modules[i] = NO_MODULE
  BY <1>3, <1>4
<1>6. level # UNSET /\ NO_MODULE < 0
  BY DEF UNSET, NO_MODULE
<1>7. \A m \in A : LevelAt(g, M[m].index) = level
  <2> SUFFICES ASSUME NEW m \in A PROVE LevelAt(g, M[m].index) = level
    OBVIOUS
  <2>1. M[m].index \in 0..n - 1
    <3>1. M[m].index \in 0..t - 1
      OBVIOUS
    <3>2. QED
      BY <3>1
  <2>2. QED
    BY <2>1, <1>4, <1>5, <1>6 DEF LevelAt
<1>8. \A i \in t..n - 1 : i \in 0..n - 1
  OBVIOUS
<1>9. QED
  BY <1>1, <1>4, <1>5, <1>6, <1>7, <1>8 DEF LogSound, g, more

\* A level for one module of a server.
LEMMA LevelOfOne ==
  ASSUME NEW l, NEW s, NEW A, NEW T, NEW levels \in Seq(T), NEW t \in Nat, t <= list.length, list.length \in Nat,
         NEW level \in {1, 7},
         LogSound(l, s, mods, A, levels, t, list.length), l = [level |-> l.level, modules |-> l.modules],
         l.modules = <<>> \/ Vector(l.modules, list.length), \A m \in A : mods[m].index \in 0..t - 1,
         \A k, m \in A : mods[k].index = mods[m].index => k = m, None \notin A,
         NEW x \in A, NEW e \in T, e.server = s, e.of = x, e.level = level
  PROVE  LogSound(set_module_loglevel(l, mods[x].index, level), s, mods, A, Append(levels, e), t, list.length)
<1> DEFINE n == list.length
           more == Append(levels, e)
           index == mods[x].index
           all == [i \in 0..n - 1 |-> IF l.level = UNSET THEN UNSET ELSE NO_MODULE]
           old == IF l.modules = <<>> THEN all ELSE l.modules
           v == [old EXCEPT ![index] = level]
           g == set_module_loglevel(l, index, level)
<1>1. /\ Said(more, s, x, Default(s)) = level
      /\ Said(more, s, None, Default(s)) = Said(levels, s, None, Default(s))
      /\ \A m \in A : m # x => Said(more, s, m, Default(s)) = Said(levels, s, m, Default(s))
  <2>1. \A m : Said(more, s, m, Default(s)) = IF x \in {m, None} THEN level ELSE Said(levels, s, m, Default(s))
    BY SaidAppend
  <2>2. x # None
    OBVIOUS
  <2> HIDE DEF more
  <2>3. QED
    BY <2>1, <2>2
<1>2. g.level = l.level /\ g.modules = v
  <2> DEFINE a == l.level
             b == l.modules
  <2>1. g = [l EXCEPT !.modules = v]
    BY DEF set_module_loglevel
  <2> HIDE DEF a, b, v, g
  <2>2. l = [level |-> a, modules |-> b]
    BY DEF a, b
  <2>3. g = [level |-> a, modules |-> v]
    BY <2>1, <2>2
  <2>4. QED
    BY <2>3 DEF a
<1>3. n \in Nat /\ index \in 0..n - 1 /\ \A m \in A : mods[m].index \in 0..n - 1 /\ (m # x => mods[m].index # index)
  BY DEF n
<1>4. DOMAIN old = 0..n - 1
  BY DEF Vector
<1>5. /\ l.modules = <<>> => \A i \in 0..n - 1 : old[i] = IF l.level = UNSET THEN UNSET ELSE NO_MODULE
      /\ l.modules # <<>> => old = l.modules
  OBVIOUS
<1> HIDE DEF g, all, old, n, index, more
<1>6. DOMAIN v = 0..n - 1 /\ v[index] = level /\ \A i \in 0..n - 1 : i # index => v[i] = old[i]
  BY <1>3, <1>4
<1> HIDE DEF v
<1>7. v # <<>>
  <2>1. DOMAIN v # {}
    BY <1>3, <1>6
  <2>2. DOMAIN <<>> = {}
    OBVIOUS
  <2>3. QED
    BY <2>1, <2>2
<1>8. UNSET < 0 /\ NO_MODULE < 0 /\ UNSET # NO_MODULE /\ level # NO_MODULE /\ ~ (level < 0)
  BY DEF UNSET, NO_MODULE
<1>9. /\ l.level = Said(levels, s, None, Default(s))
      /\ \A m \in A : LevelAt(l, mods[m].index) = Said(levels, s, m, Default(s))
      /\ l.modules # <<>> =>
           /\ \A i \in 0..n - 1 : /\ l.modules[i] \in {UNSET, NO_MODULE, 1, 7}
                                  /\ l.level = UNSET => l.modules[i] # NO_MODULE
           /\ \A i \in t..n - 1 : l.modules[i] < 0
  BY DEF LogSound, n
<1>10. LevelAt(g, index) = level
  BY <1>2, <1>6, <1>7, <1>8 DEF LevelAt
<1>11. ASSUME NEW m \in A, m # x PROVE LevelAt(g, mods[m].index) = LevelAt(l, mods[m].index)
  <2> DEFINE i == mods[m].index
  <2>1. i \in 0..n - 1 /\ i # index
    BY <1>3, <1>11
  <2> HIDE DEF i
  <2>2. v[i] = old[i]
    BY <2>1, <1>6
  <2>3. CASE l.modules = <<>>
    <3>1. v[i] < 0
      BY <2>1, <2>2, <2>3, <1>5, <1>8
    <3>2. QED
      BY <3>1, <2>3, <1>2, <1>7 DEF LevelAt, i
  <2>4. CASE l.modules # <<>>
    BY <2>2, <2>4, <1>2, <1>5, <1>7 DEF LevelAt, i
  <2>5. QED
    BY <2>3, <2>4
<1>12. ASSUME NEW i \in 0..n - 1 PROVE v[i] \in {UNSET, NO_MODULE, 1, 7} /\ (l.level = UNSET => v[i] # NO_MODULE)
  <2>1. CASE i = index
    BY <2>1, <1>6, <1>8
  <2>2. CASE i # index
    BY <2>2, <1>5, <1>6, <1>8, <1>9
  <2>3. QED
    BY <2>1, <2>2
<1>13. ASSUME NEW i \in t..n - 1 PROVE v[i] < 0
  <2>1. i \in 0..n - 1 /\ i # index
    <3>1. index \in 0..t - 1
      BY DEF index
    <3>2. QED
      BY <3>1, <1>3
  <2>2. QED
    BY <2>1, <1>5, <1>6, <1>8, <1>9
<1>14. \A m \in A : LevelAt(g, mods[m].index) = Said(more, s, m, Default(s))
  BY <1>1, <1>9, <1>10, <1>11 DEF index
<1>15. QED
  BY <1>1, <1>2, <1>9, <1>12, <1>13, <1>14 DEF LogSound, g, index, more, n

LEMMA LevelRead ==
  ASSUME IInv, MInv, NEW s \in DOMAIN servers, NEW m \in Modules \cup {None}, NEW level \in {1, 7}, SetLevel(s, m, level)
  PROVE  MInv'
<1> DEFINE n == list.length
           t == list.total
           N == Len(servers)
           made == past.said.made
           levels == past.said.levels
           of == servers[s]
           l == of.log
           e == [server |-> s, of |-> m, level |-> level]
           T == [server : 1..N, of : Active \cup {None}, level : {1, 7}]
           more == Append(levels, e)
           g == IF m = None THEN [reset_module_loglevels(l, NO_MODULE) EXCEPT !.level = level]
                ELSE set_module_loglevel(l, mods[m].index, level)
           new == [of EXCEPT !.log = g]
<1>1. /\ phase = "config" /\ (m # None => m \in Active) /\ phase' = phase /\ mods' = mods /\ list' = list
      /\ servers' = [servers EXCEPT ![s].log = g] /\ past' = MoreLevels(past, s, m, level)
  BY DEF SetLevel, MoreLevels
<1>2. /\ s \in 1..N /\ servers \in Seq(ToSet(servers)) /\ ServerSound(of, n)
      /\ n \in Nat /\ t \in Nat /\ t <= n
  BY <1>1, ServerFacts, RegistryFacts
<1>3. /\ SaidSound(past, N, Active) /\ levels \in Seq(T)
      /\ \A x \in 1..N : /\ Filled(servers[x], x, mods, Active, made, t, n)
                         /\ LogSound(servers[x].log, x, mods, Active, levels, t, n)
  BY <1>1, ReadFacts
<1>4. Active' = Active
  BY <1>1 DEF Active
<1>5. /\ \A k \in Active : k \in Modules /\ mods[k].index \in 0..t - 1
      /\ \A k, x \in Active : mods[k].index = mods[x].index => k = x
  BY ActiveIs
<1>6. None \notin Active /\ m \in Active \cup {None}
  BY <1>1, <1>5, ConfigModulesAssumption
<1>7. SaidSound(past', N, Active) /\ past'.said.made = made /\ past'.said.levels = more
  <2> DEFINE q == MoreLevels(past, s, m, level)
  <2>1. s \in 1..N /\ m \in Active \cup {None} /\ level \in {1, 7} /\ SaidSound(past, N, Active) /\ past' = q
    BY <1>1, <1>2, <1>3, <1>6
  <2> HIDE DEF N, q, e
  <2>2. /\ SaidSound(q, N, Active) /\ q.said.made = past.said.made
        /\ q.said.levels = Append(past.said.levels, e)
    BY <2>1, LevelSaid, ZenonT(60) DEF q, e
  <2>3. QED
    BY <2>1, <2>2 DEF N
<1>8. /\ of = [config |-> of.config, dir |-> of.dir, log |-> of.log]
      /\ l = [level |-> l.level, modules |-> l.modules]
      /\ l.modules = <<>> \/ Vector(l.modules, n)
  BY <1>2 DEF ServerSound
<1>9. e \in T /\ e.server = s /\ e.of = m /\ e.level = level
  BY <1>2, <1>6
<1>10. servers' = [servers EXCEPT ![s] = new]
  <2> HIDE DEF g
  <2>1. servers' = [servers EXCEPT ![s].log = g]
    BY <1>1
  <2>2. QED
    BY <2>1, <1>2
<1>11. LogSound(l, s, mods, Active, levels, t, n)
  BY <1>2, <1>3
<1> HIDE DEF of, N, T, e
<1>12. LogSound(g, s, mods, Active, more, t, n)
  <2> HIDE DEF l, levels
  <2>1. CASE m = None
    <3>1. LogSound([reset_module_loglevels(l, NO_MODULE) EXCEPT !.level = level], s, mods, Active, Append(levels, e), t, n)
      <4> HIDE DEF t, n
      <4>2. QED
        BY <2>1, <1>2, <1>3, <1>5, <1>8, <1>9, <1>11, LevelOfAll
    <3>2. QED
      BY <3>1, <2>1
  <2>2. CASE m # None
    <3>1. LogSound(set_module_loglevel(l, mods[m].index, level), s, mods, Active, Append(levels, e), t, list.length)
      <4>1. m \in Active
        BY <2>2, <1>6
      <4> HIDE DEF t
      <4>2. QED
        BY <4>1, <1>2, <1>3, <1>5, <1>6, <1>8, <1>9, <1>11, LevelOfOne
    <3>2. QED
      BY <3>1, <2>2
  <2>3. QED
    BY <2>1, <2>2
<1>13. new.config = of.config /\ new.dir = of.dir /\ new.log = g
  <2> HIDE DEF g
  <2>1. new = [config |-> of.config, dir |-> of.dir, log |-> g]
    BY <1>8
  <2> HIDE DEF new
  <2>2. QED
    BY <2>1
<1> HIDE DEF new, g
<1>14. Len(servers') = N /\ \A x \in 1..N : servers'[x] = IF x = s THEN new ELSE servers[x]
  <2> DEFINE V == ToSet(servers) \cup {new}
  <2>1. servers \in Seq(V) /\ new \in V
    BY <1>2
  <2> HIDE DEF V
  <2>2. QED
    BY <2>1, <1>2, <1>10 DEF N
<1> HIDE DEF n, t, made, levels, l
<1>15. ASSUME NEW x \in 1..N, x # s PROVE LogSound(servers[x].log, x, mods, Active, more, t, n)
  <2>1. LogSound(servers[x].log, x, mods, Active, levels, t, n)
    BY <1>3
  <2>2. e.server # x
    BY <1>9, <1>15
  <2>3. \A k : Said(more, x, k, Default(x)) = Said(levels, x, k, Default(x))
    BY <2>2, <1>3, <1>9, SaidAppend
  <2> HIDE DEF more
  <2>4. QED
    BY <2>1, <2>3 DEF LogSound
<1> HIDE DEF more
<1>16. ASSUME NEW x \in 1..N
       PROVE  /\ Filled(servers'[x], x, mods, Active, made, t, n)
              /\ LogSound(servers'[x].log, x, mods, Active, more, t, n)
  <2>1. Filled(servers[x], x, mods, Active, made, t, n)
    BY <1>3
  <2>2. CASE x = s
    <3>1. servers'[x] = new /\ new.config = servers[x].config /\ new.dir = servers[x].dir
      BY <2>2, <1>13, <1>14 DEF of
    <3>2. Filled(new, x, mods, Active, made, t, n)
      BY <3>1, <2>1 DEF Filled
    <3>3. QED
      BY <3>1, <3>2, <2>2, <1>12, <1>13
  <2>3. CASE x # s
    BY <2>1, <2>3, <1>14, <1>15
  <2>4. QED
    BY <2>2, <2>3
<1>17. ReadSound'
  BY <1>1, <1>4, <1>7, <1>14, <1>16 DEF ReadSound, n, t, made
<1>18. QED
  BY <1>1, <1>17 DEF MInv, ConfigsMerged

----------------------------------------------------------------------------
(* The virtual hosts are fixed up. *)

\* A virtual host has of each module what it made for it, over what the main server has.
LEMMA VectorsMerged ==
  ASSUME IInv, MInv, phase = "config", NEW s \in 2..Len(servers), NEW m \in Active
  PROVE  LET i == mods[m].index IN
         /\ merge_server_configs(servers[1].config, servers[s].config)[i] = Merged(s, m, PerServer, MergesServer)
         /\ ap_merge_per_dir_configs(servers[1].dir, servers[s].dir)[i] = Merged(s, m, PerDir, MergesDir)
<1> DEFINE A == Prelinked \o Loaded
           n == list.length
           i == mods[m].index
           made == past.said.made
           base == servers[1].config
           virt == servers[s].config
           old == servers[1].dir
           new == servers[s].dir
<1>1. /\ A \in Seq(Modules) /\ Active = {A[j] : j \in 1..Len(A)} /\ Chained(mods, list.top) = Reverse(A)
      /\ \A k \in Active : mods[k].index \in 0..list.total - 1 /\ cache.mergers[mods[k].index] = k
      /\ \A j, k \in 1..Len(A) : mods[A[j]].index = mods[A[k]].index => j = k
  BY ActiveIs
<1>2. n \in Nat /\ list.total \in Nat /\ list.total <= n
  BY RegistryFacts
<1>3. Len(servers) \in Nat \ {0} /\ s \in 1..Len(servers) /\ 1 \in 1..Len(servers) /\ s # 1
  BY ServerFacts
<1>4. /\ base[i] = Own(PerServer, made, 1, m) /\ old[i] = Own(PerDir, made, 1, m)
      /\ virt[i] = Own(PerServer, made, s, m) /\ new[i] = Own(PerDir, made, s, m)
  BY <1>3, ReadFacts DEF Filled
<1>5. ServerSound(servers[s], n)
  BY <1>3, ServerFacts
<1>6. PICK k \in Nat : k >= n /\ Vector(virt, k)
  BY <1>5 DEF ServerSound
<1>7. i \in 0..list.total - 1 /\ cache.mergers[i] = m
  BY <1>1
<1> HIDE DEF A, base, virt, old, new, i
<1>8. PICK j \in 1..Len(A) : m = A[j]
  BY <1>1
<1>9. \A x \in 1..Len(A) : mods[A[x]].index \in 0..k - 1
  <2> SUFFICES ASSUME NEW x \in 1..Len(A) PROVE mods[A[x]].index \in 0..k - 1
    OBVIOUS
  <2>1. mods[A[x]].index \in 0..list.total - 1
    BY <1>1
  <2>2. QED
    BY <2>1, <1>2, <1>6
<1>10. merge_server_configs(base, virt)[i] =
         IF virt[i] = <<>> THEN base[i] ELSE IF m \in MergesServer THEN base[i] \o virt[i] ELSE virt[i]
  <2>1. /\ A \in Seq(Modules) /\ Chained(mods, list.top) = Reverse(A) /\ Vector(virt, k)
        /\ \A u, w \in 1..Len(A) : mods[A[u]].index = mods[A[w]].index => u = w
    BY <1>1, <1>6
  <2>2. merge_server_configs(base, virt)[mods[A[j]].index] = Overlaid(base, virt, mods[A[j]].index, A[j])
    BY <2>1, <1>9, MergedIs
  <2>3. QED
    BY <2>2, <1>8 DEF i, Overlaid
<1>11. ap_merge_per_dir_configs(old, new)[i] =
         IF new[i] = <<>> THEN old[i] ELSE IF m \in MergesDir /\ old[i] # <<>> THEN old[i] \o new[i] ELSE new[i]
  <2>1. i \in 0..list.length - 1 /\ ~ (i >= list.total)
    BY <1>2, <1>7
  <2>2. QED
    BY <2>1, <1>7 DEF ap_merge_per_dir_configs
<1>12. \A t : Made(m, t) # <<>>
  BY DEF Made
<1> HIDE DEF made
<1>13. ASSUME NEW makers
       PROVE  /\ Own(makers, made, s, m) = IF m \in makers /\ <<s, m>> \in made THEN Made(m, s) ELSE <<>>
              /\ Own(makers, made, 1, m) = IF m \in makers THEN Made(m, 1) ELSE <<>>
  BY <1>3 DEF Own
<1>14. merge_server_configs(base, virt)[i] = Merged(s, m, PerServer, MergesServer)
  BY <1>4, <1>10, <1>12, <1>13 DEF Merged, made
<1>15. ap_merge_per_dir_configs(old, new)[i] = Merged(s, m, PerDir, MergesDir)
  BY <1>4, <1>11, <1>12, <1>13 DEF Merged, made
<1>16. QED
  BY <1>14, <1>15 DEF base, virt, old, new, i

\* A virtual host logs at the level that was last said of the module in it, or in the main server.
LEMMA LevelsMerged ==
  ASSUME IInv, MInv, phase = "config", NEW s \in 1..Len(servers), NEW m \in Active
  PROVE  LET l == IF s = 1 THEN servers[1].log ELSE ap_merge_log_config(servers[1].log, servers[s].log) IN
         LevelAt(l, mods[m].index) = Levelled(s, m)
<1> DEFINE n == list.length
           t == list.total
           i == mods[m].index
           levels == past.said.levels
           old == servers[1].log
           new == servers[s].log
           g == ap_merge_log_config(old, new)
           T == [server : 1..Len(servers), of : Active \cup {None}, level : {1, 7}]
<1>1. /\ \A k \in Active : mods[k].index \in 0..t - 1
      /\ n \in Nat /\ t \in Nat /\ t <= n
  BY ActiveIs, RegistryFacts
<1>2. i \in 0..n - 1
  <2>1. i \in 0..t - 1
    BY <1>1
  <2>2. QED
    BY <2>1, <1>1
<1>3. 1 \in 1..Len(servers)
  BY ServerFacts
<1>4. /\ levels \in Seq(T)
      /\ LogSound(old, 1, mods, Active, levels, t, n) /\ LogSound(new, s, mods, Active, levels, t, n)
  BY <1>3, ReadFacts
<1>5. LevelAt(old, i) = Said(levels, 1, m, DEFAULT_LOGLEVEL)
  BY <1>4 DEF LogSound, Default
<1>6. CASE s = 1
  <2>1. \A d : Said(levels, 1, m, Said(levels, 1, m, d)) = Said(levels, 1, m, d)
    BY DEF Said
  <2>2. Levelled(s, m) = Said(levels, 1, m, DEFAULT_LOGLEVEL)
    BY <1>6, <2>1 DEF Levelled
  <2>3. QED
    BY <1>5, <1>6, <2>2
<1>7. CASE s # 1
  <2>1. /\ new.level = Said(levels, s, None, UNSET) /\ LevelAt(new, i) = Said(levels, s, m, UNSET)
        /\ new.modules # <<>> => /\ new.modules[i] \in {UNSET, NO_MODULE, 1, 7}
                                 /\ new.level = UNSET => new.modules[i] # NO_MODULE
    BY <1>2, <1>4, <1>7 DEF LogSound, Default
  <2> DEFINE d == Said(levels, 1, m, DEFAULT_LOGLEVEL)
  <2>2. /\ Said(levels, s, m, UNSET) = UNSET => Said(levels, s, m, d) = d
        /\ Said(levels, s, m, UNSET) # UNSET => Said(levels, s, m, d) = Said(levels, s, m, UNSET)
        /\ Said(levels, s, None, UNSET) # UNSET => Said(levels, s, m, UNSET) # UNSET
    BY <1>4, SaidLevels
  <2>3. Levelled(s, m) = Said(levels, s, m, d)
    BY DEF Levelled
  <2> DEFINE v == [k \in 0..n - 1 |-> IF new.modules[k] = UNSET THEN old.modules[k] ELSE new.modules[k]]
             chosen == IF new.modules = <<>> THEN old.modules ELSE IF old.modules = <<>> THEN new.modules ELSE v
  <2>4. new.level # UNSET => g = new
    BY DEF ap_merge_log_config
  <2>5. new.level = UNSET => g = [level |-> old.level, modules |-> chosen]
    BY DEF ap_merge_log_config
  <2>6. v[i] = IF new.modules[i] = UNSET THEN old.modules[i] ELSE new.modules[i]
    BY <1>2
  <2>7. v # <<>>
    <3>1. DOMAIN v # {} /\ DOMAIN <<>> = {}
      BY <1>2
    <3>2. QED
      BY <3>1
  <2> HIDE DEF d, v, g, old, new, levels, n, t, i
  <2>8. CASE new.level # UNSET
    BY <2>1, <2>2, <2>3, <2>4, <2>8, <1>7 DEF g, old, new, i
  <2>9. CASE new.level = UNSET
    <3>1. g.level = old.level /\ g.modules = chosen
      BY <2>5, <2>9
    <3> HIDE DEF chosen
    <3>2. CASE new.modules # <<>> /\ new.modules[i] # UNSET
      <4>1. new.modules[i] \in {1, 7}
        BY <2>1, <2>9, <3>2
      <4>2. Said(levels, s, m, UNSET) = new.modules[i] /\ new.modules[i] # UNSET
        BY <2>1, <4>1 , <3>2 DEF LevelAt, UNSET
      <4>3. Levelled(s, m) = new.modules[i]
        BY <4>2, <2>2, <2>3
      <4>4. g.modules # <<>> /\ g.modules[i] = new.modules[i]
        BY <3>1, <3>2, <2>6, <2>7 DEF chosen
      <4>5. LevelAt(g, i) = new.modules[i]
        BY <4>1, <4>4 DEF LevelAt
      <4>6. QED
        BY <4>3, <4>5, <1>7 DEF g, old, new, i
    <3>3. CASE new.modules = <<>> \/ new.modules[i] = UNSET
      <4>1. Said(levels, s, m, UNSET) = UNSET
        BY <2>1, <2>9, <3>3 DEF LevelAt, UNSET
      <4>2. Levelled(s, m) = d
        BY <4>1, <2>2, <2>3
      <4>3. LevelAt(g, i) = LevelAt(old, i)
        <5>1. CASE new.modules = <<>>
          BY <5>1, <3>1 DEF chosen, LevelAt
        <5>2. CASE new.modules # <<>> /\ old.modules = <<>>
          <6>1. g.modules[i] = UNSET /\ UNSET < 0
            BY <5>2, <3>1, <3>3 DEF chosen, UNSET
          <6>2. QED
            BY <6>1, <5>2, <3>1 DEF LevelAt
        <5>3. CASE new.modules # <<>> /\ old.modules # <<>>
          <6>1. g.modules # <<>> /\ g.modules[i] = old.modules[i]
            BY <5>3, <3>1, <3>3, <2>6, <2>7 DEF chosen
          <6>2. QED
            BY <6>1, <5>3, <3>1 DEF LevelAt
        <5>4. QED
          BY <5>1, <5>2, <5>3
      <4>4. QED
        BY <4>2, <4>3, <1>5, <1>7 DEF g, old, new, i, d
    <3>4. QED
      BY <3>2, <3>3
  <2>10. QED
    BY <2>8, <2>9
<1>8. QED
  BY <1>6, <1>7

LEMMA FixupRead == ASSUME IInv, MInv, ap_fixup_virtual_hosts PROVE MInv'
<1> DEFINE host(s) == [config |-> merge_server_configs(servers[1].config, servers[s].config),
                       dir    |-> ap_merge_per_dir_configs(servers[1].dir, servers[s].dir),
                       log    |-> ap_merge_log_config(servers[1].log, servers[s].log)]
<1>1. /\ phase = "config" /\ phase' = "serve" /\ mods' = mods /\ list' = list /\ past' = past
      /\ servers' = [s \in DOMAIN servers |-> IF s = 1 THEN servers[1] ELSE host(s)]
  BY DEF ap_fixup_virtual_hosts
<1>2. Len(servers) \in Nat \ {0} /\ DOMAIN servers = 1..Len(servers)
  BY <1>1, ServerFacts
<1> HIDE DEF host
<1>3. DOMAIN servers' = 1..Len(servers) /\ \A s \in 1..Len(servers) : servers'[s] = IF s = 1 THEN servers[1] ELSE host(s)
  BY <1>1, <1>2
<1>4. Active' = Active
  BY <1>1 DEF Active
<1>5. \A s, m : Levelled(s, m)' = Levelled(s, m)
  BY <1>1 DEF Levelled
<1>6. /\ \A s, m : Merged(s, m, PerServer, MergesServer)' = Merged(s, m, PerServer, MergesServer)
      /\ \A s, m : Merged(s, m, PerDir, MergesDir)' = Merged(s, m, PerDir, MergesDir)
  BY <1>1 DEF Merged
<1>7. \A s \in 1..Len(servers), m \in Active : Effective(servers[s].log, m)' = LevelAt(servers'[s].log, mods[m].index)
  BY <1>1 DEF Effective, LevelAt
<1>8. ASSUME NEW s \in 1..Len(servers), NEW m \in Active
      PROVE  LevelAt(servers'[s].log, mods[m].index) = Levelled(s, m)
  <2>1. servers'[s].log = IF s = 1 THEN servers[1].log ELSE ap_merge_log_config(servers[1].log, servers[s].log)
    BY <1>3 DEF host
  <2>2. QED
    BY <2>1, <1>1, LevelsMerged
<1>9. ASSUME NEW s \in 1..Len(servers), NEW m \in Active, s > 1
      PROVE  /\ servers'[s].config[mods[m].index] = Merged(s, m, PerServer, MergesServer)
             /\ servers'[s].dir[mods[m].index] = Merged(s, m, PerDir, MergesDir)
  <2>1. s \in 2..Len(servers) /\ s # 1
    BY <1>2, <1>9
  <2>2. /\ servers'[s].config = merge_server_configs(servers[1].config, servers[s].config)
        /\ servers'[s].dir = ap_merge_per_dir_configs(servers[1].dir, servers[s].dir)
    BY <1>3, <2>1 DEF host
  <2>3. QED
    BY <2>1, <2>2, <1>1, VectorsMerged
<1>10. ConfigsMerged'
  BY <1>1, <1>3, <1>4, <1>5, <1>6, <1>7, <1>8, <1>9 DEF ConfigsMerged
<1>11. QED
  BY <1>1, <1>10 DEF MInv

LEMMA StutterRead == ASSUME MInv, UNCHANGED modulesVars PROVE MInv'
<1>1. /\ mods' = mods /\ list' = list /\ cache' = cache /\ servers' = servers /\ phase' = phase /\ past' = past
  BY DEF modulesVars
<1>2. Active' = Active
  BY <1>1 DEF Active
<1>3. ReadSound' <=> ReadSound
  BY <1>1, <1>2 DEF ReadSound
<1>4. /\ \A l, m : Effective(l, m)' = Effective(l, m)
      /\ \A s, m : Levelled(s, m)' = Levelled(s, m)
      /\ \A s, m : Merged(s, m, PerServer, MergesServer)' = Merged(s, m, PerServer, MergesServer)
      /\ \A s, m : Merged(s, m, PerDir, MergesDir)' = Merged(s, m, PerDir, MergesDir)
  BY <1>1 DEF Effective, Levelled, Merged
<1>5. ConfigsMerged' <=> ConfigsMerged
  BY <1>1, <1>2, <1>4 DEF ConfigsMerged
<1>6. QED
  BY <1>1, <1>3, <1>5 DEF MInv

LEMMA NextRead == IInv /\ MInv /\ [ModulesNext]_modulesVars => MInv'
<1> SUFFICES ASSUME IInv, MInv, [ModulesNext]_modulesVars PROVE MInv'
  OBVIOUS
<1>1. CASE \E m \in Modules : Load(m)
  BY <1>1, LoadRead
<1>2. CASE ap_reserve_module_slots
  BY <1>2, ReserveRead
<1>3. CASE conf_vector_length_pre_config
  BY <1>3, TrimRead
<1>4. CASE ap_init_virtual_host
  BY <1>4, HostRead
<1>5. CASE \E s \in DOMAIN servers, m \in Modules : ap_set_config_vectors(s, m)
  BY <1>5, VectorsRead
<1>6. CASE \E s \in DOMAIN servers, m \in Modules \cup {None}, level \in {1, 7} : SetLevel(s, m, level)
  BY <1>6, LevelRead
<1>7. CASE ap_fixup_virtual_hosts
  BY <1>7, FixupRead
<1>8. CASE Restart
  BY <1>8, RestartRead
<1>9. CASE UNCHANGED modulesVars
  BY <1>9, StutterRead
<1>10. QED
  BY <1>1, <1>2, <1>3, <1>4, <1>5, <1>6, <1>7, <1>8, <1>9 DEF ModulesNext

\* Whatever modules are loaded, in whatever order directives of virtual hosts and levels of logging
\* are said: once the virtual hosts are fixed up each server has of each module what it made for it,
\* merged over what it made for the main server, and logs at the level that was last said, of all of
\* the server or of the module in it, else of the main server (285-344, 2235-2302).
THEOREM ConfigsHeld == ModulesSpec => []ConfigsMerged
<1>1. ModulesInit => IInv /\ MInv
  BY InitSound, InitRead
<1>2. IInv /\ MInv /\ [ModulesNext]_modulesVars => (IInv /\ MInv)'
  BY NextKept, NextRead
<1>3. IInv /\ MInv => ConfigsMerged
  BY DEF MInv
<1>4. QED
  BY <1>1, <1>2, <1>3, PTL DEF ModulesSpec
=============================================================================
