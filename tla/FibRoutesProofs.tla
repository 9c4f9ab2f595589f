--------------------------- MODULE FibRoutesProofs ---------------------------
(***************************************************************************)
(* Proofs about FibRoutes: over any history of inserted, replaced, refused,*)
(* deleted and flushed routes, of devices that go down and come up and of  *)
(* packets that choose among nexthops, the alias list, the records its     *)
(* aliases share and what the nexthops have left of their weights agree.   *)
(***************************************************************************)
EXTENDS FibRoutes, FiniteSetTheorems, SequenceTheorems, WellFoundedInduction, TLAPS

Content  == [prio : Nat, local : BOOLEAN, hops : Seq([dev : Devices, gw : Nat, weight : Nat \ {0}])]
Hop      == [dev : Devices, gw : Nat, weight : Nat \ {0}, dead : BOOLEAN, power : Nat, chosen : Nat, share : Nat]
InfoType == [prio : Nat, local : BOOLEAN, dead : BOOLEAN, power : Int, ref : Nat, hops : Seq(Hop)]
Alias    == [tos : Nat, id : Nat]
SyncType == [dev : Devices, force : 0..2, hop : Nat \X Nat, left : SUBSET Nat]

----------------------------------------------------------------------------
(* Numbers and totals. *)

\* A set of numbers has a least element.
LEMMA LeastOf ==
  ASSUME NEW S, S \subseteq Nat, S # {}
  PROVE  Min(S) \in S /\ \A j \in S : Min(S) <= j
<1>1. PICK x \in S : \A y \in S : ~ (<<y, x>> \in OpToRel(<, Nat))
  BY NatLessThanWellFounded, WFMin
<1>2. \A y \in S : x <= y
  <2> SUFFICES ASSUME NEW y \in S PROVE x <= y
    OBVIOUS
  <2>1. x \in Nat /\ y \in Nat
    OBVIOUS
  <2>2. ~ (<<y, x>> \in {ss \in Nat \X Nat : ss[1] < ss[2]})
    BY <1>1 DEF OpToRel
  <2>3. ~ (y < x)
    BY <2>1, <2>2
  <2>4. QED
    BY <2>1, <2>3
<1>3. QED
  BY <1>2 DEF Min

\* A set that holds 0 and with each number the next one holds all up to n.
LEMMA AllUpTo ==
  ASSUME NEW n \in Nat, NEW S, 0 \in S, \A i \in 1..n : i - 1 \in S => i \in S
  PROVE  0..n \subseteq S
<1> DEFINE Out == 0..n \ S
<1> SUFFICES ASSUME Out # {} PROVE FALSE
  OBVIOUS
<1>1. Out \subseteq Nat
  OBVIOUS
<1>2. Min(Out) \in Out /\ \A j \in Out : Min(Out) <= j
  BY <1>1, LeastOf
<1>3. Min(Out) \in 1..n
  BY <1>2
<1>4. Min(Out) - 1 \in S
  BY <1>2, <1>3
<1>5. QED
  BY <1>2, <1>3, <1>4

\* The sums s[i] of the first i elements of f.
SumsOf(f, s) == s \in [0..Len(f) -> Int] /\ s[0] = 0 /\ \A i \in 1..Len(f) : s[i] = s[i - 1] + f[i]

LEMMA SumsThere ==
  ASSUME NEW f \in Seq(Int)
  PROVE  \E s : SumsOf(f, s)
<1> DEFINE n == Len(f)
           Parts(k) == {s \in [0..k -> Int] : s[0] = 0 /\ \A i \in 1..k : s[i] = s[i - 1] + f[i]}
           Ok == {k \in 0..n : Parts(k) # {}}
<1>1. n \in Nat /\ \A i \in 1..n : f[i] \in Int
  OBVIOUS
<1>2. 0 \in Ok
  <2>1. [i \in 0..0 |-> 0] \in Parts(0)
    OBVIOUS
  <2>2. QED
    BY <2>1, <1>1
<1>3. ASSUME NEW k \in 1..n, k - 1 \in Ok PROVE k \in Ok
  <2>1. PICK s \in [0..k - 1 -> Int] : s[0] = 0 /\ \A i \in 1..k - 1 : s[i] = s[i - 1] + f[i]
    BY <1>3
  <2> DEFINE t == [i \in 0..k |-> IF i = k THEN s[k - 1] + f[k] ELSE s[i]]
  <2>2. s[k - 1] \in Int /\ f[k] \in Int
    BY <1>1
  <2>3. t \in [0..k -> Int]
    BY <2>2
  <2>4. t[0] = 0
    BY <2>1
  <2>5. ASSUME NEW i \in 1..k PROVE t[i] = t[i - 1] + f[i]
    <3>1. CASE i = k
      BY <3>1
    <3>2. CASE i # k
      BY <3>2, <2>1
    <3>3. QED
      BY <3>1, <3>2
  <2>6. t \in Parts(k)
    BY <2>3, <2>4, <2>5
  <2> HIDE DEF t, Parts
  <2>7. QED
    BY <2>6
<1>4. n \in Ok
  <2> HIDE DEF Ok, n
  <2>1. 0..n \subseteq Ok
    BY <1>1, <1>2, <1>3, AllUpTo
  <2>2. QED
    BY <1>1, <2>1
<1>5. PICK s \in Parts(n) : TRUE
  BY <1>4
<1>6. SumsOf(f, s)
  BY DEF SumsOf
<1>7. QED
  BY <1>6

\* Total is the last of them.
LEMMA TotalIs ==
  ASSUME NEW f \in Seq(Int), NEW s, SumsOf(f, s)
  PROVE  Total(f) = s[Len(f)] /\ Total(f) \in Int
<1> DEFINE n == Len(f)
           Eq(t) == t = [i \in 0..n |-> IF i = 0 THEN 0 ELSE t[i - 1] + f[i]]
           sum == CHOOSE t : Eq(t)
<1>1. n \in Nat /\ \A i \in 1..n : f[i] \in Int
  OBVIOUS
<1>2. Eq(s)
  BY <1>1 DEF SumsOf
<1>3. Eq(sum)
  <2> HIDE DEF Eq
  <2>1. QED
    BY <1>2
<1>4. Total(f) = sum[n]
  BY DEF Total
<1> HIDE DEF sum
<1> DEFINE Same == {i \in 0..n : sum[i] = s[i]}
<1>5. 0 \in Same
  BY <1>1, <1>2, <1>3
<1>6. \A i \in 1..n : i - 1 \in Same => i \in Same
  BY <1>1, <1>2, <1>3
<1>7. n \in Same
  <2> HIDE DEF Same, n
  <2>1. 0..n \subseteq Same
    BY <1>1, <1>5, <1>6, AllUpTo
  <2>2. QED
    BY <1>1, <2>1
<1>8. QED
  BY <1>1, <1>4, <1>7 DEF SumsOf

\* A change of one element changes the total by as much.
LEMMA TotalChanges ==
  ASSUME NEW f \in Seq(Int), NEW g \in Seq(Int), Len(f) = Len(g), NEW k \in 1..Len(f),
         \A i \in 1..Len(f) : i # k => f[i] = g[i]
  PROVE  Total(g) = Total(f) + g[k] - f[k]
<1>1. PICK s : SumsOf(f, s)
  BY SumsThere
<1>2. PICK t : SumsOf(g, t)
  BY SumsThere
<1>3. Total(f) = s[Len(f)] /\ Total(g) = t[Len(f)]
  BY <1>1, <1>2, TotalIs
<1> DEFINE n == Len(f)
           Off == {i \in 0..n : t[i] - s[i] = IF i < k THEN 0 ELSE g[k] - f[k]}
<1>4. n \in Nat /\ \A i \in 1..n : f[i] \in Int /\ g[i] \in Int
  OBVIOUS
<1>5. 0 \in Off
  BY <1>1, <1>2, <1>4 DEF SumsOf
<1>6. ASSUME NEW i \in 1..n, i - 1 \in Off PROVE i \in Off
  <2>1. s[i] = s[i - 1] + f[i] /\ t[i] = t[i - 1] + g[i]
    BY <1>1, <1>2 DEF SumsOf
  <2>2. i \in 0..n /\ i - 1 \in 0..n /\ i \in Int /\ k \in Int
    BY <1>4
  <2>3. s[i] \in Int /\ s[i - 1] \in Int /\ t[i] \in Int /\ t[i - 1] \in Int
    BY <1>1, <1>2, <2>2 DEF SumsOf
  <2>4. f[i] \in Int /\ g[i] \in Int /\ f[k] \in Int /\ g[k] \in Int
    BY <1>4
  <2>5. t[i - 1] - s[i - 1] = IF i - 1 < k THEN 0 ELSE g[k] - f[k]
    BY <1>6
  <2>6. PICK a \in Int, b \in Int : a = s[i - 1] /\ b = t[i - 1]
    BY <2>3
  <2>7. PICK x \in Int, y \in Int : x = f[i] /\ y = g[i]
    BY <2>4
  <2>8. s[i] = a + x /\ t[i] = b + y
    BY <2>1, <2>6, <2>7
  <2>9. t[i] - s[i] = (b - a) + (y - x)
    BY <2>8
  <2>10. b - a = IF i - 1 < k THEN 0 ELSE g[k] - f[k]
    BY <2>5, <2>6
  <2>11. CASE i = k
    <3>1. b - a = 0 /\ y - x = g[k] - f[k]
      BY <2>10, <2>11, <2>2, <2>7
    <3>2. t[i] - s[i] = g[k] - f[k]
      BY <3>1, <2>9
    <3>3. QED
      BY <3>2, <2>2, <2>11
  <2>12. CASE i # k
    <3>1. x = y
      BY <2>7, <2>12
    <3>2. t[i] - s[i] = b - a
      BY <3>1, <2>9
    <3>3. (i < k) = (i - 1 < k)
      BY <2>12, <2>2
    <3>4. QED
      BY <3>2, <3>3, <2>10, <2>2
  <2>13. QED
    BY <2>11, <2>12
<1>7. n \in Off
  <2> HIDE DEF Off, n
  <2>1. 0..n \subseteq Off
    BY <1>4, <1>5, <1>6, AllUpTo
  <2>2. QED
    BY <1>4, <2>1
<1>8. s[n] \in Int /\ t[n] \in Int
  BY <1>1, <1>2, <1>4 DEF SumsOf
<1>9. QED
  BY <1>3, <1>4, <1>7, <1>8

\* A total of natural numbers is none only if each of them is 0.
LEMMA TotalOfNats ==
  ASSUME NEW f \in Seq(Nat)
  PROVE  Total(f) \in Nat /\ (\A k \in 1..Len(f) : f[k] <= Total(f))
<1> DEFINE n == Len(f)
<1>1. n \in Nat /\ (\A i \in 1..n : f[i] \in Nat) /\ f \in Seq(Int)
  <2>1. f \in Seq(Int)
    BY SeqMonotonic
  <2>2. QED
    BY <2>1
<1>2. PICK s : SumsOf(f, s)
  BY <1>1, SumsThere
<1>3. Total(f) = s[n]
  BY <1>1, <1>2, TotalIs
<1> DEFINE Above == {i \in 0..n : s[i] >= 0 /\ \A k \in 1..i : f[k] <= s[i]}
<1>4. 0 \in Above
  BY <1>1, <1>2 DEF SumsOf
<1>5. ASSUME NEW i \in 1..n, i - 1 \in Above PROVE i \in Above
  <2>1. s[i] = s[i - 1] + f[i] /\ s[i] \in Int /\ s[i - 1] \in Int /\ f[i] \in Nat
    BY <1>1, <1>2 DEF SumsOf
  <2>2. \A k \in 1..i : k = i \/ k \in 1..i - 1
    OBVIOUS
  <2>3. \A k \in 1..i : f[k] \in Nat
    BY <1>1
  <2>4. QED
    BY <2>1, <2>2, <2>3, <1>5, SMTT(30)
<1>6. n \in Above
  <2> HIDE DEF Above, n
  <2>1. 0..n \subseteq Above
    BY <1>1, <1>4, <1>5, AllUpTo
  <2>2. QED
    BY <1>1, <2>1
<1>7. s[n] \in Int
  BY <1>1, <1>2 DEF SumsOf
<1>8. QED
  BY <1>3, <1>6, <1>7

\* A total of zeros is 0.
LEMMA TotalOfZeros ==
  ASSUME NEW f \in Seq(Int), \A k \in 1..Len(f) : f[k] = 0
  PROVE  Total(f) = 0
<1> DEFINE s == [i \in 0..Len(f) |-> 0]
<1>1. SumsOf(f, s)
  BY DEF SumsOf
<1>2. QED
  BY <1>1, TotalIs

----------------------------------------------------------------------------
(* The invariant. *)

Table(t) == IsFiniteSet(DOMAIN t) /\ DOMAIN t \subseteq Nat /\ t \in [DOMAIN t -> InfoType]

\* The places of list l that use the fib_info id.
Uses(l, id) == {i \in DOMAIN l : l[i].id = id}

\* The aliases of l hold the fib_infos of t, and those in X are held once more.
Held(l, t, X) ==
  /\ \A i \in DOMAIN l : l[i].id \in DOMAIN t
  /\ \A id \in DOMAIN t :
       t[id].ref = Cardinality(Uses(l, id)) + (IF id \in X THEN 1 ELSE 0) /\ t[id].ref > 0
  /\ \A id, id2 \in DOMAIN t : ContentOf(t[id]) = ContentOf(t[id2]) => id = id2

SortedBy(l, t) ==
  \A i, j \in DOMAIN l : i < j =>
    /\ l[i] # l[j]
    /\ l[i].tos >= l[j].tos
    /\ l[i].tos = l[j].tos => t[l[i].id].prio <= t[l[j].id].prio

\* The list, the table and its count, with one more reference to the fib_infos in X.
Listed(l, t, n, X) ==
  /\ l \in Seq(Alias) /\ Table(t)
  /\ Held(l, t, X) /\ SortedBy(l, t) /\ n = Cardinality(DOMAIN t)

Fair(fi) ==
  /\ fi.power = PowerOf(fi, DOMAIN fi.hops)
  /\ \A i \in DOMAIN fi.hops : fi.hops[i].chosen + fi.hops[i].power = fi.hops[i].share
DeadDown(fi) == \A i \in DOMAIN fi.hops : fi.hops[i].dead => state[fi.hops[i].dev] # "up"
\* No hop is live on a device, other than dev, that is down.
NoneDown(fi, dev) ==
  fi.local \/ \A i \in DOMAIN fi.hops :
    fi.hops[i].dev # dev /\ state[fi.hops[i].dev] = "down" => fi.hops[i].dead

\* A fib_info when no device is being taken down.
Settled(fi) ==
  /\ ~fi.dead
  /\ \A i \in DOMAIN fi.hops : fi.hops[i].dead => fi.hops[i].power = 0
  /\ fi.local \/ \A i \in DOMAIN fi.hops : state[fi.hops[i].dev] = "down" => fi.hops[i].dead

SyncSound ==
  IF sync = Done THEN \A id \in DOMAIN infos : Settled(infos[id])
  ELSE /\ state[sync.dev] # "up" /\ sync.left \subseteq DOMAIN infos
       /\ sync.hop = <<0, 0>> \/ (sync.hop[1] \in sync.left /\ sync.hop[2] \in DOMAIN infos[sync.hop[1]].hops)
       /\ \A id \in DOMAIN infos :
            /\ NoneDown(infos[id], sync.dev)
            /\ \A i \in DOMAIN infos[id].hops :
                 infos[id].hops[i].dead /\ sync.hop # <<id, i>> => infos[id].hops[i].power = 0
            /\ \/ id \in sync.left \/ infos[id].dead \/ infos[id].local
               \/ \A i \in HopsOn(infos[id], sync.dev) : infos[id].hops[i].dead

IInv ==
  /\ state \in [Devices -> {"up", "down", "bare"}] /\ (sync = Done \/ sync \in SyncType)
  /\ Listed(aliases, infos, cnt, {})
  /\ \A id \in DOMAIN infos : Fair(infos[id]) /\ DeadDown(infos[id])
  /\ SyncSound

----------------------------------------------------------------------------
(* Lists. *)

\* m has the elements of l at the places K, in their order: f[i] is the place of m[i].
Keeps(l, m, f, K) ==
  /\ K \subseteq 1..Len(l) /\ f \in [1..Len(m) -> K]
  /\ \A i, j \in 1..Len(m) : i < j => f[i] < f[j]
  /\ \A k \in K : \E i \in 1..Len(m) : f[i] = k
  /\ \A i \in 1..Len(m) : m[i] = l[f[i]]

LEMMA ElementOf ==
  ASSUME NEW S, NEW s \in Seq(S), NEW i \in DOMAIN s
  PROVE  s[i] \in S
OBVIOUS

LEMMA AliasOf ==
  ASSUME NEW l \in Seq(Alias), NEW i \in DOMAIN l
  PROVE  l[i] \in Alias /\ l[i].tos \in Nat /\ l[i].id \in Nat
<1>1. l[i] \in Alias
  BY ElementOf, Zenon
<1>2. \A a \in Alias : a.tos \in Nat /\ a.id \in Nat
  BY DEF Alias
<1>3. QED
  BY <1>1, <1>2, Zenon

LEMMA UsesFinite ==
  ASSUME NEW l \in Seq(Alias), NEW id
  PROVE  IsFiniteSet(Uses(l, id)) /\ Cardinality(Uses(l, id)) \in Nat
<1>1. IsFiniteSet(1..Len(l)) /\ Uses(l, id) \subseteq 1..Len(l)
  BY FS_Interval DEF Uses
<1>2. IsFiniteSet(Uses(l, id))
  BY <1>1, FS_Subset
<1>3. QED
  BY <1>2, FS_CardinalityType

LEMMA KeepsUses ==
  ASSUME NEW l \in Seq(Alias), NEW m \in Seq(Alias), NEW f, NEW K, Keeps(l, m, f, K), NEW id
  PROVE  Cardinality(Uses(m, id)) = Cardinality(Uses(l, id) \cap K)
<1> DEFINE S == Uses(m, id)
           T == Uses(l, id) \cap K
           g == [i \in S |-> f[i]]
<1>1. /\ S \subseteq 1..Len(m) /\ DOMAIN m = 1..Len(m) /\ DOMAIN l = 1..Len(l)
      /\ Len(m) \in Nat /\ Len(l) \in Nat
  BY DEF Uses
<1>2. \A i \in S : f[i] \in T
  <2> SUFFICES ASSUME NEW i \in S PROVE f[i] \in T
    OBVIOUS
  <2>1. i \in 1..Len(m) /\ m[i].id = id
    BY <1>1 DEF Uses
  <2>2. f[i] \in K /\ f[i] \in DOMAIN l /\ l[f[i]] = m[i]
    BY <2>1, <1>1 DEF Keeps
  <2>3. QED
    BY <2>1, <2>2 DEF Uses
<1>3. \A i, j \in S : f[i] = f[j] => i = j
  <2> SUFFICES ASSUME NEW i \in S, NEW j \in S, f[i] = f[j] PROVE i = j
    OBVIOUS
  <2>1. i \in 1..Len(m) /\ j \in 1..Len(m) /\ f[i] \in Int /\ f[j] \in Int
    <3>1. i \in 1..Len(m) /\ j \in 1..Len(m)
      BY <1>1
    <3>2. f[i] \in 1..Len(l) /\ f[j] \in 1..Len(l)
      BY <3>1 DEF Keeps
    <3>3. QED
      BY <3>1, <3>2
  <2>2. ~ (i < j) /\ ~ (j < i)
    BY <2>1 DEF Keeps
  <2>3. QED
    BY <2>1, <2>2
<1>4. \A k \in T : \E i \in S : f[i] = k
  BY <1>1 DEF Keeps, Uses
<1>5. g \in Bijection(S, T)
  <2> HIDE DEF S, T
  <2>1. g \in [S -> T] /\ \A i \in S : g[i] = f[i]
    BY <1>2
  <2> HIDE DEF g
  <2>2. g \in Injection(S, T)
    BY <2>1, <1>3 DEF Injection, IsInjective
  <2>3. g \in Surjection(S, T)
    BY <2>1, <1>4 DEF Surjection
  <2>4. QED
    BY <2>2, <2>3 DEF Bijection
<1>6. ExistsBijection(S, T)
  BY <1>5 DEF ExistsBijection
<1>7. IsFiniteSet(S)
  BY UsesFinite
<1>8. QED
  BY <1>6, <1>7, FS_Bijection

LEMMA KeepsSorted ==
  ASSUME NEW l \in Seq(Alias), NEW m \in Seq(Alias), NEW f, NEW K, Keeps(l, m, f, K),
         NEW t, NEW u, SortedBy(l, t), \A i \in DOMAIN m : u[m[i].id].prio = t[m[i].id].prio
  PROVE  SortedBy(m, u)
<1> SUFFICES ASSUME NEW i \in DOMAIN m, NEW j \in DOMAIN m, i < j
             PROVE  /\ m[i] # m[j]
                    /\ m[i].tos >= m[j].tos
                    /\ m[i].tos = m[j].tos => u[m[i].id].prio <= u[m[j].id].prio
  BY DEF SortedBy
<1>1. DOMAIN m = 1..Len(m) /\ DOMAIN l = 1..Len(l)
  OBVIOUS
<1>2. f[i] \in DOMAIN l /\ f[j] \in DOMAIN l /\ f[i] < f[j] /\ m[i] = l[f[i]] /\ m[j] = l[f[j]]
  BY <1>1 DEF Keeps
<1>3. QED
  BY <1>2 DEF SortedBy

\* A list that is whole stays so when the fib_infos keep their priorities.
LEMMA SortedKept ==
  ASSUME NEW l \in Seq(Alias), NEW t, NEW u, SortedBy(l, t),
         \A i \in DOMAIN l : u[l[i].id].prio = t[l[i].id].prio
  PROVE  SortedBy(l, u)
BY DEF SortedBy

\* Two lists one after the other.
LEMMA Joined ==
  ASSUME NEW a \in Seq(Alias), NEW b \in Seq(Alias)
  PROVE  /\ a \o b \in Seq(Alias) /\ Len(a \o b) = Len(a) + Len(b)
         /\ \A i \in 1..Len(a) : (a \o b)[i] = a[i]
         /\ \A i \in Len(a) + 1..Len(a) + Len(b) : (a \o b)[i] = b[i - Len(a)]
OBVIOUS

\* The elements of l from place i to j.
LEMMA Part ==
  ASSUME NEW l \in Seq(Alias), NEW i \in 1..Len(l) + 1, NEW j \in 0..Len(l), i <= j + 1
  PROVE  /\ SubSeq(l, i, j) \in Seq(Alias) /\ Len(SubSeq(l, i, j)) = j - i + 1
         /\ \A k \in 1..j - i + 1 : SubSeq(l, i, j)[k] = l[k + i - 1]
OBVIOUS

\* Insertion leaves the others as they are around the new one.
LEMMA InsertKeeps ==
  ASSUME NEW l \in Seq(Alias), NEW p \in 1..Len(l) + 1, NEW a \in Alias
  PROVE  LET m == InsertAt(l, p, a) IN
         /\ m \in Seq(Alias) /\ Len(m) = Len(l) + 1 /\ m[p] = a
         /\ \A i \in 1..Len(l) : m[IF i < p THEN i ELSE i + 1] = l[i]
         /\ \A i \in 1..p - 1 : m[i] = l[i]
         /\ \A i \in p + 1..Len(l) + 1 : m[i] = l[i - 1]
<1> DEFINE before == SubSeq(l, 1, p - 1)
           after == SubSeq(l, p, Len(l))
           one == <<a>>
           most == before \o one
           m == most \o after
<1>1. Len(l) \in Nat /\ p - 1 \in 0..Len(l) /\ p \in 1..Len(l) + 1 /\ 1 <= (p - 1) + 1 /\ p <= Len(l) + 1
  OBVIOUS
<1>2. /\ before \in Seq(Alias) /\ Len(before) = p - 1
      /\ \A i \in 1..p - 1 : before[i] = l[i]
  BY <1>1, Part
<1>3. /\ after \in Seq(Alias) /\ Len(after) = Len(l) - p + 1
      /\ \A i \in 1..Len(l) - p + 1 : after[i] = l[i + p - 1]
  BY <1>1, Part
<1>4. one \in Seq(Alias) /\ Len(one) = 1 /\ one[1] = a
  OBVIOUS
<1>5. InsertAt(l, p, a) = m
  BY DEF InsertAt
<1> HIDE DEF before, after, one
<1>6. /\ most \in Seq(Alias) /\ Len(most) = p
      /\ \A i \in 1..p - 1 : most[i] = l[i]
      /\ most[p] = a
  <2>1. /\ most \in Seq(Alias) /\ Len(most) = Len(before) + Len(one)
        /\ \A i \in 1..Len(before) : most[i] = before[i]
        /\ \A i \in Len(before) + 1..Len(before) + Len(one) : most[i] = one[i - Len(before)]
    BY <1>2, <1>4, Joined
  <2> HIDE DEF most
  <2>2. Len(most) = p
    BY <2>1, <1>1, <1>2, <1>4
  <2>3. most[p] = a
    <3>1. p \in (p - 1) + 1..(p - 1) + 1 /\ p - (p - 1) = 1
      BY <1>1
    <3>2. QED
      BY <3>1, <2>1, <1>2, <1>4
  <2>4. QED
    BY <2>1, <2>2, <2>3, <1>2
<1> HIDE DEF most
<1>7. /\ m \in Seq(Alias) /\ Len(m) = p + Len(after)
      /\ \A i \in 1..p : m[i] = most[i]
      /\ \A i \in p + 1..p + Len(after) : m[i] = after[i - p]
  BY <1>3, <1>6, Joined
<1> HIDE DEF m
<1>8. Len(m) = Len(l) + 1 /\ m[p] = a /\ \A i \in 1..p - 1 : m[i] = l[i]
  BY <1>1, <1>3, <1>6, <1>7
<1>9. ASSUME NEW i \in p + 1..Len(l) + 1 PROVE m[i] = l[i - 1]
  <2>1. i \in p + 1..p + Len(after) /\ i - p \in 1..Len(l) - p + 1 /\ (i - p) + p - 1 = i - 1
    BY <1>1, <1>3
  <2>2. m[i] = after[i - p] /\ after[i - p] = l[(i - p) + p - 1]
    BY <2>1, <1>3, <1>7
  <2>3. QED
    BY <2>1, <2>2
<1>10. \A i \in 1..Len(l) : m[IF i < p THEN i ELSE i + 1] = l[i]
  BY <1>1, <1>8, <1>9
<1>11. QED
  BY <1>5, <1>7, <1>8, <1>9, <1>10

LEMMA RemoveKeeps ==
  ASSUME NEW l \in Seq(Alias), NEW p \in 1..Len(l)
  PROVE  LET m == RemoveAt(l, p) IN
         m \in Seq(Alias) /\ \E f : Keeps(l, m, f, 1..Len(l) \ {p})
<1> DEFINE before == SubSeq(l, 1, p - 1)
           after == SubSeq(l, p + 1, Len(l))
           m == before \o after
           f == [i \in 1..Len(m) |-> IF i < p THEN i ELSE i + 1]
<1>1. Len(l) \in Nat /\ p - 1 \in 0..Len(l) /\ p + 1 \in 1..Len(l) + 1 /\ 1 <= (p - 1) + 1 /\ p + 1 <= Len(l) + 1
  OBVIOUS
<1>2. RemoveAt(l, p) = m
  BY DEF RemoveAt
<1>3. /\ before \in Seq(Alias) /\ Len(before) = p - 1
      /\ \A i \in 1..p - 1 : before[i] = l[i]
  BY <1>1, Part
<1>4. /\ after \in Seq(Alias) /\ Len(after) = Len(l) - p
      /\ \A i \in 1..Len(l) - p : after[i] = l[i + p]
  <2>1. /\ after \in Seq(Alias) /\ Len(after) = Len(l) - (p + 1) + 1
        /\ \A i \in 1..Len(l) - (p + 1) + 1 : after[i] = l[i + (p + 1) - 1]
    BY <1>1, Part
  <2> HIDE DEF after
  <2>2. QED
    BY <2>1, <1>1
<1> HIDE DEF before, after
<1>5. /\ m \in Seq(Alias) /\ Len(m) = Len(before) + Len(after)
      /\ \A i \in 1..Len(before) : m[i] = before[i]
      /\ \A i \in Len(before) + 1..Len(before) + Len(after) : m[i] = after[i - Len(before)]
  BY <1>3, <1>4, Joined
<1> HIDE DEF m
<1>6. Len(m) = Len(l) - 1
  BY <1>1, <1>3, <1>4, <1>5
<1>7. ASSUME NEW i \in 1..Len(m) PROVE m[i] = l[IF i < p THEN i ELSE i + 1]
  <2>1. CASE i < p
    BY <2>1, <1>1, <1>3, <1>5
  <2>2. CASE i >= p
    <3>1. i \in Len(before) + 1..Len(before) + Len(after) /\ i - (p - 1) \in 1..Len(l) - p /\ i - (p - 1) + p = i + 1
      BY <2>2, <1>1, <1>3, <1>4, <1>6
    <3>2. m[i] = after[i - (p - 1)] /\ after[i - (p - 1)] = l[i - (p - 1) + p]
      BY <3>1, <1>3, <1>4, <1>5
    <3>3. QED
      BY <3>1, <3>2, <2>2, <1>1
  <2>3. QED
    BY <2>1, <2>2, <1>1
<1>8. f \in [1..Len(m) -> 1..Len(l) \ {p}]
  BY <1>1, <1>6
<1>9. \A i, j \in 1..Len(m) : i < j => f[i] < f[j]
  BY <1>1, <1>6
<1>10. ASSUME NEW k \in 1..Len(l) \ {p} PROVE \E i \in 1..Len(m) : f[i] = k
  <2>1. CASE k < p
    BY <2>1, <1>1, <1>6
  <2>2. CASE k > p
    <3>1. k - 1 \in 1..Len(m) /\ f[k - 1] = k
      BY <2>2, <1>1, <1>6
    <3>2. QED
      BY <3>1
  <2>3. QED
    BY <2>1, <2>2
<1>11. Keeps(l, m, f, 1..Len(l) \ {p})
  BY <1>7, <1>8, <1>9, <1>10 DEF Keeps
<1>12. QED
  BY <1>2, <1>5, <1>11

\* How often a fib_info is used once an alias is inserted.
LEMMA InsertUses ==
  ASSUME NEW l \in Seq(Alias), NEW p \in 1..Len(l) + 1, NEW a \in Alias, NEW id
  PROVE  Cardinality(Uses(InsertAt(l, p, a), id)) = Cardinality(Uses(l, id)) + (IF a.id = id THEN 1 ELSE 0)
<1> DEFINE m == InsertAt(l, p, a)
           f == [i \in 1..Len(l) |-> IF i < p THEN i ELSE i + 1]
           K == 1..Len(m) \ {p}
<1>1. /\ m \in Seq(Alias) /\ Len(m) = Len(l) + 1 /\ m[p] = a /\ Len(l) \in Nat
      /\ \A i \in 1..Len(l) : m[IF i < p THEN i ELSE i + 1] = l[i]
  BY InsertKeeps
<1> HIDE DEF m
<1>2. Keeps(m, l, f, K)
  <2>1. f \in [1..Len(l) -> K]
    BY <1>1
  <2>2. \A i, j \in 1..Len(l) : i < j => f[i] < f[j]
    BY <1>1
  <2>3. ASSUME NEW k \in K PROVE \E i \in 1..Len(l) : f[i] = k
    <3>1. CASE k < p
      BY <3>1, <1>1
    <3>2. CASE k > p
      <4>1. k - 1 \in 1..Len(l) /\ f[k - 1] = k
        BY <3>2, <1>1
      <4>2. QED
        BY <4>1
    <3>3. QED
      BY <3>1, <3>2
  <2>4. QED
    BY <1>1, <2>1, <2>2, <2>3 DEF Keeps
<1>3. Cardinality(Uses(l, id)) = Cardinality(Uses(m, id) \cap K)
  BY <1>1, <1>2, KeepsUses
<1>4. Uses(m, id) \cap K = Uses(m, id) \ {p}
  BY <1>1 DEF Uses
<1>5. p \in Uses(m, id) <=> a.id = id
  BY <1>1 DEF Uses
<1>6. IsFiniteSet(Uses(m, id)) /\ Cardinality(Uses(m, id)) \in Nat
  BY <1>1, UsesFinite
<1>7. Cardinality(Uses(m, id) \ {p}) = IF a.id = id THEN Cardinality(Uses(m, id)) - 1 ELSE Cardinality(Uses(m, id))
  BY <1>5, <1>6, FS_RemoveElement
<1>8. Cardinality(Uses(m, id)) = Cardinality(Uses(l, id)) + (IF a.id = id THEN 1 ELSE 0)
  <2>1. Cardinality(Uses(l, id)) = Cardinality(Uses(m, id) \ {p})
    BY <1>3, <1>4
  <2> HIDE <1>3, <1>4
  <2>2. QED
    BY <1>6, <1>7, <2>1
<1>9. QED
  BY <1>8 DEF m

----------------------------------------------------------------------------
(* Records. *)

\* fi and gi differ at most in how often they are held.
Alike(fi, gi) ==
  /\ fi.prio = gi.prio /\ fi.local = gi.local /\ fi.dead = gi.dead
  /\ fi.power = gi.power /\ fi.hops = gi.hops

LEMMA InfoOf ==
  ASSUME NEW prio \in Nat, NEW local \in BOOLEAN, NEW dead \in BOOLEAN, NEW power \in Int,
         NEW ref \in Nat, NEW hops \in Seq(Hop)
  PROVE  [prio |-> prio, local |-> local, dead |-> dead, power |-> power, ref |-> ref, hops |-> hops] \in InfoType
BY DEF InfoType

LEMMA AlikeMeans ==
  ASSUME NEW fi, NEW gi, Alike(fi, gi)
  PROVE  /\ ContentOf(fi) = ContentOf(gi)
         /\ Fair(gi) => Fair(fi)
         /\ DeadDown(gi) => DeadDown(fi)
         /\ Settled(gi) => Settled(fi)
<1>1. ContentOf(fi) = ContentOf(gi)
  BY DEF Alike, ContentOf
<1>2. PowerOf(fi, DOMAIN fi.hops) = PowerOf(gi, DOMAIN gi.hops)
  BY DEF Alike, PowerOf
<1>3. Fair(gi) => Fair(fi)
  BY <1>2 DEF Alike, Fair
<1>4. DeadDown(gi) => DeadDown(fi)
  BY DEF Alike, DeadDown
<1>5. Settled(gi) => Settled(fi)
  BY DEF Alike, Settled
<1>6. QED
  BY <1>1, <1>3, <1>4, <1>5

\* Another count of references.
LEMMA RefChanged ==
  ASSUME NEW t, Table(t), NEW x \in DOMAIN t, NEW r \in Nat
  PROVE  LET u == [t EXCEPT ![x].ref = r] IN
         /\ Table(u) /\ DOMAIN u = DOMAIN t
         /\ \A id \in DOMAIN t : Alike(u[id], t[id]) /\ u[id].ref = IF id = x THEN r ELSE t[id].ref
<1> DEFINE u == [t EXCEPT ![x].ref = r]
           fi == [t[x] EXCEPT !.ref = r]
<1>1. \A id \in DOMAIN t : t[id] \in InfoType
  BY DEF Table
<1>2. fi \in InfoType /\ Alike(fi, t[x]) /\ fi.ref = r
  BY <1>1 DEF InfoType, Alike
<1> HIDE DEF fi
<1>3. u = [t EXCEPT ![x] = fi]
  BY DEF fi
<1> HIDE DEF u
<1>4. DOMAIN u = DOMAIN t /\ u \in [DOMAIN t -> InfoType]
  BY <1>2, <1>3 DEF Table
<1>5. \A id \in DOMAIN t : u[id] = IF id = x THEN fi ELSE t[id]
  BY <1>3 DEF Table
<1>6. \A id \in DOMAIN t : Alike(u[id], t[id]) /\ u[id].ref = IF id = x THEN r ELSE t[id].ref
  BY <1>2, <1>5 DEF Alike
<1>7. Table(u)
  BY <1>4 DEF Table
<1>8. QED
  BY <1>4, <1>6, <1>7 DEF u

\* A new fib_info says what it was made for, and its nexthops have no power yet.
LEMMA NewInfoMeans ==
  ASSUME NEW c \in Content
  PROVE  /\ NewInfo(c) \in InfoType /\ ContentOf(NewInfo(c)) = c
         /\ NewInfo(c).prio = c.prio /\ NewInfo(c).ref = 1
         /\ Fair(NewInfo(c)) /\ DeadDown(NewInfo(c))
         /\ NexthopsUp(c) => Settled(NewInfo(c))
<1> DEFINE fi == NewInfo(c)
<1>1. /\ c.prio \in Nat /\ c.local \in BOOLEAN
      /\ c.hops \in Seq([dev : Devices, gw : Nat, weight : Nat \ {0}])
      /\ c = [prio |-> c.prio, local |-> c.local, hops |-> c.hops]
  BY DEF Content
<1>2. Len(c.hops) \in Nat /\ DOMAIN c.hops = 1..Len(c.hops)
  BY <1>1
<1>3. \A i \in DOMAIN c.hops : c.hops[i] \in [dev : Devices, gw : Nat, weight : Nat \ {0}]
  BY <1>1, ElementOf, Zenon
<1>4. /\ fi.prio = c.prio /\ fi.local = c.local /\ fi.dead = FALSE /\ fi.power = 0 /\ fi.ref = 1
      /\ DOMAIN fi.hops = DOMAIN c.hops
  BY DEF NewInfo
<1>5. ASSUME NEW i \in DOMAIN c.hops
      PROVE  /\ fi.hops[i] \in Hop
             /\ fi.hops[i].dev = c.hops[i].dev /\ fi.hops[i].gw = c.hops[i].gw /\ fi.hops[i].weight = c.hops[i].weight
             /\ ~fi.hops[i].dead /\ fi.hops[i].power = 0 /\ fi.hops[i].chosen = 0 /\ fi.hops[i].share = 0
  BY <1>3 DEF NewInfo, Hop
<1>6. fi.hops \in Seq(Hop)
  <2>1. fi.hops = [i \in 1..Len(c.hops) |-> fi.hops[i]]
    BY <1>2 DEF NewInfo
  <2>2. \A i \in 1..Len(c.hops) : fi.hops[i] \in Hop
    BY <1>2, <1>5
  <2>3. fi.hops \in [1..Len(c.hops) -> Hop]
    BY <2>1, <2>2
  <2>4. QED
    BY <2>3, <1>2, SeqDef
<1>7. fi \in InfoType
  <2>1. fi = [prio |-> c.prio, local |-> c.local, dead |-> FALSE, power |-> 0, ref |-> 1, hops |-> fi.hops]
    BY DEF NewInfo
  <2> HIDE DEF fi
  <2>2. FALSE \in BOOLEAN /\ 0 \in Int /\ 1 \in Nat
    OBVIOUS
  <2>3. [prio |-> c.prio, local |-> c.local, dead |-> FALSE, power |-> 0, ref |-> 1, hops |-> fi.hops] \in InfoType
    BY <2>2, <1>1, <1>6, InfoOf, Zenon
  <2>4. QED
    BY <2>1, <2>3, Zenon
<1>8. ContentOf(fi) = c
  <2> DEFINE h == [i \in DOMAIN fi.hops |->
                     [dev |-> fi.hops[i].dev, gw |-> fi.hops[i].gw, weight |-> fi.hops[i].weight]]
  <2>1. \A i \in DOMAIN c.hops : h[i] = c.hops[i]
    <3> SUFFICES ASSUME NEW i \in DOMAIN c.hops PROVE h[i] = c.hops[i]
      OBVIOUS
    <3>1. c.hops[i] = [dev |-> c.hops[i].dev, gw |-> c.hops[i].gw, weight |-> c.hops[i].weight]
      BY <1>3
    <3> HIDE DEF fi
    <3>2. h[i] = [dev |-> fi.hops[i].dev, gw |-> fi.hops[i].gw, weight |-> fi.hops[i].weight]
      BY <1>4
    <3>3. QED
      BY <3>1, <3>2, <1>5
  <2>2. DOMAIN h = DOMAIN c.hops /\ h = [i \in DOMAIN h |-> h[i]]
    BY <1>4
  <2>3. c.hops = [i \in DOMAIN c.hops |-> c.hops[i]]
    BY <1>1
  <2>4. ContentOf(fi) = [prio |-> fi.prio, local |-> fi.local, hops |-> h]
    BY DEF ContentOf
  <2> HIDE DEF h, fi
  <2>5. h = c.hops
    BY <2>1, <2>2, <2>3
  <2>6. QED
    BY <2>4, <2>5, <1>1, <1>4
<1>9. Fair(fi)
  <2> DEFINE n == [i \in DOMAIN fi.hops |-> IF i \in DOMAIN fi.hops THEN fi.hops[i].power ELSE 0]
  <2> HIDE DEF fi
  <2>1. n \in Seq(Int) /\ Len(n) = Len(c.hops) /\ \A i \in 1..Len(c.hops) : n[i] = 0
    <3>1. n = [i \in 1..Len(c.hops) |-> 0]
      BY <1>2, <1>4, <1>5
    <3> HIDE DEF n
    <3>2. QED
      BY <3>1, <1>2, SeqDef
  <2>2. PowerOf(fi, DOMAIN fi.hops) = 0
    <3>1. PowerOf(fi, DOMAIN fi.hops) = Total(n)
      BY DEF PowerOf
    <3> HIDE DEF n
    <3>2. QED
      BY <3>1, <2>1, TotalOfZeros
  <2>3. QED
    BY <2>2, <1>4, <1>5 DEF Fair
<1>10. DeadDown(fi)
  BY <1>4, <1>5 DEF DeadDown
<1>11. NexthopsUp(c) => Settled(fi)
  BY <1>4, <1>5 DEF NexthopsUp, Settled
<1>12. QED
  BY <1>4, <1>7, <1>8, <1>9, <1>10, <1>11

\* While fewer than MaxInfos are live there is an unused id.
LEMMA FreshFree ==
  ASSUME Table(infos), Cardinality(DOMAIN infos) < MaxInfos
  PROVE  FreshId \in Nat /\ FreshId \notin DOMAIN infos
<1> DEFINE Free == 1..MaxInfos + 1 \ DOMAIN infos
<1>1. MaxInfos \in Nat /\ IsFiniteSet(DOMAIN infos) /\ Cardinality(DOMAIN infos) \in Nat
  BY FibRoutesAssumption, FS_CardinalityType DEF Table
<1>2. Cardinality(1..MaxInfos + 1) = MaxInfos + 1
  BY <1>1, FS_Interval
<1>3. Free # {}
  <2> SUFFICES ASSUME 1..MaxInfos + 1 \subseteq DOMAIN infos PROVE FALSE
    OBVIOUS
  <2>1. Cardinality(1..MaxInfos + 1) <= Cardinality(DOMAIN infos)
    BY <1>1, FS_Subset
  <2>2. QED
    BY <2>1, <1>1, <1>2
<1>4. Free \subseteq Nat
  BY <1>1
<1>5. FreshId \in Free
  BY <1>3, <1>4, LeastOf DEF FreshId
<1>6. QED
  BY <1>4, <1>5

----------------------------------------------------------------------------
(* References. *)

\* fib_create_info holds the fib_info it finds or makes once more than the aliases do.
LEMMA CreateListed ==
  ASSUME Listed(aliases, infos, cnt, {}), NEW content \in Content,
         fib_find_info(content) # {} \/ Cardinality(DOMAIN infos) < MaxInfos
  PROVE  LET c == fib_create_info(content) IN
         /\ c.id \in DOMAIN c.infos /\ c.infos[c.id].prio = content.prio
         /\ Listed(aliases, c.infos, c.cnt, {c.id})
         /\ \A id \in DOMAIN c.infos :
              \/ id \in DOMAIN infos /\ Alike(c.infos[id], infos[id])
              \/ Alike(c.infos[id], NewInfo(content))
<1> DEFINE Same == fib_find_info(content)
           c == fib_create_info(content)
<1>1. /\ aliases \in Seq(Alias) /\ Table(infos) /\ SortedBy(aliases, infos) /\ cnt = Cardinality(DOMAIN infos)
      /\ \A i \in DOMAIN aliases : aliases[i].id \in DOMAIN infos
      /\ \A id \in DOMAIN infos : infos[id].ref = Cardinality(Uses(aliases, id)) /\ infos[id].ref > 0
      /\ \A id, id2 \in DOMAIN infos : ContentOf(infos[id]) = ContentOf(infos[id2]) => id = id2
  <2>1. \A id \in DOMAIN infos : Cardinality(Uses(aliases, id)) \in Nat
    BY UsesFinite DEF Listed
  <2>2. \A id : id \notin {}
    OBVIOUS
  <2>3. QED
    BY <2>1, <2>2 DEF Listed, Held
<1>2. CASE Same # {}
  <2> DEFINE n == Min(Same)
             u == [infos EXCEPT ![n].ref = infos[n].ref + 1]
  <2>1. Same \subseteq DOMAIN infos /\ \A id \in Same : ContentOf(infos[id]) = content
    BY DEF fib_find_info
  <2>2. n \in Same
    BY <1>1, <1>2, <2>1, LeastOf DEF Table
  <2>3. n \in DOMAIN infos /\ ContentOf(infos[n]) = content
    BY <2>1, <2>2
  <2>4. infos[n].ref \in Nat /\ infos[n].ref + 1 \in Nat
    BY <1>1, <2>3 DEF Table, InfoType
  <2>5. c.id = n /\ c.infos = u /\ c.cnt = cnt
    BY <1>2 DEF fib_create_info
  <2> HIDE DEF n, c, Same
  <2>6. /\ Table(u) /\ DOMAIN u = DOMAIN infos
        /\ \A id \in DOMAIN infos : Alike(u[id], infos[id]) /\ u[id].ref = IF id = n THEN infos[n].ref + 1 ELSE infos[id].ref
    BY <1>1, <2>3, <2>4, RefChanged
  <2> HIDE DEF u
  <2>7. \A id \in DOMAIN infos : ContentOf(u[id]) = ContentOf(infos[id]) /\ u[id].prio = infos[id].prio
    BY <2>6, AlikeMeans DEF Alike
  <2>8. Held(aliases, u, {n})
    <3>1. ASSUME NEW id \in DOMAIN u
          PROVE  u[id].ref = Cardinality(Uses(aliases, id)) + (IF id \in {n} THEN 1 ELSE 0) /\ u[id].ref > 0
      <4>1. /\ u[id].ref = IF id = n THEN infos[n].ref + 1 ELSE infos[id].ref
            /\ infos[id].ref = Cardinality(Uses(aliases, id)) /\ infos[id].ref > 0
        BY <1>1, <2>6
      <4>2. infos[id].ref \in Nat
        BY <1>1, <2>6 DEF Table, InfoType
      <4>3. QED
        BY <4>1, <4>2
    <3>2. QED
      BY <3>1, <1>1, <2>6, <2>7 DEF Held
  <2>9. SortedBy(aliases, u)
    BY <1>1, <2>7, SortedKept
  <2>10. u[n].prio = content.prio
    <3>1. ContentOf(infos[n]).prio = infos[n].prio
      BY DEF ContentOf
    <3>2. QED
      BY <3>1, <2>3, <2>7
  <2>11. Listed(aliases, u, cnt, {n})
    BY <1>1, <2>6, <2>8, <2>9 DEF Listed
  <2>12. QED
    BY <2>3, <2>5, <2>6, <2>10, <2>11 DEF c
<1>3. CASE Same = {}
  <2> DEFINE n == FreshId
             new == NewInfo(content)
             u == WithNew(content)
  <2>1. n \in Nat /\ n \notin DOMAIN infos
    BY <1>1, <1>3, FreshFree
  <2>2. c.id = n /\ c.infos = u /\ c.cnt = cnt + 1
    BY <1>3 DEF fib_create_info
  <2>3. new \in InfoType /\ ContentOf(new) = content /\ new.prio = content.prio /\ new.ref = 1
    BY NewInfoMeans
  <2>4. /\ DOMAIN u = DOMAIN infos \cup {n} /\ u[n] = new
        /\ \A id \in DOMAIN infos : u[id] = infos[id]
    BY <2>1 DEF WithNew
  <2>5. u = [id \in DOMAIN u |-> u[id]]
    BY DEF WithNew
  <2>6. \A id \in DOMAIN infos : ContentOf(infos[id]) # content
    BY <1>3 DEF fib_find_info
  <2> HIDE DEF n, c, Same, u, new
  <2>7. \A id \in DOMAIN infos : infos[id] \in InfoType
    BY <1>1 DEF Table
  <2>8. IsFiniteSet(DOMAIN u) /\ Cardinality(DOMAIN u) = cnt + 1
    BY <1>1, <2>1, <2>4, FS_AddElement DEF Table
  <2>9. Table(u)
    <3>1. \A id \in DOMAIN u : u[id] \in InfoType
      BY <2>3, <2>4, <2>7
    <3>2. u \in [DOMAIN u -> InfoType]
      BY <3>1, <2>5
    <3>3. QED
      BY <3>2, <1>1, <2>1, <2>4, <2>8 DEF Table
  <2>10. Uses(aliases, n) = {}
    BY <1>1, <2>1 DEF Uses
  <2>11. Held(aliases, u, {n})
    <3>1. ASSUME NEW id \in DOMAIN u
          PROVE  u[id].ref = Cardinality(Uses(aliases, id)) + (IF id \in {n} THEN 1 ELSE 0) /\ u[id].ref > 0
      <4>1. CASE id = n
        BY <4>1, <2>3, <2>4, <2>10, FS_EmptySet
      <4>2. CASE id # n
        <5>1. u[id] = infos[id] /\ infos[id].ref = Cardinality(Uses(aliases, id)) /\ infos[id].ref > 0
          BY <4>2, <1>1, <2>4
        <5>2. infos[id].ref \in Nat
          BY <4>2, <2>4, <2>7 DEF InfoType
        <5>3. QED
          BY <4>2, <5>1, <5>2
      <4>3. QED
        BY <4>1, <4>2
    <3>2. \A id, id2 \in DOMAIN u : ContentOf(u[id]) = ContentOf(u[id2]) => id = id2
      BY <1>1, <2>3, <2>4, <2>6
    <3>3. QED
      BY <3>1, <3>2, <1>1, <2>4 DEF Held
  <2>12. SortedBy(aliases, u)
    BY <1>1, <2>4, SortedKept
  <2>13. Listed(aliases, u, cnt + 1, {n})
    BY <1>1, <2>8, <2>9, <2>11, <2>12 DEF Listed
  <2>14. \A id \in DOMAIN u : (id \in DOMAIN infos /\ Alike(u[id], infos[id])) \/ Alike(u[id], new)
    BY <2>4 DEF Alike
  <2>15. QED
    BY <2>2, <2>3, <2>4, <2>13, <2>14 DEF c, new
<1>4. QED
  BY <1>2, <1>3

\* fib_release_info gives the reference back that the aliases do not need.
LEMMA ReleaseListed ==
  ASSUME NEW l, NEW t, NEW n, NEW x \in DOMAIN t, Listed(l, t, n, {x})
  PROVE  /\ Listed(l, Release(t, x), n - Released(t, x), {})
         /\ \A id \in DOMAIN Release(t, x) : id \in DOMAIN t /\ Alike(Release(t, x)[id], t[id])
<1>1. /\ l \in Seq(Alias) /\ Table(t) /\ SortedBy(l, t) /\ n = Cardinality(DOMAIN t)
      /\ \A i \in DOMAIN l : l[i].id \in DOMAIN t
      /\ \A id \in DOMAIN t :
           t[id].ref = Cardinality(Uses(l, id)) + (IF id = x THEN 1 ELSE 0) /\ t[id].ref > 0
      /\ \A id, id2 \in DOMAIN t : ContentOf(t[id]) = ContentOf(t[id2]) => id = id2
  BY DEF Listed, Held
<1>2. \A id : IsFiniteSet(Uses(l, id)) /\ Cardinality(Uses(l, id)) \in Nat
  BY <1>1, UsesFinite
<1>3. \A id \in DOMAIN t : t[id] \in InfoType /\ t[id].ref \in Nat
  BY <1>1 DEF Table, InfoType
<1>4. CASE t[x].ref = 1
  <2> DEFINE u == WithoutInfo(t, x)
  <2>1. Release(t, x) = u /\ Released(t, x) = 1
    BY <1>4 DEF Release, Released
  <2>2. DOMAIN u = DOMAIN t \ {x} /\ (\A id \in DOMAIN u : u[id] = t[id]) /\ u = [id \in DOMAIN u |-> u[id]]
    BY DEF WithoutInfo
  <2> HIDE DEF u
  <2>3. Cardinality(Uses(l, x)) = 0
    <3>1. t[x].ref = Cardinality(Uses(l, x)) + 1
      BY <1>1
    <3>2. QED
      BY <3>1, <1>2, <1>4
  <2>4. Uses(l, x) = {}
    BY <1>2, <2>3, FS_EmptySet
  <2>5. \A i \in DOMAIN l : l[i].id \in DOMAIN u
    BY <1>1, <2>2, <2>4 DEF Uses
  <2>6. IsFiniteSet(DOMAIN u) /\ Cardinality(DOMAIN u) = n - 1
    BY <1>1, <2>2, FS_RemoveElement DEF Table
  <2>7. Table(u)
    <3>1. u \in [DOMAIN u -> InfoType]
      BY <1>3, <2>2
    <3>2. QED
      BY <3>1, <1>1, <2>2, <2>6 DEF Table
  <2>8. Held(l, u, {})
    <3>1. ASSUME NEW id \in DOMAIN u
          PROVE  u[id].ref = Cardinality(Uses(l, id)) + (IF id \in {} THEN 1 ELSE 0) /\ u[id].ref > 0
      <4>1. u[id] = t[id] /\ id # x /\ id \in DOMAIN t
        BY <2>2
      <4>2. QED
        BY <4>1, <1>1, <1>2
    <3>2. QED
      BY <3>1, <1>1, <2>2, <2>5 DEF Held
  <2>9. SortedBy(l, u)
    BY <1>1, <2>2, <2>5, SortedKept
  <2>10. Listed(l, u, n - 1, {})
    BY <1>1, <2>6, <2>7, <2>8, <2>9 DEF Listed
  <2>11. QED
    BY <2>1, <2>2, <2>10 DEF Alike
<1>5. CASE t[x].ref # 1
  <2> DEFINE u == [t EXCEPT ![x].ref = t[x].ref - 1]
  <2>1. Release(t, x) = u /\ Released(t, x) = 0
    BY <1>5 DEF Release, Released
  <2>2. t[x].ref - 1 \in Nat /\ t[x].ref - 1 > 0
    BY <1>1, <1>3, <1>5
  <2>3. /\ Table(u) /\ DOMAIN u = DOMAIN t
        /\ \A id \in DOMAIN t : Alike(u[id], t[id]) /\ u[id].ref = IF id = x THEN t[x].ref - 1 ELSE t[id].ref
    BY <1>1, <2>2, RefChanged
  <2> HIDE DEF u
  <2>4. \A id \in DOMAIN t : ContentOf(u[id]) = ContentOf(t[id]) /\ u[id].prio = t[id].prio
    BY <2>3, AlikeMeans DEF Alike
  <2>5. Held(l, u, {})
    <3>1. ASSUME NEW id \in DOMAIN u
          PROVE  u[id].ref = Cardinality(Uses(l, id)) + (IF id \in {} THEN 1 ELSE 0) /\ u[id].ref > 0
      <4>1. /\ u[id].ref = IF id = x THEN t[x].ref - 1 ELSE t[id].ref
            /\ t[id].ref = Cardinality(Uses(l, id)) + (IF id = x THEN 1 ELSE 0) /\ t[id].ref > 0
        BY <1>1, <2>3
      <4>2. QED
        BY <4>1, <1>2, <1>3, <2>2, <2>3
    <3>2. QED
      BY <3>1, <1>1, <2>3, <2>4 DEF Held
  <2>6. SortedBy(l, u)
    BY <1>1, <2>4, SortedKept
  <2>7. n = n - 0
    BY <1>1, FS_CardinalityType DEF Table
  <2>8. QED
    BY <1>1, <2>1, <2>3, <2>5, <2>6, <2>7 DEF Listed
<1>6. QED
  BY <1>4, <1>5

----------------------------------------------------------------------------
(* Insertion. *)

\* A new alias a goes before the first one that is not ahead of it.
Ahead(l, t, j, tos, prio) == l[j].tos > tos \/ (l[j].tos = tos /\ t[l[j].id].prio <= prio)
Behind(l, t, j, tos, prio) == l[j].tos < tos \/ (l[j].tos = tos /\ t[l[j].id].prio >= prio)

LEMMA InsertListed ==
  ASSUME NEW l, NEW t, NEW n, NEW x \in DOMAIN t, Listed(l, t, n, {x}),
         NEW a \in Alias, a.id = x, NEW p \in 1..Len(l) + 1,
         \A j \in 1..Len(l) : l[j] # a,
         \A j \in 1..p - 1 : Ahead(l, t, j, a.tos, t[x].prio),
         \A j \in p..Len(l) : Behind(l, t, j, a.tos, t[x].prio)
  PROVE  Listed(InsertAt(l, p, a), t, n, {})
<1> DEFINE m == InsertAt(l, p, a)
<1>1. /\ l \in Seq(Alias) /\ Table(t) /\ SortedBy(l, t) /\ n = Cardinality(DOMAIN t)
      /\ \A i \in DOMAIN l : l[i].id \in DOMAIN t
      /\ \A id \in DOMAIN t :
           t[id].ref = Cardinality(Uses(l, id)) + (IF id = x THEN 1 ELSE 0) /\ t[id].ref > 0
      /\ \A id, id2 \in DOMAIN t : ContentOf(t[id]) = ContentOf(t[id2]) => id = id2
  BY DEF Listed, Held
<1>2. /\ m \in Seq(Alias) /\ Len(m) = Len(l) + 1 /\ m[p] = a
      /\ \A i \in 1..p - 1 : m[i] = l[i]
      /\ \A i \in p + 1..Len(l) + 1 : m[i] = l[i - 1]
  BY <1>1, InsertKeeps
<1>3. \A id : Cardinality(Uses(m, id)) = Cardinality(Uses(l, id)) + (IF a.id = id THEN 1 ELSE 0)
  BY <1>1, InsertUses
<1> HIDE DEF m
<1>4. Len(l) \in Nat /\ DOMAIN l = 1..Len(l) /\ DOMAIN m = 1..Len(l) + 1
  BY <1>1, <1>2
<1>5. ASSUME NEW i \in DOMAIN m
      PROVE  \/ i < p /\ i \in 1..p - 1 /\ i \in DOMAIN l /\ m[i] = l[i]
             \/ i = p /\ m[i] = a
             \/ i > p /\ i - 1 \in p..Len(l) /\ i - 1 \in DOMAIN l /\ m[i] = l[i - 1]
  <2>1. CASE i < p
    BY <2>1, <1>2, <1>4
  <2>2. CASE i = p
    BY <2>2, <1>2
  <2>3. CASE i > p
    BY <2>3, <1>2, <1>4
  <2>4. QED
    BY <2>1, <2>2, <2>3, <1>4
<1>6. Held(m, t, {})
  <2>1. \A i \in DOMAIN m : m[i].id \in DOMAIN t
    BY <1>1, <1>5
  <2>2. ASSUME NEW id \in DOMAIN t
        PROVE  t[id].ref = Cardinality(Uses(m, id)) + (IF id \in {} THEN 1 ELSE 0) /\ t[id].ref > 0
    <3>1. Cardinality(Uses(l, id)) \in Nat
      BY <1>1, UsesFinite
    <3>2. QED
      BY <3>1, <1>1, <1>3
  <2>3. QED
    BY <2>1, <2>2, <1>1 DEF Held
<1>7. SortedBy(m, t)
  <2> DEFINE Fine(b, d) == b # d /\ b.tos >= d.tos /\ (b.tos = d.tos => t[b.id].prio <= t[d.id].prio)
  <2> SUFFICES ASSUME NEW i \in DOMAIN m, NEW j \in DOMAIN m, i < j PROVE Fine(m[i], m[j])
    BY DEF SortedBy
  <2>1. \A k, k2 \in DOMAIN l : k < k2 => Fine(l[k], l[k2])
    BY <1>1 DEF SortedBy
  <2>2. i \in Int /\ j \in Int /\ p \in Int
    BY <1>4
  <2>3. \A k \in DOMAIN l : l[k].tos \in Nat /\ l[k].id \in DOMAIN t
    BY <1>1, AliasOf
  <2>4. a.tos \in Nat /\ \A id \in DOMAIN t : t[id].prio \in Nat
    BY <1>1 DEF Alias, Table, InfoType
  <2>5. CASE i < p /\ j < p
    BY <2>1, <2>2, <2>5, <1>5
  <2>6. CASE i < p /\ j = p
    <3>1. m[i] = l[i] /\ m[j] = a /\ i \in DOMAIN l /\ i \in 1..p - 1
      BY <2>2, <2>6, <1>5
    <3>2. Ahead(l, t, i, a.tos, t[x].prio) /\ l[i] # a
      BY <3>1, <1>4
    <3>3. QED
      BY <3>1, <3>2, <2>3, <2>4 DEF Ahead
  <2>7. CASE i < p /\ j > p
    <3>1. m[i] = l[i] /\ m[j] = l[j - 1] /\ i \in DOMAIN l /\ j - 1 \in DOMAIN l
      BY <2>2, <2>7, <1>5
    <3>2. i < j - 1
      BY <2>2, <2>7
    <3>3. QED
      BY <3>1, <3>2, <2>1
  <2>8. CASE i = p /\ j > p
    <3>1. m[i] = a /\ m[j] = l[j - 1] /\ j - 1 \in DOMAIN l /\ j - 1 \in p..Len(l)
      BY <2>2, <2>8, <1>5
    <3>2. Behind(l, t, j - 1, a.tos, t[x].prio) /\ l[j - 1] # a
      BY <3>1, <1>4
    <3>3. QED
      BY <3>1, <3>2, <2>3, <2>4 DEF Behind
  <2>9. CASE i > p /\ j > p
    <3>1. m[i] = l[i - 1] /\ m[j] = l[j - 1] /\ i - 1 \in DOMAIN l /\ j - 1 \in DOMAIN l
      BY <2>2, <2>9, <1>5
    <3>2. i - 1 < j - 1
      BY <2>2
    <3>3. QED
      BY <3>1, <3>2, <2>1
  <2>10. QED
    BY <2>2, <2>5, <2>6, <2>7, <2>8, <2>9
<1>8. QED
  BY <1>1, <1>2, <1>6, <1>7 DEF Listed, m

\* An alias of the same key takes the place of the old one, whose fib_info is held once
\* more than it should be from then on.
LEMMA ReplaceListed ==
  ASSUME NEW l, NEW t, NEW n, NEW x \in DOMAIN t, Listed(l, t, n, {x}),
         NEW a \in Alias, a.id = x, NEW p \in 1..Len(l),
         \A j \in 1..Len(l) : l[j] # a,
         l[p].tos = a.tos, t[l[p].id].prio = t[x].prio
  PROVE  l[p].id \in DOMAIN t /\ Listed([l EXCEPT ![p] = a], t, n, {l[p].id})
<1> DEFINE m == [l EXCEPT ![p] = a]
           y == l[p].id
<1>1. /\ l \in Seq(Alias) /\ Table(t) /\ SortedBy(l, t) /\ n = Cardinality(DOMAIN t)
      /\ \A i \in DOMAIN l : l[i].id \in DOMAIN t
      /\ \A id \in DOMAIN t :
           t[id].ref = Cardinality(Uses(l, id)) + (IF id = x THEN 1 ELSE 0) /\ t[id].ref > 0
      /\ \A id, id2 \in DOMAIN t : ContentOf(t[id]) = ContentOf(t[id2]) => id = id2
  BY DEF Listed, Held
<1>2. Len(l) \in Nat /\ DOMAIN l = 1..Len(l) /\ p \in DOMAIN l
  BY <1>1
<1>3. m \in Seq(Alias) /\ DOMAIN m = DOMAIN l /\ m[p] = a /\ \A i \in DOMAIN l : i # p => m[i] = l[i]
  BY <1>1, <1>2
<1> HIDE DEF m
<1>4. y # x
  <2>1. l[p] \in Alias /\ l[p] # a
    BY <1>1, <1>2
  <2>2. QED
    BY <2>1 DEF Alias
<1>5. \A id : IsFiniteSet(Uses(l, id)) /\ Cardinality(Uses(l, id)) \in Nat
  BY <1>1, UsesFinite
<1>6. Held(m, t, {y})
  <2>1. \A i \in DOMAIN m : m[i].id \in DOMAIN t
    BY <1>1, <1>3
  <2>2. ASSUME NEW id \in DOMAIN t
        PROVE  t[id].ref = Cardinality(Uses(m, id)) + (IF id \in {y} THEN 1 ELSE 0) /\ t[id].ref > 0
    <3>1. CASE id = x
      <4>1. Uses(m, id) = Uses(l, id) \cup {p} /\ p \notin Uses(l, id)
        BY <3>1, <1>2, <1>3, <1>4 DEF Uses
      <4>2. Cardinality(Uses(m, id)) = Cardinality(Uses(l, id)) + 1
        BY <4>1, <1>5, FS_AddElement
      <4>3. QED
        BY <3>1, <4>2, <1>1, <1>4, <1>5
    <3>2. CASE id = y
      <4>1. Uses(m, id) = Uses(l, id) \ {p} /\ p \in Uses(l, id)
        BY <3>2, <1>2, <1>3, <1>4 DEF Uses
      <4>2. Cardinality(Uses(m, id)) = Cardinality(Uses(l, id)) - 1
        BY <4>1, <1>5, FS_RemoveElement, ZenonT(40)
      <4>3. QED
        BY <3>2, <4>2, <1>1, <1>4, <1>5, SMTT(30)
    <3>3. CASE id # x /\ id # y
      <4>1. Uses(m, id) = Uses(l, id)
        BY <3>3, <1>2, <1>3 DEF Uses
      <4>2. QED
        BY <3>3, <4>1, <1>1, <1>5
    <3>4. QED
      BY <3>1, <3>2, <3>3
  <2>3. QED
    BY <2>1, <2>2, <1>1 DEF Held
<1>7. SortedBy(m, t)
  <2> DEFINE Fine(b, d) == b # d /\ b.tos >= d.tos /\ (b.tos = d.tos => t[b.id].prio <= t[d.id].prio)
  <2> SUFFICES ASSUME NEW i \in DOMAIN m, NEW j \in DOMAIN m, i < j PROVE Fine(m[i], m[j])
    BY DEF SortedBy
  <2>1. Fine(l[i], l[j])
    BY <1>1, <1>3 DEF SortedBy
  <2>2. l[i] # a /\ l[j] # a /\ i # j
    BY <1>2, <1>3
  <2>3. CASE i = p
    BY <2>1, <2>2, <2>3, <1>3
  <2>4. CASE j = p
    BY <2>1, <2>2, <2>4, <1>3
  <2>5. CASE i # p /\ j # p
    BY <2>1, <2>5, <1>3
  <2>6. QED
    BY <2>3, <2>4, <2>5
<1>8. y \in DOMAIN t
  BY <1>1, <1>2
<1>9. QED
  BY <1>1, <1>3, <1>6, <1>7, <1>8 DEF Listed, m

\* The comparison of fib_find_alias, and what it says of an alias further down the list.
LEMMA Compared ==
  ASSUME NEW a \in Nat, NEW b \in Nat, NEW tos \in Nat, NEW prio \in Nat
  PROVE  /\ a <= tos /\ (b >= prio \/ a < tos) => a < tos \/ (a = tos /\ b >= prio)
         /\ ~ (a <= tos /\ (b >= prio \/ a < tos)) => a > tos \/ (a = tos /\ b < prio)
OBVIOUS

LEMMA Follows ==
  ASSUME NEW a \in Nat, NEW b \in Nat, NEW c \in Nat, NEW d \in Nat, NEW tos \in Nat, NEW prio \in Nat,
         a < tos \/ (a = tos /\ b >= prio), a >= c, a = c => b <= d
  PROVE  c < tos \/ (c = tos /\ d >= prio)
OBVIOUS

LEMMA FollowsStrictly ==
  ASSUME NEW a \in Nat, NEW b \in Nat, NEW c \in Nat, NEW d \in Nat, NEW tos \in Nat, NEW prio \in Nat,
         a < tos \/ (a = tos /\ b >= prio), a # tos \/ b # prio, a >= c, a = c => b <= d
  PROVE  c < tos \/ (c = tos /\ d > prio)
OBVIOUS

\* Where fib_find_alias stops.
LEMMA AliasFound ==
  ASSUME NEW t, aliases \in Seq(Alias), SortedBy(aliases, t),
         \A j \in DOMAIN aliases : t[aliases[j].id].prio \in Nat, NEW tos \in Nat, NEW prio \in Nat
  PROVE  LET i == fib_find_alias(t, tos, prio) IN
         /\ i \in 1..Len(aliases) + 1
         /\ \A j \in 1..i - 1 : aliases[j].tos > tos \/ (aliases[j].tos = tos /\ t[aliases[j].id].prio < prio)
         /\ \A j \in i..Len(aliases) : Behind(aliases, t, j, tos, prio)
<1> DEFINE Hit == {k \in DOMAIN aliases : aliases[k].tos <= tos /\
                     (t[aliases[k].id].prio >= prio \/ aliases[k].tos < tos)}
           i == fib_find_alias(t, tos, prio)
<1>1. Len(aliases) \in Nat /\ DOMAIN aliases = 1..Len(aliases) /\ \A j \in DOMAIN aliases : aliases[j].tos \in Nat
  BY AliasOf
<1>2. ASSUME NEW j \in DOMAIN aliases, j \notin Hit
      PROVE  aliases[j].tos > tos \/ (aliases[j].tos = tos /\ t[aliases[j].id].prio < prio)
  <2>1. aliases[j].tos \in Nat /\ t[aliases[j].id].prio \in Nat
    BY <1>1
  <2>2. ~ (aliases[j].tos <= tos /\ (t[aliases[j].id].prio >= prio \/ aliases[j].tos < tos))
    BY <1>2
  <2>3. QED
    BY <2>1, <2>2, Compared
<1>3. CASE Hit = {}
  <2>1. i = Len(aliases) + 1
    BY <1>3 DEF fib_find_alias
  <2>2. \A j \in DOMAIN aliases : j \notin Hit
    BY <1>3
  <2> HIDE DEF i, Hit
  <2>3. i \in 1..Len(aliases) + 1
    BY <2>1, <1>1
  <2>4. ASSUME NEW j \in 1..i - 1
        PROVE  aliases[j].tos > tos \/ (aliases[j].tos = tos /\ t[aliases[j].id].prio < prio)
    <3>1. j \in DOMAIN aliases
      BY <2>1, <1>1
    <3>2. QED
      BY <3>1, <2>2, <1>2
  <2>5. \A j \in i..Len(aliases) : FALSE
    BY <2>1, <1>1
  <2>6. QED
    BY <2>3, <2>4, <2>5 DEF i
<1>4. CASE Hit # {}
  <2>1. i = Min(Hit)
    BY <1>4 DEF fib_find_alias
  <2>2. Hit \subseteq Nat
    BY <1>1
  <2> HIDE DEF i
  <2>3. i \in Hit /\ \A j \in Hit : i <= j
    BY <2>1, <2>2, <1>4, LeastOf
  <2>4. i \in DOMAIN aliases /\ aliases[i].tos <= tos /\ (t[aliases[i].id].prio >= prio \/ aliases[i].tos < tos)
    BY <2>3
  <2>5. \A j \in 1..i - 1 : j \in DOMAIN aliases /\ j \notin Hit
    <3> SUFFICES ASSUME NEW j \in 1..i - 1 PROVE j \in DOMAIN aliases /\ j \notin Hit
      OBVIOUS
    <3>1. i \in 1..Len(aliases) /\ j \in Int /\ j < i
      BY <2>4, <1>1
    <3> HIDE DEF Hit
    <3>2. QED
      BY <3>1, <2>3, <1>1
  <2>6. ASSUME NEW j \in i..Len(aliases) PROVE Behind(aliases, t, j, tos, prio)
    <3>1. j \in DOMAIN aliases /\ j \in Int /\ i \in Int
      BY <2>4, <1>1
    <3>2. /\ aliases[i].tos \in Nat /\ t[aliases[i].id].prio \in Nat
          /\ aliases[j].tos \in Nat /\ t[aliases[j].id].prio \in Nat
      BY <3>1, <2>4, <1>1
    <3>3. CASE j = i
      <4>1. aliases[i].tos < tos \/ (aliases[i].tos = tos /\ t[aliases[i].id].prio >= prio)
        BY <3>2, <2>4, Compared
      <4>2. QED
        BY <4>1, <3>3, Zenon DEF Behind
    <3>4. CASE i < j
      <4>1. /\ aliases[i].tos >= aliases[j].tos
            /\ aliases[i].tos = aliases[j].tos => t[aliases[i].id].prio <= t[aliases[j].id].prio
        BY <3>1, <3>4, <2>4 DEF SortedBy
      <4>2. aliases[i].tos < tos \/ (aliases[i].tos = tos /\ t[aliases[i].id].prio >= prio)
        BY <3>2, <2>4, Compared
      <4>3. aliases[j].tos < tos \/ (aliases[j].tos = tos /\ t[aliases[j].id].prio >= prio)
        BY <4>1, <4>2, <3>2, Follows, SMTT(30)
      <4>4. QED
        BY <4>3, Zenon DEF Behind
    <3>5. QED
      BY <3>1, <3>3, <3>4
  <2> HIDE DEF Hit
  <2>7. QED
    BY <2>4, <2>5, <2>6, <1>1, <1>2 DEF i
<1>5. QED
  BY <1>3, <1>4

\* Where the aliases of a key end that begin at place i.
LEMMA KeyEnds ==
  ASSUME NEW t, aliases \in Seq(Alias), NEW i \in 1..Len(aliases) + 1, NEW tos, NEW prio
  PROVE  LET e == EndOfKey(t, i, tos, prio) IN
         /\ e \in i..Len(aliases) + 1 /\ ~SameKey(t, e, tos, prio)
         /\ \A j \in i..e - 1 : SameKey(t, j, tos, prio)
<1> DEFINE S == {j \in i..Len(aliases) + 1 : ~SameKey(t, j, tos, prio)}
           e == EndOfKey(t, i, tos, prio)
<1>1. Len(aliases) \in Nat /\ DOMAIN aliases = 1..Len(aliases)
  OBVIOUS
<1>2. Len(aliases) + 1 \in S
  BY <1>1 DEF SameKey
<1>3. S \subseteq Nat
  BY <1>1
<1>4. e = Min(S)
  BY DEF EndOfKey
<1> HIDE DEF e
<1>5. e \in S /\ \A j \in S : e <= j
  BY <1>2, <1>3, <1>4, LeastOf
<1>6. \A j \in i..e - 1 : j \notin S /\ j \in i..Len(aliases) + 1
  BY <1>1, <1>5
<1>7. QED
  BY <1>5, <1>6 DEF e

\* What the fib_infos of a table satisfy while no device is being taken down.
AllSettled(t) == \A id \in DOMAIN t : Fair(t[id]) /\ DeadDown(t[id]) /\ Settled(t[id])

LEMMA SettledStep ==
  ASSUME IInv, sync = Done, UNCHANGED <<state, sync>>, Listed(aliases', infos', cnt', {}), AllSettled(infos')
  PROVE  IInv'
<1>1. state' = state /\ sync' = sync
  OBVIOUS
<1>2. state' \in [Devices -> {"up", "down", "bare"}] /\ sync' = Done'
  BY <1>1 DEF IInv, Done
<1>3. \A id \in DOMAIN infos' : Fair(infos'[id])
  BY DEF AllSettled
<1>4. \A id \in DOMAIN infos' : DeadDown(infos[id])'
  BY <1>1 DEF AllSettled, DeadDown
<1>5. \A id \in DOMAIN infos' : Settled(infos[id])'
  BY <1>1 DEF AllSettled, Settled
<1>6. SyncSound'
  BY <1>2, <1>5 DEF SyncSound
<1>7. QED
  BY <1>2, <1>3, <1>4, <1>6 DEF IInv

\* A table of which each fib_info is like one of a settled table is settled.
LEMMA AlikeSettled ==
  ASSUME NEW t, AllSettled(t), NEW u, \A id \in DOMAIN u : id \in DOMAIN t /\ Alike(u[id], t[id])
  PROVE  AllSettled(u)
BY AlikeMeans DEF AllSettled

LEMMA InsertKept ==
  ASSUME IInv, NEW tos \in Toses, NEW content \in Contents, NEW flags, NEW nomem,
         Insert(tos, content, flags, nomem)
  PROVE  IInv'
<1> DEFINE c     == fib_create_info(content)
           prio  == content.prio
           i     == fib_find_alias(c.infos, tos, prio)
           new   == [tos |-> tos, id |-> c.id]
           known == SameKey(c.infos, i, tos, prio)
           e     == EndOfKey(c.infos, i, tos, prio)
           match == known /\ \E j \in i..e - 1 : aliases[j] = new
           old   == aliases[i].id
<1>1. sync = Done /\ Listed(aliases, infos, cnt, {}) /\ AllSettled(infos)
  BY DEF Insert, IInv, SyncSound, AllSettled
<1>2. content \in Content /\ tos \in Nat
  BY FibRoutesAssumption DEF Content
<1>3. /\ c.id \in DOMAIN c.infos /\ c.infos[c.id].prio = prio
      /\ Listed(aliases, c.infos, c.cnt, {c.id})
      /\ \A id \in DOMAIN c.infos :
           \/ id \in DOMAIN infos /\ Alike(c.infos[id], infos[id])
           \/ Alike(c.infos[id], NewInfo(content))
  BY <1>1, <1>2, CreateListed DEF Insert
<1>4. AllSettled(c.infos)
  <2> SUFFICES ASSUME NEW id \in DOMAIN c.infos
               PROVE  Fair(c.infos[id]) /\ DeadDown(c.infos[id]) /\ Settled(c.infos[id])
    BY DEF AllSettled
  <2>1. NexthopsUp(content)
    BY DEF Insert
  <2>2. Fair(NewInfo(content)) /\ DeadDown(NewInfo(content)) /\ Settled(NewInfo(content))
    BY <2>1, <1>2, NewInfoMeans
  <2> HIDE DEF c
  <2>3. CASE id \in DOMAIN infos /\ Alike(c.infos[id], infos[id])
    BY <2>3, <1>1, AlikeMeans DEF AllSettled
  <2>4. CASE Alike(c.infos[id], NewInfo(content))
    BY <2>2, <2>4, AlikeMeans
  <2>5. QED
    BY <2>3, <2>4, <1>3
<1>5. \/ Drop(c)
      \/ /\ ~match /\ known
         /\ Becomes(c, [aliases EXCEPT ![i] = new], Release(c.infos, old), Released(c.infos, old))
      \/ /\ ~match
         /\ \/ Becomes(c, InsertAt(aliases, i, new), c.infos, 0)
            \/ Becomes(c, InsertAt(aliases, e, new), c.infos, 0)
  BY DEF Insert, Place
<1> HIDE DEF c
<1>6. /\ aliases \in Seq(Alias) /\ Table(c.infos) /\ SortedBy(aliases, c.infos)
      /\ \A j \in DOMAIN aliases : aliases[j].id \in DOMAIN c.infos
  BY <1>3 DEF Listed, Held
<1>7. \A id \in DOMAIN c.infos : id \in Nat /\ c.infos[id].prio \in Nat
  BY <1>6 DEF Table, InfoType
<1>8. prio \in Nat /\ new \in Alias /\ new.id = c.id /\ new.tos = tos /\ Len(aliases) \in Nat /\ DOMAIN aliases = 1..Len(aliases)
  BY <1>2, <1>3, <1>6, <1>7 DEF Content, Alias
<1>9. /\ i \in 1..Len(aliases) + 1
      /\ \A j \in 1..i - 1 : aliases[j].tos > tos \/ (aliases[j].tos = tos /\ c.infos[aliases[j].id].prio < prio)
      /\ \A j \in i..Len(aliases) : Behind(aliases, c.infos, j, tos, prio)
  BY <1>2, <1>6, <1>7, <1>8, AliasFound
<1> HIDE DEF i, new
<1>10. /\ e \in i..Len(aliases) + 1 /\ ~SameKey(c.infos, e, tos, prio)
       /\ \A j \in i..e - 1 : SameKey(c.infos, j, tos, prio)
  BY <1>6, <1>9, KeyEnds
<1> HIDE DEF e
<1>11. i \in Nat /\ e \in Nat
  BY <1>8, <1>9, <1>10
<1>12. \A j \in DOMAIN aliases : aliases[j].tos \in Nat /\ c.infos[aliases[j].id].prio \in Nat
  BY <1>6, <1>7, AliasOf
\* The alias at the end of the key is of a lower one, and so are those after it.
<1>13. ASSUME NEW j \in e..Len(aliases)
       PROVE  aliases[j].tos < tos \/ (aliases[j].tos = tos /\ c.infos[aliases[j].id].prio > prio)
  <2>1. j \in DOMAIN aliases /\ e \in DOMAIN aliases /\ e \in i..Len(aliases) /\ j \in Nat
    BY <1>8, <1>9, <1>10, <1>11
  <2>2. aliases[e].tos # tos \/ c.infos[aliases[e].id].prio # prio
    BY <1>10, <2>1 DEF SameKey
  <2>3. aliases[e].tos < tos \/ (aliases[e].tos = tos /\ c.infos[aliases[e].id].prio >= prio)
    BY <1>9, <2>1 DEF Behind
  <2>4. /\ aliases[e].tos \in Nat /\ c.infos[aliases[e].id].prio \in Nat
        /\ aliases[j].tos \in Nat /\ c.infos[aliases[j].id].prio \in Nat
    BY <1>12, <2>1
  <2>5. /\ aliases[e].tos >= aliases[j].tos
        /\ aliases[e].tos = aliases[j].tos => c.infos[aliases[e].id].prio <= c.infos[aliases[j].id].prio
    <3>1. CASE j = e
      BY <3>1, <2>4
    <3>2. CASE e < j
      BY <3>2, <2>1, <1>6 DEF SortedBy
    <3>3. QED
      BY <3>1, <3>2, <2>1, <1>11
  <2>6. tos \in Nat /\ prio \in Nat
    BY <1>2, <1>8
  <2> HIDE DEF prio
  <2>7. QED
    BY <2>2, <2>3, <2>4, <2>5, <2>6, FollowsStrictly, SMTT(30)
\* Only an alias of the key can be the new one, and match looked at those.
<1>14. ASSUME ~match, NEW j \in 1..Len(aliases) PROVE aliases[j] # new
  <2> SUFFICES ASSUME aliases[j] = new PROVE FALSE
    OBVIOUS
  <2>1. aliases[j].tos = tos /\ c.infos[aliases[j].id].prio = prio
    BY <1>3, <1>8
  <2>2. ~ (j < i)
    <3> SUFFICES ASSUME j < i PROVE FALSE
      OBVIOUS
    <3>1. j \in 1..i - 1
      BY <1>11
    <3>2. aliases[j].tos > tos \/ (aliases[j].tos = tos /\ c.infos[aliases[j].id].prio < prio)
      BY <3>1, <1>9
    <3>3. QED
      BY <3>2, <2>1, <1>2, <1>8
  <2>3. ~ (j >= e)
    <3> SUFFICES ASSUME j >= e PROVE FALSE
      OBVIOUS
    <3>1. j \in e..Len(aliases)
      BY <1>8, <1>11
    <3>2. aliases[j].tos < tos \/ (aliases[j].tos = tos /\ c.infos[aliases[j].id].prio > prio)
      BY <3>1, <1>13
    <3>3. QED
      BY <3>2, <2>1, <1>2, <1>8
  <2>4. j \in i..e - 1 /\ i \in i..e - 1
    BY <2>2, <2>3, <1>8, <1>11
  <2>5. known
    BY <2>4, <1>10
  <2>6. QED
    BY <2>4, <2>5, <1>14
<1>15. CASE Drop(c)
  <2> DEFINE u == Release(c.infos, c.id)
  <2>1. /\ aliases' = aliases /\ infos' = u /\ cnt' = c.cnt - Released(c.infos, c.id)
        /\ UNCHANGED <<state, sync>>
    BY <1>15 DEF Drop, Becomes
  <2>2. /\ Listed(aliases, u, c.cnt - Released(c.infos, c.id), {})
        /\ \A id \in DOMAIN u : id \in DOMAIN c.infos /\ Alike(u[id], c.infos[id])
    BY <1>3, ReleaseListed
  <2> HIDE DEF u
  <2>3. AllSettled(u)
    BY <1>4, <2>2, AlikeSettled
  <2>4. QED
    BY <1>1, <2>1, <2>2, <2>3, SettledStep
<1>16. CASE /\ ~match /\ known
            /\ Becomes(c, [aliases EXCEPT ![i] = new], Release(c.infos, old), Released(c.infos, old))
  <2> DEFINE u == Release(c.infos, old)
             l == [aliases EXCEPT ![i] = new]
  <2>1. /\ aliases' = l /\ infos' = u /\ cnt' = c.cnt - Released(c.infos, old)
        /\ UNCHANGED <<state, sync>>
    BY <1>16 DEF Becomes
  <2>2. i \in 1..Len(aliases) /\ aliases[i].tos = tos /\ c.infos[old].prio = prio
    BY <1>8, <1>16 DEF SameKey
  <2> HIDE DEF u, l, known, match, old
  <2>3. old \in DOMAIN c.infos /\ Listed(l, c.infos, c.cnt, {old})
    BY <1>3, <1>8, <1>14, <1>16, <2>2, ReplaceListed DEF l, old
  <2>4. /\ Listed(l, u, c.cnt - Released(c.infos, old), {})
        /\ \A id \in DOMAIN u : id \in DOMAIN c.infos /\ Alike(u[id], c.infos[id])
    BY <2>3, ReleaseListed DEF u
  <2>5. AllSettled(u)
    BY <1>4, <2>4, AlikeSettled
  <2>6. QED
    BY <1>1, <2>1, <2>4, <2>5, SettledStep
<1>17. ASSUME ~match, NEW p \in {i, e}, Becomes(c, InsertAt(aliases, p, new), c.infos, 0)
       PROVE  IInv'
  <2>1. /\ aliases' = InsertAt(aliases, p, new) /\ infos' = c.infos /\ cnt' = c.cnt - 0
        /\ UNCHANGED <<state, sync>>
    BY <1>17 DEF Becomes
  <2>2. c.cnt - 0 = c.cnt
    <3>1. c.cnt \in Nat
      BY <1>3, FS_CardinalityType DEF Listed, Table
    <3>2. QED
      BY <3>1
  <2>3. p \in 1..Len(aliases) + 1
    BY <1>8, <1>9, <1>10, <1>11
  <2>4. ASSUME NEW j \in 1..p - 1 PROVE Ahead(aliases, c.infos, j, tos, prio)
    <3>1. j \in DOMAIN aliases /\ aliases[j].tos \in Nat /\ c.infos[aliases[j].id].prio \in Nat
      BY <2>3, <1>8, <1>12
    <3>2. CASE j < i
      <4>1. j \in 1..i - 1
        BY <3>2, <1>11
      <4>2. aliases[j].tos > tos \/ (aliases[j].tos = tos /\ c.infos[aliases[j].id].prio < prio)
        BY <4>1, <1>9
      <4>3. QED
        BY <4>2, <3>1, <1>8 DEF Ahead
    <3>3. CASE j >= i
      <4>1. j \in i..e - 1
        BY <3>3, <1>11
      <4>2. aliases[j].tos = tos /\ c.infos[aliases[j].id].prio = prio
        BY <4>1, <1>10 DEF SameKey
      <4>3. QED
        BY <4>2, <1>8 DEF Ahead
    <3>4. QED
      BY <3>2, <3>3, <1>11
  <2>5. ASSUME NEW j \in p..Len(aliases) PROVE Behind(aliases, c.infos, j, tos, prio)
    <3>1. j \in i..Len(aliases)
      BY <1>10, <1>11
    <3>2. QED
      BY <3>1, <1>9
  <2> HIDE DEF match
  <2>6. Listed(InsertAt(aliases, p, new), c.infos, c.cnt, {})
    BY <2>3, <2>4, <2>5, <1>3, <1>8, <1>14, <1>17, InsertListed
  <2>7. QED
    BY <1>1, <1>4, <2>1, <2>2, <2>6, SettledStep
<1>18. QED
  BY <1>5, <1>15, <1>16, <1>17

\* fib_table_delete.
LEMMA DeleteKept ==
  ASSUME IInv, NEW tos \in Toses, NEW del \in Contents, Delete(tos, del)
  PROVE  IInv'
<1> DEFINE Hit == {j \in DOMAIN aliases : aliases[j].tos = tos /\ fib_nh_match(del, infos[aliases[j].id])}
           i == Min(Hit)
           x == aliases[i].id
           m == RemoveAt(aliases, i)
           u == Release(infos, x)
<1>1. sync = Done /\ Listed(aliases, infos, cnt, {}) /\ AllSettled(infos)
  BY DEF Delete, IInv, SyncSound, AllSettled
<1>2. /\ Hit # {} /\ aliases' = m /\ infos' = u /\ cnt' = cnt - Released(infos, x)
      /\ UNCHANGED <<state, sync>>
  BY DEF Delete
<1>3. /\ aliases \in Seq(Alias) /\ Table(infos) /\ SortedBy(aliases, infos) /\ cnt = Cardinality(DOMAIN infos)
      /\ \A j \in DOMAIN aliases : aliases[j].id \in DOMAIN infos
      /\ \A id \in DOMAIN infos : infos[id].ref = Cardinality(Uses(aliases, id)) + 0 /\ infos[id].ref > 0
      /\ \A id, id2 \in DOMAIN infos : ContentOf(infos[id]) = ContentOf(infos[id2]) => id = id2
  <2>1. \A id : id \notin {}
    OBVIOUS
  <2>2. QED
    BY <1>1, <2>1 DEF Listed, Held
<1>4. DOMAIN aliases = 1..Len(aliases) /\ Len(aliases) \in Nat
  BY <1>3
<1>5. i \in DOMAIN aliases
  <2>1. Hit \subseteq Nat
    BY <1>4
  <2>2. i \in Hit
    BY <2>1, <1>2, LeastOf
  <2>3. QED
    BY <2>2
<1> HIDE DEF Hit, i
<1>6. x \in DOMAIN infos
  BY <1>3, <1>5
<1>7. m \in Seq(Alias) /\ \E f : Keeps(aliases, m, f, 1..Len(aliases) \ {i})
  BY <1>3, <1>4, <1>5, RemoveKeeps
<1> HIDE DEF m, u, x
<1>8. PICK f : Keeps(aliases, m, f, 1..Len(aliases) \ {i})
  BY <1>7
<1>9. \A id : /\ Cardinality(Uses(m, id)) = Cardinality(Uses(aliases, id) \ {i})
              /\ IsFiniteSet(Uses(aliases, id)) /\ Cardinality(Uses(aliases, id)) \in Nat
  <2> SUFFICES ASSUME NEW id
               PROVE  /\ Cardinality(Uses(m, id)) = Cardinality(Uses(aliases, id) \ {i})
                      /\ IsFiniteSet(Uses(aliases, id)) /\ Cardinality(Uses(aliases, id)) \in Nat
    OBVIOUS
  <2>1. Uses(aliases, id) \cap (1..Len(aliases) \ {i}) = Uses(aliases, id) \ {i}
    BY <1>4 DEF Uses
  <2>2. QED
    BY <2>1, <1>3, <1>7, <1>8, KeepsUses, UsesFinite
<1>10. Listed(m, infos, cnt, {x})
  <2>1. \A j \in DOMAIN m : m[j].id \in DOMAIN infos
    <3> SUFFICES ASSUME NEW j \in DOMAIN m PROVE m[j].id \in DOMAIN infos
      OBVIOUS
    <3>1. j \in 1..Len(m)
      BY <1>7
    <3>2. f[j] \in DOMAIN aliases /\ m[j] = aliases[f[j]]
      BY <3>1, <1>4, <1>8 DEF Keeps
    <3>3. QED
      BY <3>2, <1>3
  <2>2. ASSUME NEW id \in DOMAIN infos
        PROVE  infos[id].ref = Cardinality(Uses(m, id)) + (IF id \in {x} THEN 1 ELSE 0) /\ infos[id].ref > 0
    <3>1. i \in Uses(aliases, id) <=> id = x
      BY <1>5 DEF Uses, x
    <3>2. Cardinality(Uses(m, id)) = IF id = x THEN Cardinality(Uses(aliases, id)) - 1 ELSE Cardinality(Uses(aliases, id))
      BY <3>1, <1>9, FS_RemoveElement
    <3>3. QED
      BY <3>2, <1>3, <1>9
  <2>3. SortedBy(m, infos)
    BY <1>3, <1>7, <1>8, KeepsSorted
  <2>4. Held(m, infos, {x})
    BY <2>1, <2>2, <1>3 DEF Held
  <2>5. QED
    BY <2>3, <2>4, <1>3, <1>7 DEF Listed
<1>11. /\ Listed(m, u, cnt - Released(infos, x), {})
       /\ \A id \in DOMAIN u : id \in DOMAIN infos /\ Alike(u[id], infos[id])
  BY <1>6, <1>10, ReleaseListed DEF u
<1>12. AllSettled(u)
  BY <1>1, <1>11, AlikeSettled
<1>13. QED
  BY <1>1, <1>2, <1>11, <1>12, SettledStep

----------------------------------------------------------------------------
(* One fib_info changes. *)

LEMMA ListedKept ==
  ASSUME NEW l, NEW t, NEW n, NEW X, Listed(l, t, n, X),
         NEW u, DOMAIN u = DOMAIN t, u \in [DOMAIN t -> InfoType],
         \A id \in DOMAIN t : u[id].ref = t[id].ref /\ ContentOf(u[id]) = ContentOf(t[id])
  PROVE  Listed(l, u, n, X)
<1>1. \A fi : ContentOf(fi).prio = fi.prio
  BY DEF ContentOf
<1>2. \A id \in DOMAIN t : u[id].prio = t[id].prio
  <2> SUFFICES ASSUME NEW id \in DOMAIN t PROVE u[id].prio = t[id].prio
    OBVIOUS
  <2>1. ContentOf(u[id]) = ContentOf(t[id])
    OBVIOUS
  <2>2. ContentOf(u[id]).prio = u[id].prio /\ ContentOf(t[id]).prio = t[id].prio
    BY <1>1
  <2>3. QED
    BY <2>1, <2>2, Zenon
<1>3. Held(l, u, X)
  BY DEF Listed, Held
<1>4. SortedBy(l, u)
  BY <1>2, SortedKept DEF Listed, Held
<1>5. Table(u)
  BY DEF Listed, Table
<1>6. QED
  BY <1>3, <1>4, <1>5 DEF Listed

LEMMA OneChanged ==
  ASSUME NEW l, NEW t, NEW n, NEW X, Listed(l, t, n, X), NEW id \in DOMAIN t,
         NEW g \in InfoType, g.ref = t[id].ref, ContentOf(g) = ContentOf(t[id])
  PROVE  LET u == [t EXCEPT ![id] = g] IN
         /\ Listed(l, u, n, X) /\ DOMAIN u = DOMAIN t
         /\ \A x \in DOMAIN t : u[x] = IF x = id THEN g ELSE t[x]
<1> DEFINE u == [t EXCEPT ![id] = g]
<1>1. t \in [DOMAIN t -> InfoType]
  BY DEF Listed, Table
<1>2. DOMAIN u = DOMAIN t /\ u \in [DOMAIN t -> InfoType] /\ \A x \in DOMAIN t : u[x] = IF x = id THEN g ELSE t[x]
  BY <1>1
<1> HIDE DEF u
<1>3. \A x \in DOMAIN t : u[x].ref = t[x].ref /\ ContentOf(u[x]) = ContentOf(t[x])
  BY <1>2
<1>4. Listed(l, u, n, X)
  BY <1>2, <1>3, ListedKept
<1>5. QED
  BY <1>2, <1>4 DEF u

\* The power of the nexthops, one after the other.
Powers(fi) == [i \in 1..Len(fi.hops) |-> fi.hops[i].power]

LEMMA PowersOf ==
  ASSUME NEW fi \in InfoType
  PROVE  /\ fi.hops \in Seq(Hop) /\ Len(fi.hops) \in Nat /\ DOMAIN fi.hops = 1..Len(fi.hops)
         /\ \A i \in DOMAIN fi.hops : fi.hops[i] \in Hop
         /\ Powers(fi) \in Seq(Nat) /\ Powers(fi) \in Seq(Int) /\ Len(Powers(fi)) = Len(fi.hops)
         /\ \A i \in 1..Len(fi.hops) : Powers(fi)[i] = fi.hops[i].power
         /\ PowerOf(fi, DOMAIN fi.hops) = Total(Powers(fi))
<1> DEFINE n == Powers(fi)
<1>1. fi.hops \in Seq(Hop)
  BY DEF InfoType
<1>2. Len(fi.hops) \in Nat /\ DOMAIN fi.hops = 1..Len(fi.hops)
  BY <1>1
<1>3. \A i \in DOMAIN fi.hops : fi.hops[i] \in Hop
  BY <1>1, ElementOf, Zenon
<1>4. \A i \in 1..Len(fi.hops) : fi.hops[i].power \in Nat
  BY <1>2, <1>3 DEF Hop
<1>5. n \in [1..Len(fi.hops) -> Nat]
  BY <1>4 DEF Powers
<1>6. n \in Seq(Nat)
  BY <1>2, <1>5, SeqDef
<1>7. n \in Seq(Int)
  BY <1>6, SeqMonotonic, Nat \subseteq Int
<1>8. Len(n) = Len(fi.hops)
  BY <1>2, <1>5, <1>6
<1>9. n = [i \in DOMAIN fi.hops |-> IF i \in DOMAIN fi.hops THEN fi.hops[i].power ELSE 0]
  BY <1>2 DEF Powers
<1>10. PowerOf(fi, DOMAIN fi.hops) = Total(n)
  BY <1>9 DEF PowerOf
<1>11. \A i \in 1..Len(fi.hops) : n[i] = fi.hops[i].power
  BY DEF Powers
<1>12. QED
  BY <1>1, <1>2, <1>3, <1>6, <1>7, <1>8, <1>10, <1>11

\* fi with another hop h at i and the power p.
WithHop(fi, i, h, p) == [fi EXCEPT !.power = p, !.hops = [fi.hops EXCEPT ![i] = h]]

LEMMA WithHopMeans ==
  ASSUME NEW fi \in InfoType, NEW i \in DOMAIN fi.hops, NEW h \in Hop, NEW p \in Int,
         h.dev = fi.hops[i].dev, h.gw = fi.hops[i].gw, h.weight = fi.hops[i].weight
  PROVE  LET g == WithHop(fi, i, h, p) IN
         /\ g \in InfoType /\ ContentOf(g) = ContentOf(fi)
         /\ g.local = fi.local /\ g.dead = fi.dead /\ g.ref = fi.ref /\ g.power = p
         /\ DOMAIN g.hops = DOMAIN fi.hops
         /\ \A j \in DOMAIN fi.hops : g.hops[j] = IF j = i THEN h ELSE fi.hops[j]
         /\ PowerOf(g, DOMAIN g.hops) = PowerOf(fi, DOMAIN fi.hops) + h.power - fi.hops[i].power
<1> DEFINE g == WithHop(fi, i, h, p)
           hs == [fi.hops EXCEPT ![i] = h]
<1>1. fi.hops \in Seq(Hop) /\ DOMAIN fi.hops = 1..Len(fi.hops) /\ Len(fi.hops) \in Nat
  BY PowersOf
<1>2. /\ hs \in Seq(Hop) /\ DOMAIN hs = DOMAIN fi.hops /\ Len(hs) = Len(fi.hops)
      /\ \A j \in DOMAIN fi.hops : hs[j] = IF j = i THEN h ELSE fi.hops[j]
  BY <1>1
<1>3. g = [fi EXCEPT !.power = p, !.hops = hs]
  BY DEF WithHop
<1> HIDE DEF hs, g
<1>4. /\ g.prio = fi.prio /\ g.local = fi.local /\ g.dead = fi.dead /\ g.ref = fi.ref
      /\ g.power = p /\ g.hops = hs /\ g \in InfoType
  BY <1>2, <1>3 DEF InfoType
<1>5. \A j \in DOMAIN fi.hops :
        g.hops[j].dev = fi.hops[j].dev /\ g.hops[j].gw = fi.hops[j].gw /\ g.hops[j].weight = fi.hops[j].weight
  BY <1>2, <1>4
<1>6. ContentOf(g) = ContentOf(fi)
  <2>1. [j \in DOMAIN g.hops |-> [dev |-> g.hops[j].dev, gw |-> g.hops[j].gw, weight |-> g.hops[j].weight]]
        = [j \in DOMAIN fi.hops |-> [dev |-> fi.hops[j].dev, gw |-> fi.hops[j].gw, weight |-> fi.hops[j].weight]]
    BY <1>2, <1>4, <1>5
  <2>2. QED
    BY <2>1, <1>4 DEF ContentOf
<1>7. PowerOf(g, DOMAIN g.hops) = PowerOf(fi, DOMAIN fi.hops) + h.power - fi.hops[i].power
  <2>1. /\ Powers(fi) \in Seq(Int) /\ Len(Powers(fi)) = Len(fi.hops)
        /\ \A j \in 1..Len(fi.hops) : Powers(fi)[j] = fi.hops[j].power
        /\ PowerOf(fi, DOMAIN fi.hops) = Total(Powers(fi))
    BY PowersOf
  <2>2. /\ Powers(g) \in Seq(Int) /\ Len(Powers(g)) = Len(g.hops)
        /\ \A j \in 1..Len(g.hops) : Powers(g)[j] = g.hops[j].power
        /\ PowerOf(g, DOMAIN g.hops) = Total(Powers(g))
    BY <1>4, PowersOf
  <2>3. Len(g.hops) = Len(fi.hops) /\ i \in 1..Len(fi.hops)
    BY <1>1, <1>2, <1>4
  <2>4. Powers(g)[i] = h.power /\ Powers(fi)[i] = fi.hops[i].power
    BY <2>1, <2>2, <2>3, <1>1, <1>2, <1>4
  <2>5. \A j \in 1..Len(Powers(fi)) : j # i => Powers(fi)[j] = Powers(g)[j]
    BY <2>1, <2>2, <2>3, <1>1, <1>2, <1>4, ZenonT(40)
  <2>6. Total(Powers(g)) = Total(Powers(fi)) + Powers(g)[i] - Powers(fi)[i]
    BY <2>1, <2>2, <2>3, <2>5, TotalChanges
  <2>7. QED
    BY <2>1, <2>2, <2>4, <2>6
<1>8. QED
  BY <1>2, <1>4, <1>6, <1>7 DEF g

----------------------------------------------------------------------------
(* Devices. *)

LEMMA SyncNotDone ==
  ASSUME NEW s \in SyncType
  PROVE  s # Done
<1>1. "force" \in DOMAIN s /\ "force" \notin DOMAIN Done
  BY DEF SyncType, Done
<1>2. QED
  BY <1>1

\* While a device is being taken down one fib_info changes to g.
LEMMA SyncingStep ==
  ASSUME IInv, sync # Done, UNCHANGED <<aliases, cnt, state>>,
         NEW id \in DOMAIN infos, NEW g \in InfoType, infos' = [infos EXCEPT ![id] = g],
         g.ref = infos[id].ref, ContentOf(g) = ContentOf(infos[id]), DOMAIN g.hops = DOMAIN infos[id].hops,
         Fair(g), DeadDown(g), NoneDown(g, sync.dev),
         sync' \in SyncType, sync'.dev = sync.dev,
         sync'.left \subseteq sync.left, sync.left \subseteq sync'.left \cup {id},
         sync'.hop = <<0, 0>> \/ (sync'.hop[1] \in sync'.left /\ sync'.hop[2] \in DOMAIN infos[sync'.hop[1]].hops),
         \A i \in DOMAIN g.hops : g.hops[i].dead /\ sync'.hop # <<id, i>> => g.hops[i].power = 0,
         \A x, i : x # id /\ sync'.hop # <<x, i>> /\ x \in DOMAIN infos /\ i \in DOMAIN infos[x].hops => sync.hop # <<x, i>>,
         id \in sync'.left \/ g.dead \/ g.local \/ \A i \in HopsOn(g, sync.dev) : g.hops[i].dead
  PROVE  IInv'
<1>1. aliases' = aliases /\ cnt' = cnt /\ state' = state
  OBVIOUS
<1>2. Listed(aliases, infos, cnt, {})
  BY DEF IInv
<1>3. /\ Listed(aliases, infos', cnt, {}) /\ DOMAIN infos' = DOMAIN infos
      /\ \A x \in DOMAIN infos : infos'[x] = IF x = id THEN g ELSE infos[x]
  BY <1>2, OneChanged
<1>4. sync' # Done
  BY SyncNotDone
<1>5. /\ state[sync.dev] # "up" /\ sync.left \subseteq DOMAIN infos
      /\ \A x \in DOMAIN infos :
           /\ NoneDown(infos[x], sync.dev)
           /\ \A i \in DOMAIN infos[x].hops :
                infos[x].hops[i].dead /\ sync.hop # <<x, i>> => infos[x].hops[i].power = 0
           /\ \/ x \in sync.left \/ infos[x].dead \/ infos[x].local
              \/ \A i \in HopsOn(infos[x], sync.dev) : infos[x].hops[i].dead
  BY DEF IInv, SyncSound
<1>6. \A x \in DOMAIN infos' : Fair(infos'[x])
  BY <1>3 DEF IInv
<1>7. \A x \in DOMAIN infos' : DeadDown(infos[x])'
  <2>1. \A x \in DOMAIN infos' : DeadDown(infos'[x])
    BY <1>3 DEF IInv
  <2>2. QED
    BY <1>1, <2>1 DEF DeadDown
<1>8. state'[sync'.dev] # "up" /\ sync'.left \subseteq DOMAIN infos'
  BY <1>1, <1>3, <1>5
<1>9. sync'.hop = <<0, 0>> \/ (sync'.hop[1] \in sync'.left /\ sync'.hop[2] \in DOMAIN infos'[sync'.hop[1]].hops)
  BY <1>3, <1>8
<1>10. ASSUME NEW x \in DOMAIN infos'
       PROVE  /\ NoneDown(infos'[x], sync'.dev)
              /\ \A i \in DOMAIN infos'[x].hops :
                   infos'[x].hops[i].dead /\ sync'.hop # <<x, i>> => infos'[x].hops[i].power = 0
              /\ \/ x \in sync'.left \/ infos'[x].dead \/ infos'[x].local
                 \/ \A i \in HopsOn(infos'[x], sync'.dev) : infos'[x].hops[i].dead
  <2>1. CASE x = id
    <3>1. infos'[x] = g
      BY <2>1, <1>3
    <3>2. QED
      BY <2>1, <3>1
  <2>2. CASE x # id
    <3>1. infos'[x] = infos[x] /\ x \in DOMAIN infos
      BY <2>2, <1>3
    <3>2. ASSUME NEW i \in DOMAIN infos[x].hops, infos[x].hops[i].dead, sync'.hop # <<x, i>>
          PROVE  infos[x].hops[i].power = 0
      <4>1. sync.hop # <<x, i>>
        BY <3>1, <3>2, <2>2
      <4>2. QED
        BY <4>1, <3>1, <3>2, <1>5
    <3>3. QED
      BY <2>2, <3>1, <3>2, <1>5
  <2>3. QED
    BY <2>1, <2>2
<1>11. SyncSound'
  <2>1. sync' # Done'
    BY <1>4 DEF Done
  <2>2. \A x \in DOMAIN infos' : NoneDown(infos[x], sync.dev)'
    BY <1>1, <1>10 DEF NoneDown
  <2>3. QED
    BY <2>1, <2>2, <1>8, <1>9, <1>10 DEF SyncSound, HopsOn
<1>12. QED
  BY <1>1, <1>3, <1>6, <1>7, <1>11 DEF IInv

\* A hop of a fib_info.
LEMMA InfoOfTable ==
  ASSUME IInv, NEW id \in DOMAIN infos
  PROVE  id \in Nat /\ infos[id] \in InfoType /\ Fair(infos[id]) /\ DeadDown(infos[id])
BY DEF IInv, Listed, Table

LEMMA MarkDeadKept ==
  ASSUME IInv, NEW id \in DOMAIN infos, MarkDead(id)
  PROVE  IInv'
<1> DEFINE fi == infos[id]
           i == Min(ToMark(id))
           h == [fi.hops[i] EXCEPT !.dead = TRUE]
           g == WithHop(fi, i, h, fi.power)
<1>1. /\ sync # Done /\ sync \in SyncType /\ sync.hop = <<0, 0>> /\ id \in sync.left /\ ToMark(id) # {}
      /\ infos' = [infos EXCEPT ![id].hops[i].dead = TRUE]
      /\ sync' = [sync EXCEPT !.hop = <<id, i>>]
      /\ UNCHANGED <<aliases, cnt, state>>
  BY DEF MarkDead, IInv
<1>2. id \in Nat /\ fi \in InfoType /\ Fair(fi) /\ DeadDown(fi)
  BY InfoOfTable
<1>3. DOMAIN fi.hops = 1..Len(fi.hops) /\ Len(fi.hops) \in Nat /\ \A j \in DOMAIN fi.hops : fi.hops[j] \in Hop
  BY <1>2, PowersOf
<1>4. i \in DOMAIN fi.hops /\ fi.hops[i].dev = sync.dev
  <2>1. ToMark(id) \subseteq HopsOn(fi, sync.dev) /\ HopsOn(fi, sync.dev) \subseteq DOMAIN fi.hops
    BY DEF ToMark, HopsOn
  <2>2. ToMark(id) \subseteq Nat
    BY <2>1, <1>3
  <2>3. i \in ToMark(id)
    BY <2>2, <1>1, LeastOf
  <2>4. QED
    BY <2>1, <2>3 DEF HopsOn
<1> HIDE DEF i, fi
<1>5. fi.hops[i] \in Hop
  BY <1>3, <1>4
<1>6. /\ h \in Hop /\ h.dev = fi.hops[i].dev /\ h.gw = fi.hops[i].gw /\ h.weight = fi.hops[i].weight
      /\ h.dead = TRUE /\ h.power = fi.hops[i].power /\ h.chosen = fi.hops[i].chosen /\ h.share = fi.hops[i].share
  BY <1>5 DEF Hop
<1>7. infos' = [infos EXCEPT ![id] = g]
  <2>1. infos' = [infos EXCEPT ![id] = [fi EXCEPT !.hops = [fi.hops EXCEPT ![i] = h]]]
    BY <1>1 DEF fi
  <2>2. [fi EXCEPT !.hops = [fi.hops EXCEPT ![i] = h]] = g
    BY <1>2 DEF WithHop, InfoType
  <2>3. QED
    BY <2>1, <2>2
<1> HIDE DEF h
<1>8. /\ g \in InfoType /\ ContentOf(g) = ContentOf(fi)
      /\ g.local = fi.local /\ g.dead = fi.dead /\ g.ref = fi.ref /\ g.power = fi.power
      /\ DOMAIN g.hops = DOMAIN fi.hops
      /\ \A j \in DOMAIN fi.hops : g.hops[j] = IF j = i THEN h ELSE fi.hops[j]
      /\ PowerOf(g, DOMAIN g.hops) = PowerOf(fi, DOMAIN fi.hops) + h.power - fi.hops[i].power
  <2>1. fi.power \in Int
    BY <1>2 DEF InfoType
  <2>2. QED
    BY <2>1, <1>2, <1>4, <1>6, WithHopMeans
<1> HIDE DEF g
<1>9. Fair(g)
  <2>1. fi.power \in Int /\ fi.hops[i].power \in Int
    BY <1>2, <1>5 DEF InfoType, Hop
  <2>2. PowerOf(g, DOMAIN g.hops) = g.power
    <3>1. fi.power = PowerOf(fi, DOMAIN fi.hops)
      BY <1>2 DEF Fair
    <3>2. QED
      BY <3>1, <2>1, <1>6, <1>8
  <2>3. QED
    BY <2>2, <1>2, <1>6, <1>8 DEF Fair
<1>10. state[sync.dev] # "up" /\ NoneDown(fi, sync.dev) /\ sync.left \subseteq DOMAIN infos
       /\ \A j \in DOMAIN fi.hops : fi.hops[j].dead /\ sync.hop # <<id, j>> => fi.hops[j].power = 0
  BY <1>1 DEF IInv, SyncSound, fi
<1>11. DeadDown(g)
  BY <1>2, <1>4, <1>6, <1>8, <1>10 DEF DeadDown
<1>12. NoneDown(g, sync.dev)
  BY <1>4, <1>6, <1>8, <1>10 DEF NoneDown
<1>13. i \in Nat /\ i # 0 /\ \A x, j : j \in 1..Len(infos[x].hops) => <<x, j>> # <<0, 0>>
  BY <1>3, <1>4
<1>14. /\ sync' \in SyncType /\ sync'.dev = sync.dev /\ sync'.left = sync.left /\ sync'.hop = <<id, i>>
  BY <1>1, <1>2, <1>13 DEF SyncType
<1>15. \A j \in DOMAIN g.hops : g.hops[j].dead /\ sync'.hop # <<id, j>> => g.hops[j].power = 0
  <2> SUFFICES ASSUME NEW j \in DOMAIN g.hops, g.hops[j].dead, sync'.hop # <<id, j>>
               PROVE  g.hops[j].power = 0
    OBVIOUS
  <2>1. j # i /\ j \in DOMAIN fi.hops /\ g.hops[j] = fi.hops[j]
    BY <1>8, <1>14
  <2>2. sync.hop # <<id, j>>
    BY <2>1, <1>1, <1>3
  <2>3. QED
    BY <2>1, <2>2, <1>10
<1>16. \A x, j : x # id /\ sync'.hop # <<x, j>> /\ x \in DOMAIN infos /\ j \in DOMAIN infos[x].hops => sync.hop # <<x, j>>
  <2> SUFFICES ASSUME NEW x \in DOMAIN infos, NEW j \in DOMAIN infos[x].hops PROVE sync.hop # <<x, j>>
    OBVIOUS
  <2>1. DOMAIN infos[x].hops = 1..Len(infos[x].hops)
    BY InfoOfTable, PowersOf
  <2>2. QED
    BY <2>1, <1>1, <1>13
<1>17. g.ref = infos[id].ref /\ ContentOf(g) = ContentOf(infos[id]) /\ DOMAIN g.hops = DOMAIN infos[id].hops
  BY <1>8 DEF fi
<1>18. sync'.hop[1] \in sync'.left /\ sync'.hop[2] \in DOMAIN infos[sync'.hop[1]].hops
  BY <1>1, <1>4, <1>14 DEF fi
<1>19. QED
  BY <1>1, <1>7, <1>8, <1>9, <1>11, <1>12, <1>14, <1>15, <1>16, <1>17, <1>18, SyncingStep

LEMMA TakePowerKept ==
  ASSUME IInv, TakePower
  PROVE  IInv'
<1> DEFINE id == sync.hop[1]
           i == sync.hop[2]
           fi == infos[id]
           h == [fi.hops[i] EXCEPT !.power = 0, !.share = fi.hops[i].chosen]
           p == fi.power - fi.hops[i].power
           g == WithHop(fi, i, h, p)
<1>1. /\ sync # Done /\ sync \in SyncType /\ sync.hop # <<0, 0>>
      /\ infos' = [infos EXCEPT ![id] = [fi EXCEPT !.power = p, !.hops[i].power = 0, !.hops[i].share = fi.hops[i].chosen]]
      /\ sync' = [sync EXCEPT !.hop = <<0, 0>>]
      /\ UNCHANGED <<aliases, cnt, state>>
  <2>1. sync # Done /\ sync.hop # <<0, 0>> /\ (sync = Done \/ sync \in SyncType)
    BY DEF TakePower, IInv
  <2>2. infos' = [infos EXCEPT ![id] = [fi EXCEPT !.power = p, !.hops[i].power = 0, !.hops[i].share = fi.hops[i].chosen]]
    BY DEF TakePower
  <2>3. sync' = [sync EXCEPT !.hop = <<0, 0>>] /\ UNCHANGED <<aliases, cnt, state>>
    BY DEF TakePower
  <2>4. QED
    BY <2>1, <2>2, <2>3, Zenon
<1>2. /\ state[sync.dev] # "up" /\ sync.left \subseteq DOMAIN infos /\ id \in sync.left /\ i \in DOMAIN fi.hops
      /\ \A j \in DOMAIN fi.hops : fi.hops[j].dead /\ sync.hop # <<id, j>> => fi.hops[j].power = 0
      /\ NoneDown(fi, sync.dev)
  BY <1>1 DEF IInv, SyncSound
<1>3. id \in DOMAIN infos /\ infos \in [DOMAIN infos -> InfoType]
  BY <1>2 DEF IInv, Listed, Table
<1>4. id \in Nat /\ fi \in InfoType /\ Fair(fi) /\ DeadDown(fi)
  BY <1>3, InfoOfTable
<1>5. DOMAIN fi.hops = 1..Len(fi.hops) /\ Len(fi.hops) \in Nat /\ \A j \in DOMAIN fi.hops : fi.hops[j] \in Hop
  BY <1>4, PowersOf
<1>6. sync.hop = <<id, i>>
  <2>1. sync.hop \in Nat \X Nat
    BY <1>1 DEF SyncType
  <2>2. QED
    BY <2>1
<1> HIDE DEF id, i, fi
<1>7. fi.hops[i] \in Hop
  BY <1>2, <1>5
<1>8. /\ h \in Hop /\ h.dev = fi.hops[i].dev /\ h.gw = fi.hops[i].gw /\ h.weight = fi.hops[i].weight
      /\ h.dead = fi.hops[i].dead /\ h.power = 0 /\ h.chosen = fi.hops[i].chosen /\ h.share = fi.hops[i].chosen
      /\ h.chosen \in Nat
  BY <1>7 DEF Hop
<1>9. infos' = [infos EXCEPT ![id] = g]
  <2>1. fi.hops \in [DOMAIN fi.hops -> Hop]
    BY <1>5, <1>4, PowersOf
  <2>2. [fi EXCEPT !.power = p, !.hops[i].power = 0, !.hops[i].share = fi.hops[i].chosen] = g
    BY <1>2, <1>4, <1>7, <2>1 DEF WithHop, InfoType, Hop
  <2>3. QED
    BY <1>1, <2>2
<1> HIDE DEF h
<1>10. p \in Int /\ fi.power \in Int /\ fi.hops[i].power \in Int
  BY <1>4, <1>7 DEF InfoType, Hop
<1>11. /\ g \in InfoType /\ ContentOf(g) = ContentOf(fi)
       /\ g.local = fi.local /\ g.dead = fi.dead /\ g.ref = fi.ref /\ g.power = p
       /\ DOMAIN g.hops = DOMAIN fi.hops
       /\ \A j \in DOMAIN fi.hops : g.hops[j] = IF j = i THEN h ELSE fi.hops[j]
       /\ PowerOf(g, DOMAIN g.hops) = PowerOf(fi, DOMAIN fi.hops) + h.power - fi.hops[i].power
  BY <1>2, <1>4, <1>8, <1>10, WithHopMeans
<1> HIDE DEF g
<1>12. Fair(g)
  <2>1. PowerOf(g, DOMAIN g.hops) = g.power
    <3>1. fi.power = PowerOf(fi, DOMAIN fi.hops)
      BY <1>4 DEF Fair
    <3>2. QED
      BY <3>1, <1>8, <1>10, <1>11
  <2>2. QED
    BY <2>1, <1>4, <1>8, <1>11 DEF Fair
<1>13. DeadDown(g)
  BY <1>2, <1>4, <1>8, <1>11 DEF DeadDown
<1>14. NoneDown(g, sync.dev)
  BY <1>2, <1>8, <1>11 DEF NoneDown
<1>15. /\ sync' \in SyncType /\ sync'.dev = sync.dev /\ sync'.left = sync.left /\ sync'.hop = <<0, 0>>
  BY <1>1 DEF SyncType
<1>16. \A j \in DOMAIN g.hops : g.hops[j].dead /\ sync'.hop # <<id, j>> => g.hops[j].power = 0
  <2> SUFFICES ASSUME NEW j \in DOMAIN g.hops, g.hops[j].dead PROVE g.hops[j].power = 0
    OBVIOUS
  <2>1. CASE j = i
    BY <2>1, <1>2, <1>8, <1>11
  <2>2. CASE j # i
    <3>1. sync.hop # <<id, j>>
      BY <2>2, <1>6
    <3>2. QED
      BY <2>2, <3>1, <1>2, <1>11
  <2>3. QED
    BY <2>1, <2>2
<1>17. \A x, j : x # id => sync.hop # <<x, j>>
  BY <1>6
<1>18. g.ref = infos[id].ref /\ ContentOf(g) = ContentOf(infos[id]) /\ DOMAIN g.hops = DOMAIN infos[id].hops
  BY <1>11 DEF fi
<1>19. sync'.left \subseteq sync.left /\ sync.left \subseteq sync'.left \cup {id} /\ id \in sync'.left
  BY <1>2, <1>15
<1>20. sync'.hop = <<0, 0>> \/ (sync'.hop[1] \in sync'.left /\ sync'.hop[2] \in DOMAIN infos[sync'.hop[1]].hops)
  BY <1>15
<1>21. \A x, j : x # id /\ sync'.hop # <<x, j>> /\ x \in DOMAIN infos /\ j \in DOMAIN infos[x].hops => sync.hop # <<x, j>>
  BY <1>17
<1>22. id \in sync'.left \/ g.dead \/ g.local \/ \A j \in HopsOn(g, sync.dev) : g.hops[j].dead
  BY <1>19
<1>23. QED
  BY <1>1, <1>3, <1>9, <1>11, <1>12, <1>13, <1>14, <1>15, <1>16, <1>18, <1>19, <1>20, <1>21, <1>22, SyncingStep

LEMMA InfoDoneKept ==
  ASSUME IInv, NEW id \in DOMAIN infos, InfoDone(id)
  PROVE  IInv'
<1> DEFINE fi == infos[id]
           all == \A i \in DOMAIN fi.hops : fi.hops[i].dead
           g == [fi EXCEPT !.dead = fi.dead \/ sync.force > 1 \/ all]
<1>1. /\ sync # Done /\ sync \in SyncType /\ sync.hop = <<0, 0>> /\ id \in sync.left /\ ToMark(id) = {}
      /\ infos' = [infos EXCEPT ![id] = g]
      /\ sync' = [sync EXCEPT !.left = @ \ {id}]
      /\ UNCHANGED <<aliases, cnt, state>>
  BY DEF InfoDone, IInv
<1>2. id \in Nat /\ fi \in InfoType /\ Fair(fi) /\ DeadDown(fi)
  BY InfoOfTable
<1>3. /\ NoneDown(fi, sync.dev) /\ sync.left \subseteq DOMAIN infos
      /\ \A j \in DOMAIN fi.hops : fi.hops[j].dead /\ sync.hop # <<id, j>> => fi.hops[j].power = 0
  BY <1>1 DEF IInv, SyncSound
<1>4. DOMAIN fi.hops = 1..Len(fi.hops) /\ Len(fi.hops) \in Nat
  BY <1>2, PowersOf
<1>5. /\ g \in InfoType /\ g.prio = fi.prio /\ g.local = fi.local /\ g.power = fi.power
      /\ g.ref = fi.ref /\ g.hops = fi.hops
      /\ g.dead <=> fi.dead \/ sync.force > 1 \/ all
  BY <1>2 DEF InfoType
<1>6. g.dead \/ g.local \/ \A i \in HopsOn(g, sync.dev) : g.hops[i].dead
  <2> SUFFICES ASSUME ~g.dead, ~g.local, NEW i \in HopsOn(g, sync.dev) PROVE g.hops[i].dead
    OBVIOUS
  <2>1. sync.force \in 0..2 /\ ~ (sync.force > 1) /\ ~fi.local /\ i \in HopsOn(fi, sync.dev)
    BY <1>1, <1>5 DEF SyncType, HopsOn
  <2>2. i \notin ToMark(id)
    BY <1>1
  <2>3. sync.force # 2
    BY <2>1
  <2>4. fi.hops[i].dead
    BY <2>1, <2>2, <2>3 DEF ToMark
  <2>5. QED
    BY <2>4, <1>5
<1> HIDE DEF g
<1>7. ContentOf(g) = ContentOf(fi)
  BY <1>5 DEF ContentOf
<1>8. Fair(g)
  <2>1. PowerOf(g, DOMAIN g.hops) = PowerOf(fi, DOMAIN fi.hops)
    BY <1>5 DEF PowerOf
  <2>2. QED
    BY <2>1, <1>2, <1>5 DEF Fair
<1>9. DeadDown(g) /\ NoneDown(g, sync.dev)
  BY <1>2, <1>3, <1>5 DEF DeadDown, NoneDown
<1>10. /\ sync' \in SyncType /\ sync'.dev = sync.dev /\ sync'.left = sync.left \ {id} /\ sync'.hop = <<0, 0>>
  BY <1>1 DEF SyncType
<1>11. \A j \in DOMAIN g.hops : g.hops[j].dead /\ sync'.hop # <<id, j>> => g.hops[j].power = 0
  <2> SUFFICES ASSUME NEW j \in DOMAIN g.hops, g.hops[j].dead PROVE g.hops[j].power = 0
    OBVIOUS
  <2>1. sync.hop # <<id, j>> /\ j \in DOMAIN fi.hops
    BY <1>1, <1>4, <1>5
  <2>2. QED
    BY <2>1, <1>3, <1>5
<1>12. \A x, j : sync'.hop # <<x, j>> => sync.hop # <<x, j>>
  BY <1>1, <1>10
<1>13. g.ref = infos[id].ref /\ ContentOf(g) = ContentOf(infos[id]) /\ DOMAIN g.hops = DOMAIN infos[id].hops
  BY <1>5, <1>7
<1>14. QED
  BY <1>1, <1>5, <1>6, <1>8, <1>9, <1>10, <1>11, <1>12, <1>13, SyncingStep

LEMMA DevDownKept ==
  ASSUME IInv, NEW dev \in Devices, NEW force \in 0..2, DevDown(dev, force)
  PROVE  IInv'
<1> DEFINE left == {id \in DOMAIN infos : HopsOn(infos[id], dev) # {}}
<1>1. /\ sync = Done
      /\ state' = [state EXCEPT ![dev] = IF force = 1 /\ state[dev] # "down" THEN "bare" ELSE "down"]
      /\ sync' = [dev |-> dev, force |-> force, hop |-> <<0, 0>>, left |-> left]
      /\ aliases' = aliases /\ infos' = infos /\ cnt' = cnt
  BY DEF DevDown
<1>2. /\ state \in [Devices -> {"up", "down", "bare"}] /\ Listed(aliases, infos, cnt, {})
      /\ \A id \in DOMAIN infos : Fair(infos[id]) /\ DeadDown(infos[id]) /\ Settled(infos[id])
  BY <1>1 DEF IInv, SyncSound
<1>3. /\ state' \in [Devices -> {"up", "down", "bare"}] /\ state'[dev] # "up"
      /\ \A d : d # dev => state'[d] = state[d]
  BY <1>1, <1>2
<1>4. left \subseteq Nat
  BY <1>2 DEF Listed, Table
<1>5. sync' \in SyncType
  BY <1>1, <1>4 DEF SyncType
<1>6. sync'.dev = dev /\ sync'.hop = <<0, 0>> /\ sync'.left = left
  BY <1>1
<1>7. \A id \in DOMAIN infos : DeadDown(infos[id])'
  BY <1>1, <1>2, <1>3 DEF DeadDown
<1>8. \A id \in DOMAIN infos : NoneDown(infos[id], sync.dev)'
  BY <1>1, <1>2, <1>3, <1>6 DEF NoneDown, Settled
<1>9. \A id \in DOMAIN infos : id \in left \/ \A i \in HopsOn(infos[id], dev) : infos[id].hops[i].dead
  OBVIOUS
<1>10. \A id \in DOMAIN infos : \A i \in DOMAIN infos[id].hops : infos[id].hops[i].dead => infos[id].hops[i].power = 0
  BY <1>2 DEF Settled
<1>11. sync' # Done'
  BY <1>5, SyncNotDone DEF Done
<1> HIDE DEF left
<1>12. SyncSound'
  BY <1>1, <1>3, <1>6, <1>8, <1>9, <1>10, <1>11 DEF SyncSound, HopsOn, left
<1>13. QED
  BY <1>1, <1>2, <1>3, <1>5, <1>7, <1>12 DEF IInv

LEMMA HopReset ==
  ASSUME NEW h \in Hop
  PROVE  LET r == [h EXCEPT !.dead = FALSE, !.power = 0, !.chosen = 0, !.share = 0] IN
         /\ r \in Hop /\ r.dev = h.dev /\ r.gw = h.gw /\ r.weight = h.weight
         /\ r.dead = FALSE /\ r.power = 0 /\ r.chosen = 0 /\ r.share = 0
BY DEF Hop

\* A device comes up.
LEMMA RevivedMeans ==
  ASSUME NEW fi \in InfoType, Fair(fi), Settled(fi), NEW dev \in Devices
  PROVE  LET g == Revived(fi, dev) IN
         /\ g \in InfoType /\ ContentOf(g) = ContentOf(fi) /\ g.ref = fi.ref
         /\ g.local = fi.local /\ g.dead = fi.dead /\ Fair(g)
         /\ DOMAIN g.hops = DOMAIN fi.hops
         /\ \A i \in DOMAIN fi.hops :
              /\ g.hops[i].dev = fi.hops[i].dev
              /\ g.hops[i].dead <=> fi.hops[i].dead /\ fi.hops[i].dev # dev
              /\ g.hops[i].power = fi.hops[i].power
<1> DEFINE g == Revived(fi, dev)
           hs == [i \in DOMAIN fi.hops |->
                    IF fi.hops[i].dead /\ fi.hops[i].dev = dev
                    THEN [fi.hops[i] EXCEPT !.dead = FALSE, !.power = 0, !.chosen = 0, !.share = 0]
                    ELSE fi.hops[i]]
<1>1. /\ fi.hops \in Seq(Hop) /\ DOMAIN fi.hops = 1..Len(fi.hops) /\ Len(fi.hops) \in Nat
      /\ \A i \in DOMAIN fi.hops : fi.hops[i] \in Hop
  BY PowersOf
<1>2. ASSUME NEW i \in DOMAIN fi.hops
      PROVE  /\ hs[i] \in Hop
             /\ hs[i].dev = fi.hops[i].dev /\ hs[i].gw = fi.hops[i].gw /\ hs[i].weight = fi.hops[i].weight
             /\ hs[i].dead <=> fi.hops[i].dead /\ fi.hops[i].dev # dev
             /\ hs[i].power = fi.hops[i].power /\ hs[i].chosen + hs[i].power = hs[i].share
  <2>1. fi.hops[i] \in Hop /\ (fi.hops[i].dead => fi.hops[i].power = 0)
        /\ fi.hops[i].chosen + fi.hops[i].power = fi.hops[i].share
    BY <1>1 DEF Settled, Fair
  <2>2. CASE fi.hops[i].dead /\ fi.hops[i].dev = dev
    <3>1. hs[i] = [fi.hops[i] EXCEPT !.dead = FALSE, !.power = 0, !.chosen = 0, !.share = 0]
      BY <2>2
    <3> HIDE DEF hs
    <3>2. /\ hs[i] \in Hop
          /\ hs[i].dev = fi.hops[i].dev /\ hs[i].gw = fi.hops[i].gw /\ hs[i].weight = fi.hops[i].weight
          /\ hs[i].dead = FALSE /\ hs[i].power = 0 /\ hs[i].chosen = 0 /\ hs[i].share = 0
      BY <2>1, <3>1, HopReset, ZenonT(40)
    <3>3. fi.hops[i].power = 0
      BY <2>1, <2>2
    <3>4. QED
      BY <2>2, <3>2, <3>3
  <2>3. CASE ~(fi.hops[i].dead /\ fi.hops[i].dev = dev)
    <3>1. hs[i] = fi.hops[i]
      BY <2>3
    <3> HIDE DEF hs
    <3>2. QED
      BY <2>1, <2>3, <3>1
  <2>4. QED
    BY <2>2, <2>3
<1>3. DOMAIN hs = 1..Len(fi.hops)
  BY <1>1
<1>4. hs \in Seq(Hop)
  <2>1. hs \in [1..Len(fi.hops) -> Hop]
    BY <1>1, <1>2
  <2>2. QED
    BY <2>1, <1>1, SeqDef
<1>5. g = [fi EXCEPT !.hops = hs]
  BY DEF Revived
<1> HIDE DEF hs, g
<1>6. /\ g \in InfoType /\ g.prio = fi.prio /\ g.local = fi.local /\ g.dead = fi.dead
      /\ g.power = fi.power /\ g.ref = fi.ref /\ g.hops = hs
  BY <1>4, <1>5 DEF InfoType
<1>7. ContentOf(g) = ContentOf(fi)
  <2>1. [j \in DOMAIN g.hops |-> [dev |-> g.hops[j].dev, gw |-> g.hops[j].gw, weight |-> g.hops[j].weight]]
        = [j \in DOMAIN fi.hops |-> [dev |-> fi.hops[j].dev, gw |-> fi.hops[j].gw, weight |-> fi.hops[j].weight]]
    BY <1>1, <1>2, <1>3, <1>6
  <2>2. QED
    BY <2>1, <1>6 DEF ContentOf
<1>8. PowerOf(g, DOMAIN g.hops) = PowerOf(fi, DOMAIN fi.hops)
  <2>1. [i \in DOMAIN g.hops |-> IF i \in DOMAIN g.hops THEN g.hops[i].power ELSE 0]
        = [i \in DOMAIN fi.hops |-> IF i \in DOMAIN fi.hops THEN fi.hops[i].power ELSE 0]
    BY <1>1, <1>2, <1>3, <1>6
  <2>2. QED
    BY <2>1 DEF PowerOf
<1>9. Fair(g)
  BY <1>1, <1>2, <1>3, <1>6, <1>8 DEF Fair
<1>10. QED
  BY <1>1, <1>2, <1>3, <1>6, <1>7, <1>9 DEF g

LEMMA SyncUpKept ==
  ASSUME IInv, NEW dev \in Devices, SyncUp(dev)
  PROVE  IInv'
<1>1. /\ sync = Done /\ sync' = sync /\ state' = [state EXCEPT ![dev] = "up"]
      /\ infos' = [id \in DOMAIN infos |-> Revived(infos[id], dev)]
      /\ aliases' = aliases /\ cnt' = cnt
  BY DEF SyncUp
<1>2. /\ state \in [Devices -> {"up", "down", "bare"}] /\ Listed(aliases, infos, cnt, {})
      /\ infos \in [DOMAIN infos -> InfoType]
      /\ \A id \in DOMAIN infos : Fair(infos[id]) /\ DeadDown(infos[id]) /\ Settled(infos[id])
  BY <1>1 DEF IInv, SyncSound, Listed, Table
<1>3. /\ state' \in [Devices -> {"up", "down", "bare"}] /\ state'[dev] = "up"
      /\ \A d : d # dev => state'[d] = state[d]
  BY <1>1, <1>2
<1>4. DOMAIN infos' = DOMAIN infos /\ \A id \in DOMAIN infos : infos'[id] = Revived(infos[id], dev)
  BY <1>1
<1>5. ASSUME NEW id \in DOMAIN infos
      PROVE  LET g == infos'[id] IN
             /\ g \in InfoType /\ ContentOf(g) = ContentOf(infos[id]) /\ g.ref = infos[id].ref
             /\ g.local = infos[id].local /\ g.dead = infos[id].dead /\ Fair(g)
             /\ DOMAIN g.hops = DOMAIN infos[id].hops
             /\ \A i \in DOMAIN infos[id].hops :
                  /\ g.hops[i].dev = infos[id].hops[i].dev
                  /\ g.hops[i].dead <=> infos[id].hops[i].dead /\ infos[id].hops[i].dev # dev
                  /\ g.hops[i].power = infos[id].hops[i].power
  <2>1. infos[id] \in InfoType /\ Fair(infos[id]) /\ Settled(infos[id])
    BY <1>2
  <2>2. QED
    BY <2>1, <1>4, RevivedMeans
<1>6. Listed(aliases, infos', cnt, {})
  <2>1. infos' \in [DOMAIN infos -> InfoType]
    <3>1. \A id \in DOMAIN infos : infos'[id] \in InfoType
      BY <1>5
    <3>2. infos' = [id \in DOMAIN infos |-> infos'[id]]
      BY <1>1
    <3>3. QED
      BY <3>1, <3>2
  <2>2. \A id \in DOMAIN infos : infos'[id].ref = infos[id].ref /\ ContentOf(infos'[id]) = ContentOf(infos[id])
    BY <1>5
  <2>3. QED
    BY <1>2, <1>4, <2>1, <2>2, ListedKept
<1>7. \A id \in DOMAIN infos' : Fair(infos'[id])
  BY <1>4, <1>5
<1>8. \A id \in DOMAIN infos' : DeadDown(infos[id])'
  BY <1>2, <1>3, <1>4, <1>5 DEF DeadDown
<1>9. \A id \in DOMAIN infos' : Settled(infos[id])'
  <2> SUFFICES ASSUME NEW id \in DOMAIN infos PROVE Settled(infos[id])'
    BY <1>4
  <2>1. Settled(infos[id])
    BY <1>2
  <2>2. ~infos'[id].dead /\ \A i \in DOMAIN infos'[id].hops : infos'[id].hops[i].dead => infos'[id].hops[i].power = 0
    BY <2>1, <1>5 DEF Settled
  <2>3. infos'[id].local \/ \A i \in DOMAIN infos'[id].hops : state'[infos'[id].hops[i].dev] = "down" => infos'[id].hops[i].dead
    BY <2>1, <1>3, <1>5 DEF Settled
  <2>4. QED
    BY <2>2, <2>3 DEF Settled
<1>10. SyncSound'
  <2>1. sync' = Done'
    BY <1>1 DEF Done
  <2>2. QED
    BY <2>1, <1>9 DEF SyncSound
<1>11. QED
  BY <1>1, <1>3, <1>6, <1>7, <1>8, <1>10 DEF IInv, Done

----------------------------------------------------------------------------
(* The flush. *)

LEMMA Appended ==
  ASSUME NEW m \in Seq(Alias), NEW a
  PROVE  /\ Len(m) \in Nat /\ Len(Append(m, a)) = Len(m) + 1 /\ Append(m, a)[Len(m) + 1] = a
         /\ \A j \in 1..Len(m) : Append(m, a)[j] = m[j]
OBVIOUS

\* trie_flush_list leaves the aliases of the other fib_infos, in their order.
LEMMA FlushKeeps ==
  ASSUME NEW l \in Seq(Alias), NEW Gone
  PROVE  LET m == trie_flush_list(l, Gone) IN
         m \in Seq(Alias) /\ \E f : Keeps(l, m, f, {k \in 1..Len(l) : l[k].id \notin Gone})
<1> DEFINE n == Len(l)
           Stay(i) == {k \in 1..i : l[k].id \notin Gone}
           Next1(s, i) == IF l[i].id \in Gone THEN s[i - 1] ELSE Append(s[i - 1], l[i])
           Lists(k) == {s \in [0..k -> Seq(Alias)] : s[0] = <<>> /\ \A i \in 1..k : s[i] = Next1(s, i)}
           Ok == {k \in 0..n : Lists(k) # {}}
<1>1. n \in Nat /\ DOMAIN l = 1..n /\ \A i \in 1..n : l[i] \in Alias
  BY AliasOf
<1>2. 0 \in Ok
  <2>1. [i \in 0..0 |-> <<>>] \in Lists(0)
    OBVIOUS
  <2> HIDE DEF Lists
  <2>2. QED
    BY <2>1, <1>1
<1>3. ASSUME NEW k \in 1..n, k - 1 \in Ok PROVE k \in Ok
  <2>1. PICK s \in [0..k - 1 -> Seq(Alias)] : s[0] = <<>> /\ \A i \in 1..k - 1 : s[i] = Next1(s, i)
    BY <1>3
  <2> DEFINE new == IF l[k].id \in Gone THEN s[k - 1] ELSE Append(s[k - 1], l[k])
             t == [i \in 0..k |-> IF i = k THEN new ELSE s[i]]
  <2>2. s[k - 1] \in Seq(Alias) /\ new \in Seq(Alias)
    BY <1>1
  <2> HIDE DEF new
  <2>3. t \in [0..k -> Seq(Alias)]
    BY <2>2
  <2>4. t[0] = <<>>
    BY <2>1
  <2>5. ASSUME NEW i \in 1..k PROVE t[i] = Next1(t, i)
    <3>1. t[i - 1] = s[i - 1]
      OBVIOUS
    <3>2. CASE i = k
      <4>1. t[i] = new
        BY <3>2
      <4> HIDE DEF t
      <4>2. QED
        BY <3>1, <3>2, <4>1 DEF new
    <3>3. CASE i # k
      <4>1. t[i] = s[i] /\ i \in 1..k - 1
        BY <3>3
      <4> HIDE DEF t
      <4>2. QED
        BY <3>1, <4>1, <2>1
    <3>4. QED
      BY <3>2, <3>3
  <2>6. t \in Lists(k)
    BY <2>3, <2>4, <2>5
  <2> HIDE DEF t, Lists
  <2>7. QED
    BY <2>6
<1>4. n \in Ok
  <2> HIDE DEF Ok, n
  <2>1. 0..n \subseteq Ok
    BY <1>1, <1>2, <1>3, AllUpTo
  <2>2. QED
    BY <1>1, <2>1
<1>5. PICK s \in [0..n -> Seq(Alias)] : s[0] = <<>> /\ \A i \in 1..n : s[i] = Next1(s, i)
  BY <1>4
<1> DEFINE Eq(t) == t = [i \in 0..n |-> IF i = 0 THEN <<>>
                                        ELSE IF l[i].id \in Gone THEN t[i - 1] ELSE Append(t[i - 1], l[i])]
           kept == CHOOSE t : Eq(t)
<1>6. Eq(s)
  <2>1. \A i \in 0..n : s[i] = IF i = 0 THEN <<>>
                                ELSE IF l[i].id \in Gone THEN s[i - 1] ELSE Append(s[i - 1], l[i])
    <3> SUFFICES ASSUME NEW i \in 0..n
                 PROVE  s[i] = IF i = 0 THEN <<>>
                               ELSE IF l[i].id \in Gone THEN s[i - 1] ELSE Append(s[i - 1], l[i])
      OBVIOUS
    <3>1. CASE i = 0
      BY <3>1, <1>5
    <3>2. CASE i # 0
      <4>1. i \in 1..n
        BY <3>2, <1>1
      <4>2. s[i] = Next1(s, i)
        BY <4>1, <1>5, Zenon
      <4>3. QED
        BY <3>2, <4>2, Zenon
    <3>3. QED
      BY <3>1, <3>2
  <2>2. s = [i \in 0..n |-> s[i]]
    OBVIOUS
  <2>3. QED
    BY <2>1, <2>2, Zenon
<1>7. Eq(kept)
  <2> HIDE DEF Eq
  <2>1. QED
    BY <1>6
<1>8. trie_flush_list(l, Gone) = kept[n]
  BY DEF trie_flush_list
<1>9. kept[0] = <<>> /\ \A i \in 1..n : kept[i] = Next1(kept, i)
  <2> HIDE DEF kept
  <2>1. \A i \in 0..n : kept[i] = IF i = 0 THEN <<>>
                                   ELSE IF l[i].id \in Gone THEN kept[i - 1] ELSE Append(kept[i - 1], l[i])
    BY <1>7, Zenon
  <2>2. 0 \in 0..n /\ \A i \in 1..n : i \in 0..n /\ i # 0
    BY <1>1
  <2>3. kept[0] = <<>>
    BY <2>1, <2>2, Zenon
  <2>4. ASSUME NEW i \in 1..n PROVE kept[i] = Next1(kept, i)
    BY <2>1, <2>2, Zenon
  <2>5. QED
    BY <2>3, <2>4
<1> HIDE DEF kept
<1> DEFINE Same == {i \in 0..n : kept[i] = s[i]}
<1>10. 0 \in Same
  BY <1>1, <1>5, <1>9
<1>11. \A i \in 1..n : i - 1 \in Same => i \in Same
  BY <1>1, <1>5, <1>9
<1>12. n \in Same
  <2> HIDE DEF Same, n
  <2>1. 0..n \subseteq Same
    BY <1>1, <1>10, <1>11, AllUpTo
  <2>2. QED
    BY <1>1, <2>1
<1>13. trie_flush_list(l, Gone) = s[n] /\ s[n] \in Seq(Alias)
  BY <1>1, <1>8, <1>12
<1> DEFINE Maps(i) == {f \in [1..Len(s[i]) -> Stay(i)] : Keeps(l, s[i], f, Stay(i))}
           Done1 == {i \in 0..n : Maps(i) # {}}
<1>14. 0 \in Done1
  <2> DEFINE f == [j \in 1..0 |-> 0]
  <2>1. Len(s[0]) = 0 /\ Stay(0) = {} /\ f \in [1..0 -> {}]
    BY <1>5
  <2>2. Keeps(l, s[0], f, Stay(0))
    BY <2>1, <1>1 DEF Keeps
  <2> HIDE DEF f
  <2>3. QED
    BY <2>1, <2>2, <1>1
<1>15. ASSUME NEW i \in 1..n, i - 1 \in Done1 PROVE i \in Done1
  <2>1. PICK f \in [1..Len(s[i - 1]) -> Stay(i - 1)] : Keeps(l, s[i - 1], f, Stay(i - 1))
    BY <1>15
  <2>2. /\ s[i] = IF l[i].id \in Gone THEN s[i - 1] ELSE Append(s[i - 1], l[i])
        /\ s[i - 1] \in Seq(Alias) /\ i \in Nat /\ i - 1 \in 0..n /\ i \in 0..n /\ l[i] \in Alias
    BY <1>1, <1>5
  <2>3. CASE l[i].id \in Gone
    <3>1. Stay(i) = Stay(i - 1) /\ s[i] = s[i - 1]
      <4>1. \A k : k \in 1..i <=> k \in 1..i - 1 \/ k = i
        BY <2>2
      <4>2. QED
        BY <4>1, <2>2, <2>3
    <3> HIDE DEF Stay
    <3>2. f \in Maps(i)
      BY <3>1, <2>1
    <3>3. QED
      BY <3>2, <2>2
  <2>4. CASE l[i].id \notin Gone
    <3> DEFINE m == s[i - 1]
               q == Len(m) + 1
               g == [j \in 1..q |-> IF j = q THEN i ELSE f[j]]
    <3>1. s[i] = Append(m, l[i])
      BY <2>2, <2>4
    <3>2. Stay(i) = Stay(i - 1) \cup {i} /\ \A k \in Stay(i - 1) : k \in 1..i - 1
      <4>1. \A k : k \in 1..i <=> k \in 1..i - 1 \/ k = i
        BY <2>2
      <4>2. QED
        BY <4>1, <2>4
    <3>3. /\ Len(m) \in Nat /\ Len(s[i]) = q /\ s[i][q] = l[i]
          /\ \A j \in 1..Len(m) : s[i][j] = m[j]
      <4>1. m \in Seq(Alias)
        BY <2>2
      <4> HIDE DEF m
      <4>2. /\ Len(m) \in Nat /\ Len(Append(m, l[i])) = Len(m) + 1 /\ Append(m, l[i])[Len(m) + 1] = l[i]
            /\ \A j \in 1..Len(m) : Append(m, l[i])[j] = m[j]
        BY <4>1, Appended
      <4>3. QED
        BY <3>1, <4>2
    <3>4. /\ \A j, j2 \in 1..Len(m) : j < j2 => f[j] < f[j2]
          /\ \A k \in Stay(i - 1) : \E j \in 1..Len(m) : f[j] = k
          /\ \A j \in 1..Len(m) : m[j] = l[f[j]]
          /\ \A j \in 1..Len(m) : f[j] \in Stay(i - 1)
      BY <2>1 DEF Keeps
    <3> HIDE DEF m, Stay
    <3>5. \A j \in 1..q : g[j] = IF j = q THEN i ELSE f[j]
      OBVIOUS
    <3>6. \A j \in 1..q : j = q \/ j \in 1..Len(m)
      BY <3>3
    <3>7. g \in [1..q -> Stay(i)]
      BY <3>2, <3>4, <3>6
    <3> HIDE DEF g
    <3>8. ASSUME NEW j \in 1..q, NEW j2 \in 1..q, j < j2 PROVE g[j] < g[j2]
      <4>1. j # q /\ j \in 1..Len(m)
        BY <3>3, <3>8
      <4>2. g[j] = f[j] /\ f[j] \in 1..i - 1
        BY <4>1, <3>2, <3>4, <3>5
      <4>3. CASE j2 = q
        BY <4>2, <4>3, <3>5, <2>2
      <4>4. CASE j2 # q
        BY <4>1, <4>2, <4>4, <3>4, <3>5, <3>6, <3>8
      <4>5. QED
        BY <4>3, <4>4
    <3>9. ASSUME NEW k \in Stay(i) PROVE \E j \in 1..q : g[j] = k
      <4>1. CASE k = i
        <5>1. q \in 1..q /\ g[q] = i
          BY <3>3, <3>5
        <5>2. QED
          BY <4>1, <5>1
      <4>2. CASE k \in Stay(i - 1)
        <5>1. PICK j \in 1..Len(m) : f[j] = k
          BY <4>2, <3>4
        <5>2. j \in 1..q /\ j # q
          BY <3>3
        <5>3. QED
          BY <5>1, <5>2, <3>5
      <4>3. QED
        BY <4>1, <4>2, <3>2
    <3>10. ASSUME NEW j \in 1..q PROVE s[i][j] = l[g[j]]
      <4>1. CASE j = q
        BY <4>1, <3>3, <3>5
      <4>2. CASE j # q
        BY <4>2, <3>3, <3>4, <3>5, <3>6
      <4>3. QED
        BY <4>1, <4>2
    <3>11. Stay(i) \subseteq 1..Len(l)
      BY <1>1, <2>2 DEF Stay
    <3>12. Keeps(l, s[i], g, Stay(i))
      BY <3>3, <3>7, <3>8, <3>9, <3>10, <3>11 DEF Keeps
    <3>13. g \in Maps(i)
      BY <3>3, <3>7, <3>12
    <3> HIDE DEF Maps
    <3>14. QED
      BY <3>13, <2>2
  <2>5. QED
    BY <2>3, <2>4
<1>16. n \in Done1
  <2> HIDE DEF Done1, n
  <2>1. 0..n \subseteq Done1
    BY <1>1, <1>14, <1>15, AllUpTo
  <2>2. QED
    BY <1>1, <2>1
<1>17. \E f : Keeps(l, s[n], f, Stay(n))
  BY <1>16
<1>18. QED
  BY <1>13, <1>17

LEMMA FlushDeadKept ==
  ASSUME IInv, FlushDead
  PROVE  IInv'
<1> DEFINE Gone == {id \in DOMAIN infos : infos[id].dead}
           m == trie_flush_list(aliases, Gone)
           u == [id \in DOMAIN infos \ Gone |-> infos[id]]
           K == {k \in 1..Len(aliases) : aliases[k].id \notin Gone}
<1>1. /\ sync # Done /\ sync \in SyncType /\ sync.hop = <<0, 0>> /\ sync.left = {}
      /\ aliases' = m /\ infos' = u /\ cnt' = cnt - Cardinality(Gone)
      /\ sync' = Done /\ state' = state
  BY DEF FlushDead, IInv
<1>2. /\ aliases \in Seq(Alias) /\ Table(infos) /\ SortedBy(aliases, infos) /\ cnt = Cardinality(DOMAIN infos)
      /\ \A j \in DOMAIN aliases : aliases[j].id \in DOMAIN infos
      /\ \A id \in DOMAIN infos : infos[id].ref = Cardinality(Uses(aliases, id)) + 0 /\ infos[id].ref > 0
      /\ \A id, id2 \in DOMAIN infos : ContentOf(infos[id]) = ContentOf(infos[id2]) => id = id2
  <2>1. Listed(aliases, infos, cnt, {})
    BY DEF IInv
  <2>2. \A id : id \notin {}
    OBVIOUS
  <2>3. QED
    BY <2>1, <2>2 DEF Listed, Held
<1>3. /\ state \in [Devices -> {"up", "down", "bare"}]
      /\ \A id \in DOMAIN infos :
           /\ Fair(infos[id]) /\ DeadDown(infos[id]) /\ NoneDown(infos[id], sync.dev)
           /\ \A i \in DOMAIN infos[id].hops :
                infos[id].hops[i].dead /\ sync.hop # <<id, i>> => infos[id].hops[i].power = 0
           /\ \/ infos[id].dead \/ infos[id].local
              \/ \A i \in HopsOn(infos[id], sync.dev) : infos[id].hops[i].dead
  BY <1>1 DEF IInv, SyncSound
<1>4. m \in Seq(Alias) /\ \E f : Keeps(aliases, m, f, K)
  BY <1>2, FlushKeeps
<1>5. /\ DOMAIN u = DOMAIN infos \ Gone /\ (\A id \in DOMAIN u : u[id] = infos[id])
      /\ u = [id \in DOMAIN u |-> u[id]]
  OBVIOUS
<1>6. Gone \subseteq DOMAIN infos /\ \A id \in DOMAIN infos : id \notin Gone => ~infos[id].dead
  OBVIOUS
<1>7. DOMAIN aliases = 1..Len(aliases)
  BY <1>2
<1>8. \A k \in K : k \in DOMAIN aliases /\ aliases[k].id \notin Gone
  BY <1>7
<1>9. \A k \in DOMAIN aliases : aliases[k].id \notin Gone => k \in K
  BY <1>7
<1> HIDE DEF m, u, Gone, K
<1>10. PICK f : Keeps(aliases, m, f, K)
  BY <1>4
<1>11. ASSUME NEW j \in DOMAIN m PROVE f[j] \in K /\ m[j] = aliases[f[j]]
  <2>1. j \in 1..Len(m)
    BY <1>4
  <2>2. QED
    BY <2>1, <1>10 DEF Keeps
<1>12. \A j \in DOMAIN m : m[j].id \in DOMAIN u
  BY <1>2, <1>5, <1>8, <1>11
<1>13. IsFiniteSet(DOMAIN u) /\ Cardinality(DOMAIN u) = cnt - Cardinality(Gone)
  <2>1. DOMAIN infos \cap Gone = Gone
    BY <1>6
  <2>2. IsFiniteSet(DOMAIN infos) /\ DOMAIN u = DOMAIN infos \ Gone
    BY <1>2, <1>5 DEF Table
  <2>3. /\ IsFiniteSet(DOMAIN infos \ Gone)
        /\ Cardinality(DOMAIN infos \ Gone) = Cardinality(DOMAIN infos) - Cardinality(DOMAIN infos \cap Gone)
    BY <2>2, FS_Difference
  <2>4. QED
    BY <2>1, <2>2, <2>3, <1>2
<1>14. Table(u)
  <2>1. \A id \in DOMAIN u : id \in Nat /\ u[id] \in InfoType
    BY <1>2, <1>5 DEF Table
  <2>2. u \in [DOMAIN u -> InfoType]
    BY <1>5, <2>1
  <2>3. QED
    BY <2>1, <2>2, <1>13 DEF Table
<1>15. ASSUME NEW id \in DOMAIN u
       PROVE  u[id].ref = Cardinality(Uses(m, id)) + (IF id \in {} THEN 1 ELSE 0) /\ u[id].ref > 0
  <2>1. id \notin Gone /\ id \in DOMAIN infos /\ u[id] = infos[id]
    BY <1>5
  <2>2. Uses(aliases, id) \cap K = Uses(aliases, id)
    BY <2>1, <1>9 DEF Uses
  <2>3. Cardinality(Uses(m, id)) = Cardinality(Uses(aliases, id))
    BY <2>2, <1>2, <1>4, <1>10, KeepsUses
  <2>4. QED
    BY <2>1, <2>3, <1>2
<1>16. Held(m, u, {})
  BY <1>2, <1>5, <1>12, <1>15 DEF Held
<1>17. SortedBy(m, u)
  <2>1. \A j \in DOMAIN m : u[m[j].id].prio = infos[m[j].id].prio
    BY <1>5, <1>12
  <2>2. QED
    BY <2>1, <1>2, <1>4, <1>10, KeepsSorted
<1>18. Listed(m, u, cnt - Cardinality(Gone), {})
  BY <1>4, <1>13, <1>14, <1>16, <1>17 DEF Listed
<1>19. ASSUME NEW id \in DOMAIN u PROVE Fair(u[id]) /\ DeadDown(u[id]) /\ Settled(u[id])
  <2> DEFINE fi == u[id]
  <2>1. u[id] = infos[id] /\ id \in DOMAIN infos /\ ~fi.dead /\ fi \in InfoType
    BY <1>5, <1>6, <1>14 DEF Table
  <2>2. /\ Fair(fi) /\ DeadDown(fi) /\ NoneDown(fi, sync.dev)
        /\ \A i \in DOMAIN fi.hops : fi.hops[i].dead /\ sync.hop # <<id, i>> => fi.hops[i].power = 0
        /\ fi.local \/ \A i \in HopsOn(fi, sync.dev) : fi.hops[i].dead
    BY <2>1, <1>3
  <2>3. DOMAIN fi.hops = 1..Len(fi.hops) /\ Len(fi.hops) \in Nat
    BY <2>1, PowersOf
  <2> HIDE DEF fi
  <2>4. \A i \in DOMAIN fi.hops : fi.hops[i].dead => fi.hops[i].power = 0
    BY <2>2, <2>3, <1>1
  <2>5. fi.local \/ \A i \in DOMAIN fi.hops : state[fi.hops[i].dev] = "down" => fi.hops[i].dead
    BY <2>2 DEF NoneDown, HopsOn
  <2>6. Settled(fi)
    BY <2>1, <2>4, <2>5 DEF Settled, fi
  <2>7. QED
    BY <2>2, <2>6 DEF fi
<1>20. \A id \in DOMAIN infos' : Fair(infos'[id])
  BY <1>1, <1>19
<1>21. \A id \in DOMAIN infos' : DeadDown(infos[id])' /\ Settled(infos[id])'
  <2>1. \A id \in DOMAIN infos' : DeadDown(infos'[id]) /\ Settled(infos'[id])
    BY <1>1, <1>19
  <2>2. QED
    BY <2>1, <1>1 DEF DeadDown, Settled
<1>22. SyncSound'
  <2>1. sync' = Done'
    BY <1>1 DEF Done
  <2>2. QED
    BY <2>1, <1>21 DEF SyncSound
<1>23. QED
  BY <1>1, <1>3, <1>18, <1>20, <1>21, <1>22 DEF IInv, Done

----------------------------------------------------------------------------
(* The choice among nexthops. *)

\* What a choice does to a fib_info: only power and counts change, and a dead hop gets none.
ChosenFrom(g, fi) ==
  /\ g \in InfoType /\ ContentOf(g) = ContentOf(fi) /\ g.ref = fi.ref
  /\ g.local = fi.local /\ g.dead = fi.dead /\ Fair(g) /\ DOMAIN g.hops = DOMAIN fi.hops
  /\ \A i \in DOMAIN fi.hops :
       /\ g.hops[i].dev = fi.hops[i].dev
       /\ g.hops[i].dead <=> fi.hops[i].dead
       /\ fi.hops[i].dead /\ fi.hops[i].power = 0 => g.hops[i].power = 0

LEMMA HopEmptied ==
  ASSUME NEW h \in Hop
  PROVE  LET r == [h EXCEPT !.chosen = 0, !.share = 0] IN
         /\ r \in Hop /\ r.dev = h.dev /\ r.gw = h.gw /\ r.weight = h.weight
         /\ r.dead = h.dead /\ r.power = h.power /\ r.chosen = 0 /\ r.share = 0
BY DEF Hop

LEMMA HopFilled ==
  ASSUME NEW h \in Hop
  PROVE  LET r == [h EXCEPT !.power = h.weight, !.chosen = 0, !.share = h.weight] IN
         /\ r \in Hop /\ r.dev = h.dev /\ r.gw = h.gw /\ r.weight = h.weight /\ h.weight \in Nat
         /\ r.dead = h.dead /\ r.power = h.weight /\ r.chosen = 0 /\ r.share = h.weight
BY DEF Hop

LEMMA RefilledMeans ==
  ASSUME NEW fi \in InfoType, Fair(fi), fi.power <= 0
  PROVE  ChosenFrom(Refilled(fi), fi)
<1> DEFINE g == Refilled(fi)
           hs == [i \in DOMAIN fi.hops |->
                    IF fi.hops[i].dead THEN [fi.hops[i] EXCEPT !.chosen = 0, !.share = 0]
                    ELSE [fi.hops[i] EXCEPT !.power = fi.hops[i].weight, !.chosen = 0, !.share = fi.hops[i].weight]]
           weights == [i \in DOMAIN fi.hops |-> IF fi.hops[i].dead THEN 0 ELSE fi.hops[i].weight]
<1>1. /\ fi.hops \in Seq(Hop) /\ DOMAIN fi.hops = 1..Len(fi.hops) /\ Len(fi.hops) \in Nat
      /\ \A i \in DOMAIN fi.hops : fi.hops[i] \in Hop
  BY PowersOf
\* No power is left, so no hop has any.
<1>2. ASSUME NEW i \in DOMAIN fi.hops PROVE fi.hops[i].power = 0
  <2>1. /\ Powers(fi) \in Seq(Nat) /\ Len(Powers(fi)) = Len(fi.hops)
        /\ Powers(fi)[i] = fi.hops[i].power /\ i \in 1..Len(Powers(fi))
        /\ PowerOf(fi, DOMAIN fi.hops) = Total(Powers(fi))
    BY <1>1, PowersOf
  <2>2. Powers(fi)[i] <= Total(Powers(fi)) /\ Total(Powers(fi)) \in Nat
    BY <2>1, TotalOfNats
  <2>3. fi.hops[i].power \in Nat
    BY <1>1 DEF Hop
  <2>4. fi.power = Total(Powers(fi))
    BY <2>1 DEF Fair
  <2>5. QED
    BY <2>1, <2>2, <2>3, <2>4
<1>3. ASSUME NEW i \in DOMAIN fi.hops
      PROVE  /\ hs[i] \in Hop
             /\ hs[i].dev = fi.hops[i].dev /\ hs[i].gw = fi.hops[i].gw /\ hs[i].weight = fi.hops[i].weight
             /\ hs[i].dead = fi.hops[i].dead /\ hs[i].chosen + hs[i].power = hs[i].share
             /\ hs[i].power = weights[i] /\ weights[i] \in Nat
             /\ fi.hops[i].dead => hs[i].power = 0
  <2>1. fi.hops[i] \in Hop /\ fi.hops[i].power = 0
    BY <1>1, <1>2
  <2>2. CASE fi.hops[i].dead
    <3>1. hs[i] = [fi.hops[i] EXCEPT !.chosen = 0, !.share = 0] /\ weights[i] = 0
      BY <2>2
    <3> HIDE DEF hs, weights
    <3>2. /\ hs[i] \in Hop
          /\ hs[i].dev = fi.hops[i].dev /\ hs[i].gw = fi.hops[i].gw /\ hs[i].weight = fi.hops[i].weight
          /\ hs[i].dead = fi.hops[i].dead /\ hs[i].power = 0 /\ hs[i].chosen = 0 /\ hs[i].share = 0
      BY <2>1, <3>1, HopEmptied
    <3>3. QED
      BY <3>1, <3>2
  <2>3. CASE ~fi.hops[i].dead
    <3>1. /\ hs[i] = [fi.hops[i] EXCEPT !.power = fi.hops[i].weight, !.chosen = 0, !.share = fi.hops[i].weight]
          /\ weights[i] = fi.hops[i].weight
      BY <2>3
    <3> HIDE DEF hs, weights
    <3>2. /\ hs[i] \in Hop
          /\ hs[i].dev = fi.hops[i].dev /\ hs[i].gw = fi.hops[i].gw /\ hs[i].weight = fi.hops[i].weight
          /\ hs[i].dead = fi.hops[i].dead /\ hs[i].power = fi.hops[i].weight
          /\ hs[i].chosen = 0 /\ hs[i].share = fi.hops[i].weight /\ fi.hops[i].weight \in Nat
      BY <2>1, <3>1, HopFilled
    <3>3. 0 + hs[i].power = hs[i].share
      BY <3>2
    <3>4. QED
      BY <2>3, <3>1, <3>2, <3>3
  <2>4. QED
    BY <2>2, <2>3
<1>4. DOMAIN hs = 1..Len(fi.hops) /\ hs = [i \in 1..Len(fi.hops) |-> hs[i]]
      /\ weights = [i \in 1..Len(fi.hops) |-> weights[i]]
  BY <1>1
<1>5. g = [fi EXCEPT !.hops = hs, !.power = Total(weights)]
  BY DEF Refilled
<1> HIDE DEF hs, weights, g
<1>6. hs \in Seq(Hop)
  <2>1. hs \in [1..Len(fi.hops) -> Hop]
    BY <1>1, <1>3, <1>4
  <2>2. QED
    BY <2>1, <1>1, SeqDef
<1>7. weights \in Seq(Nat)
  <2>1. weights \in [1..Len(fi.hops) -> Nat]
    BY <1>1, <1>3, <1>4
  <2>2. QED
    BY <2>1, <1>1, SeqDef
<1>8. Total(weights) \in Nat
  BY <1>7, TotalOfNats
<1>9. /\ g \in InfoType /\ g.prio = fi.prio /\ g.local = fi.local /\ g.dead = fi.dead
      /\ g.power = Total(weights) /\ g.ref = fi.ref /\ g.hops = hs
  <2> DEFINE p == Total(weights)
  <2>1. p \in Int /\ g = [fi EXCEPT !.hops = hs, !.power = p]
    BY <1>5, <1>8
  <2> HIDE DEF p
  <2>2. /\ g \in InfoType /\ g.prio = fi.prio /\ g.local = fi.local /\ g.dead = fi.dead
        /\ g.power = p /\ g.ref = fi.ref /\ g.hops = hs
    BY <2>1, <1>6 DEF InfoType
  <2>3. QED
    BY <2>2 DEF p
<1>10. ContentOf(g) = ContentOf(fi)
  <2>1. [j \in DOMAIN g.hops |-> [dev |-> g.hops[j].dev, gw |-> g.hops[j].gw, weight |-> g.hops[j].weight]]
        = [j \in DOMAIN fi.hops |-> [dev |-> fi.hops[j].dev, gw |-> fi.hops[j].gw, weight |-> fi.hops[j].weight]]
    BY <1>1, <1>3, <1>4, <1>9
  <2>2. QED
    BY <2>1, <1>9 DEF ContentOf
<1>11. PowerOf(g, DOMAIN g.hops) = Total(weights)
  <2>1. [i \in DOMAIN g.hops |-> IF i \in DOMAIN g.hops THEN g.hops[i].power ELSE 0] = weights
    BY <1>1, <1>3, <1>4, <1>9
  <2>2. QED
    BY <2>1 DEF PowerOf
<1>12. Fair(g)
  BY <1>1, <1>3, <1>4, <1>9, <1>11 DEF Fair
<1>13. QED
  BY <1>1, <1>3, <1>4, <1>9, <1>10, <1>12 DEF ChosenFrom, g

LEMMA ChosenSame ==
  ASSUME NEW fi \in InfoType, Fair(fi)
  PROVE  ChosenFrom(fi, fi)
BY DEF ChosenFrom

LEMMA ChosenTwice ==
  ASSUME NEW fi, NEW g, NEW k, ChosenFrom(g, fi), ChosenFrom(k, g)
  PROVE  ChosenFrom(k, fi)
BY DEF ChosenFrom

\* A hop is chosen that lives and has power.
LEMMA ChosenLives ==
  ASSUME NEW fi \in InfoType, NEW w
  PROVE  LET i == ChosenHop(fi, w) IN
         i = 0 \/ (i \in DOMAIN fi.hops /\ ~fi.hops[i].dead /\ fi.hops[i].power > 0)
<1> DEFINE Live == {i \in DOMAIN fi.hops : ~fi.hops[i].dead /\ fi.hops[i].power > 0}
           Hit == {i \in Live : w - PowerOf(fi, {j \in Live : j <= i}) <= 0}
<1>1. DOMAIN fi.hops = 1..Len(fi.hops)
  BY PowersOf
<1>2. Hit \subseteq Live /\ Hit \subseteq Nat
  BY <1>1
<1>3. ChosenHop(fi, w) = IF Hit = {} THEN 0 ELSE Min(Hit)
  BY DEF ChosenHop
<1>4. Hit # {} => Min(Hit) \in Live
  <2> HIDE DEF Hit, Live
  <2>1. QED
    BY <1>2, LeastOf
<1>5. QED
  BY <1>3, <1>4

LEMMA HopChosen ==
  ASSUME NEW h \in Hop, NEW p \in Nat, NEW c \in Nat
  PROVE  LET r == [h EXCEPT !.power = p, !.chosen = c] IN
         /\ r \in Hop /\ r.dev = h.dev /\ r.gw = h.gw /\ r.weight = h.weight
         /\ r.dead = h.dead /\ r.share = h.share /\ r.power = p /\ r.chosen = c
BY DEF Hop

LEMMA ChosenMeans ==
  ASSUME NEW fi \in InfoType, Fair(fi), NEW i \in DOMAIN fi.hops, ~fi.hops[i].dead, fi.hops[i].power > 0
  PROVE  ChosenFrom([fi EXCEPT !.power = fi.power - 1,
                               !.hops[i].power = fi.hops[i].power - 1, !.hops[i].chosen = fi.hops[i].chosen + 1], fi)
<1> DEFINE h == [fi.hops[i] EXCEPT !.power = fi.hops[i].power - 1, !.chosen = fi.hops[i].chosen + 1]
           p == fi.power - 1
           g == WithHop(fi, i, h, p)
<1>1. /\ fi.hops \in Seq(Hop) /\ DOMAIN fi.hops = 1..Len(fi.hops) /\ Len(fi.hops) \in Nat
      /\ \A j \in DOMAIN fi.hops : fi.hops[j] \in Hop
  BY PowersOf
<1>2. fi.hops[i] \in Hop
  BY <1>1
<1>3. fi.hops[i].power \in Nat /\ fi.hops[i].power - 1 \in Nat /\ fi.hops[i].share \in Nat
      /\ fi.hops[i].chosen \in Nat /\ fi.hops[i].chosen + 1 \in Nat
  BY <1>2 DEF Hop
<1>4. /\ h \in Hop /\ h.dev = fi.hops[i].dev /\ h.gw = fi.hops[i].gw /\ h.weight = fi.hops[i].weight
      /\ h.dead = fi.hops[i].dead /\ h.share = fi.hops[i].share
      /\ h.power = fi.hops[i].power - 1 /\ h.chosen = fi.hops[i].chosen + 1
  <2> DEFINE u == fi.hops[i].power - 1
             v == fi.hops[i].chosen + 1
             r == [fi.hops[i] EXCEPT !.power = u, !.chosen = v]
  <2>1. u \in Nat /\ v \in Nat /\ h = r
    BY <1>3
  <2>2. u = fi.hops[i].power - 1 /\ v = fi.hops[i].chosen + 1
    OBVIOUS
  <2> HIDE DEF u, v, h
  <2>3. /\ r \in Hop /\ r.dev = fi.hops[i].dev /\ r.gw = fi.hops[i].gw /\ r.weight = fi.hops[i].weight
        /\ r.dead = fi.hops[i].dead /\ r.share = fi.hops[i].share /\ r.power = u /\ r.chosen = v
    BY <1>2, <2>1, HopChosen, ZenonT(40)
  <2> HIDE DEF r
  <2>4. QED
    BY <2>1, <2>2, <2>3
<1>5. [fi EXCEPT !.power = p, !.hops[i].power = fi.hops[i].power - 1, !.hops[i].chosen = fi.hops[i].chosen + 1] = g
  BY <1>1, <1>2 DEF WithHop, InfoType, Hop
<1>6. p \in Int /\ fi.power \in Int
  BY DEF InfoType
<1> HIDE DEF h, p
<1>7. /\ g \in InfoType /\ ContentOf(g) = ContentOf(fi)
      /\ g.local = fi.local /\ g.dead = fi.dead /\ g.ref = fi.ref /\ g.power = p
      /\ DOMAIN g.hops = DOMAIN fi.hops
      /\ \A j \in DOMAIN fi.hops : g.hops[j] = IF j = i THEN h ELSE fi.hops[j]
      /\ PowerOf(g, DOMAIN g.hops) = PowerOf(fi, DOMAIN fi.hops) + h.power - fi.hops[i].power
  BY <1>4, <1>6, WithHopMeans
<1> HIDE DEF g
<1>8. PowerOf(g, DOMAIN g.hops) = g.power
  <2>1. fi.power = PowerOf(fi, DOMAIN fi.hops) /\ p = fi.power - 1
    BY DEF Fair, p
  <2>2. PowerOf(g, DOMAIN g.hops) = fi.power + (fi.hops[i].power - 1) - fi.hops[i].power
    BY <2>1, <1>4, <1>7
  <2>3. QED
    BY <2>1, <2>2, <1>3, <1>6, <1>7
<1>9. h.chosen + h.power = h.share
  <2>1. fi.hops[i].chosen + fi.hops[i].power = fi.hops[i].share
    BY DEF Fair
  <2>2. QED
    BY <2>1, <1>3, <1>4
<1>10. Fair(g)
  <2>1. \A j \in DOMAIN fi.hops : fi.hops[j].chosen + fi.hops[j].power = fi.hops[j].share
    BY DEF Fair
  <2>2. \A j \in DOMAIN g.hops : g.hops[j].chosen + g.hops[j].power = g.hops[j].share
    BY <2>1, <1>7, <1>9
  <2>3. QED
    BY <2>2, <1>8 DEF Fair
<1>11. ChosenFrom(g, fi)
  BY <1>4, <1>7, <1>10 DEF ChosenFrom
<1>12. QED
  BY <1>5, <1>11 DEF p

LEMMA SelectKept ==
  ASSUME IInv, NEW id \in DOMAIN infos, Select(id)
  PROVE  IInv'
<1> DEFINE old == infos[id]
           fi == IF old.power <= 0 THEN Refilled(old) ELSE old
<1>1. UNCHANGED <<aliases, cnt, state, sync>>
  BY DEF Select
<1>2. id \in Nat /\ old \in InfoType /\ Fair(old) /\ DeadDown(old)
  BY InfoOfTable
<1>3. ChosenFrom(fi, old)
  <2>1. CASE old.power <= 0
    BY <2>1, <1>2, RefilledMeans
  <2>2. CASE ~(old.power <= 0)
    BY <2>2, <1>2, ChosenSame
  <2>3. QED
    BY <2>1, <2>2
<1>4. \E g : ChosenFrom(g, old) /\ infos' = [infos EXCEPT ![id] = g]
  <2>1. CASE fi.power <= 0
    <3>1. infos' = [infos EXCEPT ![id] = fi]
      BY <2>1 DEF Select
    <3>2. QED
      BY <3>1, <1>3
  <2>2. CASE ~(fi.power <= 0)
    <3> DEFINE i(w) == ChosenHop(fi, w)
               g(w) == IF i(w) = 0 THEN fi
                       ELSE [fi EXCEPT !.power = fi.power - 1,
                                       !.hops[i(w)].power = fi.hops[i(w)].power - 1,
                                       !.hops[i(w)].chosen = fi.hops[i(w)].chosen + 1]
    <3>1. \E w \in 0..fi.power - 1 : infos' = [infos EXCEPT ![id] = g(w)]
      BY <2>2 DEF Select
    <3>2. PICK w : infos' = [infos EXCEPT ![id] = g(w)]
      BY <3>1
    <3>3. fi \in InfoType /\ Fair(fi)
      BY <1>3 DEF ChosenFrom
    <3> HIDE DEF fi
    <3>4. i(w) = 0 \/ (i(w) \in DOMAIN fi.hops /\ ~fi.hops[i(w)].dead /\ fi.hops[i(w)].power > 0)
      BY <3>3, ChosenLives
    <3>5. ChosenFrom(g(w), fi)
      <4>1. CASE i(w) = 0
        BY <4>1, <3>3, ChosenSame
      <4>2. CASE i(w) # 0
        <5>1. g(w) = [fi EXCEPT !.power = fi.power - 1,
                                !.hops[i(w)].power = fi.hops[i(w)].power - 1,
                                !.hops[i(w)].chosen = fi.hops[i(w)].chosen + 1]
          BY <4>2
        <5> HIDE DEF i, g
        <5>2. QED
          BY <4>2, <5>1, <3>3, <3>4, ChosenMeans
      <4>3. QED
        BY <4>1, <4>2
    <3> HIDE DEF g
    <3>6. ChosenFrom(g(w), old)
      BY <3>5, <1>3, ChosenTwice
    <3>7. QED
      BY <3>2, <3>6
  <2>3. QED
    BY <2>1, <2>2
<1> HIDE DEF fi
<1>5. PICK g : ChosenFrom(g, old) /\ infos' = [infos EXCEPT ![id] = g]
  BY <1>4
<1>6. /\ g \in InfoType /\ ContentOf(g) = ContentOf(old) /\ g.ref = old.ref
      /\ g.local = old.local /\ g.dead = old.dead /\ Fair(g) /\ DOMAIN g.hops = DOMAIN old.hops
      /\ \A i \in DOMAIN old.hops :
           /\ g.hops[i].dev = old.hops[i].dev
           /\ g.hops[i].dead <=> old.hops[i].dead
           /\ old.hops[i].dead /\ old.hops[i].power = 0 => g.hops[i].power = 0
  BY <1>5 DEF ChosenFrom
<1>7. DeadDown(g)
  BY <1>2, <1>6 DEF DeadDown
<1>8. CASE sync = Done
  <2>1. Listed(aliases, infos, cnt, {}) /\ AllSettled(infos)
    BY <1>8 DEF IInv, SyncSound, AllSettled
  <2>2. /\ Listed(aliases, infos', cnt, {}) /\ DOMAIN infos' = DOMAIN infos
        /\ \A x \in DOMAIN infos : infos'[x] = IF x = id THEN g ELSE infos[x]
    BY <2>1, <1>5, <1>6, OneChanged
  <2>3. Settled(old)
    BY <2>1 DEF AllSettled
  <2>4. Settled(g)
    BY <2>3, <1>6 DEF Settled
  <2>5. AllSettled(infos')
    BY <2>1, <2>2, <2>4, <1>6, <1>7 DEF AllSettled
  <2>6. QED
    BY <2>2, <2>5, <1>1, <1>8, SettledStep
<1>9. CASE sync # Done
  <2>1. /\ sync \in SyncType /\ NoneDown(old, sync.dev)
        /\ sync.hop = <<0, 0>> \/ (sync.hop[1] \in sync.left /\ sync.hop[2] \in DOMAIN infos[sync.hop[1]].hops)
        /\ \A i \in DOMAIN old.hops : old.hops[i].dead /\ sync.hop # <<id, i>> => old.hops[i].power = 0
        /\ \/ id \in sync.left \/ old.dead \/ old.local
           \/ \A i \in HopsOn(old, sync.dev) : old.hops[i].dead
    BY <1>9 DEF IInv, SyncSound
  <2>2. NoneDown(g, sync.dev)
    BY <2>1, <1>6 DEF NoneDown
  <2>3. id \in sync.left \/ g.dead \/ g.local \/ \A i \in HopsOn(g, sync.dev) : g.hops[i].dead
    BY <2>1, <1>6 DEF HopsOn
  <2>4. \A i \in DOMAIN g.hops : g.hops[i].dead /\ sync.hop # <<id, i>> => g.hops[i].power = 0
    BY <2>1, <1>6
  <2>5. sync' = sync /\ UNCHANGED <<aliases, cnt, state>>
    BY <1>1
  <2> HIDE <1>4
  <2>6. QED
    BY <2>1, <2>2, <2>3, <2>4, <2>5, <1>5, <1>6, <1>7, <1>9, SyncingStep
<1>10. QED
  BY <1>8, <1>9

----------------------------------------------------------------------------
(* The theorem. *)

LEMMA InitIInv == Init => IInv
<1> SUFFICES ASSUME Init PROVE IInv
  OBVIOUS
<1>1. aliases = <<>> /\ infos = <<>> /\ cnt = 0 /\ sync = Done /\ state = [dev \in Devices |-> "up"]
  BY DEF Init
<1>2. DOMAIN infos = {} /\ DOMAIN aliases = {} /\ aliases \in Seq(Alias)
  BY <1>1
<1>3. Table(infos)
  <2>1. infos = [x \in {} |-> infos[x]]
    BY <1>1, <1>2
  <2>2. infos \in [DOMAIN infos -> InfoType]
    BY <1>2, <2>1
  <2>3. QED
    BY <2>2, <1>2, FS_EmptySet DEF Table
<1>4. Held(aliases, infos, {}) /\ SortedBy(aliases, infos)
  BY <1>2 DEF Held, SortedBy
<1>5. cnt = Cardinality(DOMAIN infos)
  BY <1>1, <1>2, FS_EmptySet
<1>6. SyncSound
  BY <1>1, <1>2 DEF SyncSound
<1>7. QED
  BY <1>1, <1>2, <1>3, <1>4, <1>5, <1>6 DEF IInv, Listed

LEMMA NextIInv == IInv /\ [Next]_rvars => IInv'
<1> SUFFICES ASSUME IInv, [Next]_rvars PROVE IInv'
  OBVIOUS
<1>1. CASE \E tos \in Toses, c \in Contents, f \in Flags, nomem \in BOOLEAN : Insert(tos, c, f, nomem)
  BY <1>1, InsertKept
<1>2. CASE \E tos \in Toses, c \in Contents : Delete(tos, c)
  BY <1>2, DeleteKept
<1>3. CASE \E dev \in Devices, force \in 0..2 : DevDown(dev, force)
  BY <1>3, DevDownKept
<1>4. CASE \E id \in DOMAIN infos : MarkDead(id) \/ InfoDone(id) \/ Select(id)
  BY <1>4, MarkDeadKept, InfoDoneKept, SelectKept
<1>5. CASE TakePower
  BY <1>5, TakePowerKept
<1>6. CASE FlushDead
  BY <1>6, FlushDeadKept
<1>7. CASE \E dev \in Devices : SyncUp(dev)
  BY <1>7, SyncUpKept
<1>8. CASE UNCHANGED rvars
  <2>1. aliases' = aliases /\ infos' = infos /\ cnt' = cnt /\ state' = state /\ sync' = sync
    BY <1>8 DEF rvars
  <2>2. /\ state' \in [Devices -> {"up", "down", "bare"}] /\ (sync' = Done' \/ sync' \in SyncType')
        /\ Listed(aliases, infos, cnt, {})'
    BY <2>1 DEF IInv, Done, SyncType
  <2>3. \A id \in DOMAIN infos' : Fair(infos[id])' /\ DeadDown(infos[id])'
    BY <2>1 DEF IInv, DeadDown
  <2>4. SyncSound'
    <3>1. SyncSound
      BY DEF IInv
    <3>2. \A id \in DOMAIN infos : Settled(infos[id])' = Settled(infos[id])
      BY <2>1 DEF Settled
    <3>3. \A id \in DOMAIN infos : NoneDown(infos[id], sync.dev)' = NoneDown(infos[id], sync.dev)
      BY <2>1 DEF NoneDown
    <3>4. CASE sync = Done
      BY <2>1, <3>1, <3>2, <3>4 DEF SyncSound, Done
    <3>5. CASE sync # Done
      BY <2>1, <3>1, <3>3, <3>5 DEF SyncSound, Done, HopsOn
    <3>6. QED
      BY <3>4, <3>5
  <2>5. QED
    BY <2>2, <2>3, <2>4 DEF IInv
<1>9. QED
  BY <1>1, <1>2, <1>3, <1>4, <1>5, <1>6, <1>7, <1>8 DEF Next

LEMMA IInvSound == IInv => RouteInfosSound
<1> SUFFICES ASSUME IInv PROVE RouteInfosSound
  OBVIOUS
<1>1. Listed(aliases, infos, cnt, {})
  BY DEF IInv
<1>2. InfosHeld
  <2>1. ASSUME NEW id \in DOMAIN infos
        PROVE  infos[id].ref = Cardinality({i \in DOMAIN aliases : aliases[i].id = id}) /\ infos[id].ref > 0
    <3>1. infos[id].ref = Cardinality(Uses(aliases, id)) + 0 /\ infos[id].ref > 0
      BY <1>1 DEF Listed, Held
    <3>2. Cardinality(Uses(aliases, id)) \in Nat
      BY <1>1, UsesFinite DEF Listed
    <3>3. QED
      BY <3>1, <3>2 DEF Uses
  <2>2. QED
    BY <1>1, <2>1 DEF InfosHeld, Listed, Held
<1>3. Sorted
  BY <1>1 DEF Listed, SortedBy, Sorted
<1>4. PowerFair
  BY DEF IInv, Fair, PowerFair
<1>5. DeadFollowDevice
  BY DEF IInv, SyncSound, DeadDown, Settled, DeadFollowDevice
<1>6. QED
  BY <1>2, <1>3, <1>4, <1>5 DEF RouteInfosSound, AliasesSound, NexthopsSound

\* The alias list of fib_table_insert and fib_table_delete stays in order, the fib_infos of
\* fib_semantics.c are held by exactly its aliases, and the nexthops share their power fairly
\* and follow their devices: for any devices, contents and types of service, while routes
\* come and go, devices fail and return and packets choose among nexthops.
THEOREM RouteInfosHeld == Spec => []RouteInfosSound
<1>1. Init => IInv
  BY InitIInv
<1>2. IInv /\ [Next]_rvars => IInv'
  BY NextIInv
<1>3. IInv => RouteInfosSound
  BY IInvSound
<1>4. QED
  BY <1>1, <1>2, <1>3, PTL DEF Spec
=============================================================================
