----------------------------- MODULE FibRoutes -----------------------------
(***************************************************************************)
(* The routes of one prefix and the nexthop records they share: the alias  *)
(* list of fib_table_insert and fib_table_delete, the reference counted    *)
(* fib_info of fib_semantics.c, devices that go down and come up, and the  *)
(* weighted choice among the nexthops of a multipath route, which runs     *)
(* beside the writer and shares only fib_multipath_lock with it.           *)
(***************************************************************************)
EXTENDS Integers, SequencesExt, FiniteSetsExt

CONSTANTS
  Devices,
  Toses,        \* fc_tos
  Contents,     \* what a fib_info says: [prio, local, hops: Seq([dev, gw, weight])]
  MaxInfos,     \* bound on the fib_infos there are at a time
  Chooses       \* do packets choose among nexthops?

\* The order of aliases compares numbers, and a nexthop weighs at least 1 (rtnh_hops + 1).
ASSUME FibRoutesAssumption ==
  /\ Toses \subseteq Nat /\ MaxInfos \in Nat
  /\ Contents \subseteq
       [prio : Nat, local : BOOLEAN, hops : Seq([dev : Devices, gw : Nat, weight : Nat \ {0}])]

VARIABLES
  aliases,      \* fa_list: Seq([tos, id])
  infos,        \* the live fib_infos by id
  cnt,          \* fib_info_cnt
  state,        \* a device is "down", up with an address, or "bare" once its last one went
  sync          \* fib_sync_down_dev under way

rvars == <<aliases, infos, cnt, state, sync>>

Done == [dev |-> "none"]
Init ==
  /\ aliases = <<>> /\ infos = <<>> /\ cnt = 0
  /\ state = [dev \in Devices |-> "up"] /\ sync = Done

NewInfo(c) ==
  [prio |-> c.prio, local |-> c.local, dead |-> FALSE, power |-> 0, ref |-> 1,
   hops |-> [i \in DOMAIN c.hops |->
     [dev |-> c.hops[i].dev, gw |-> c.hops[i].gw, weight |-> c.hops[i].weight,
      dead |-> FALSE, power |-> 0, chosen |-> 0, share |-> 0]]]

\* What nh_comp and fib_find_info compare: everything but RTNH_F_DEAD and the power.
ContentOf(fi) ==
  [prio |-> fi.prio, local |-> fi.local,
   hops |-> [i \in DOMAIN fi.hops |->
     [dev |-> fi.hops[i].dev, gw |-> fi.hops[i].gw, weight |-> fi.hops[i].weight]]]
fib_find_info(c) == {id \in DOMAIN infos : ContentOf(infos[id]) = c}
FreshId == Min(1..MaxInfos + 1 \ DOMAIN infos)

\* A fib_info for c, shared or new, in the table of infos and its id.
WithNew(c) == [id \in DOMAIN infos \cup {FreshId} |-> IF id = FreshId THEN NewInfo(c) ELSE infos[id]]
CreateUnshared(c) == [id |-> FreshId, infos |-> WithNew(c), cnt |-> cnt + 1]
fib_create_info(c) ==
  LET Same == fib_find_info(c) IN
  IF Same # {}
  THEN LET id == Min(Same) IN [id |-> id, infos |-> [infos EXCEPT ![id].ref = @ + 1], cnt |-> cnt]
  ELSE [id |-> FreshId, infos |-> WithNew(c), cnt |-> cnt + 1]
\* What fib_check_nh asks; a local route is taken on any device.
NexthopsUp(c) == c.local \/ \A i \in DOMAIN c.hops : state[c.hops[i].dev] # "down"

\* fib_release_info: a table of infos t with one reference to id less.
WithoutInfo(t, id) == [x \in DOMAIN t \ {id} |-> t[x]]
Release(t, id) == IF t[id].ref = 1 THEN WithoutInfo(t, id) ELSE [t EXCEPT ![id].ref = @ - 1]
Released(t, id) == IF t[id].ref = 1 THEN 1 ELSE 0

----------------------------------------------------------------------------
(* The alias list. *)

\* The place of the first alias with the same tos and a priority not below prio, or a
\* lower tos; past the end when there is none.
fib_find_alias(t, tos, prio) ==
  LET Hit == {i \in DOMAIN aliases : aliases[i].tos <= tos /\
                (t[aliases[i].id].prio >= prio \/ aliases[i].tos < tos)}
  IN IF Hit = {} THEN Len(aliases) + 1 ELSE Min(Hit)

SameKey(t, i, tos, prio) ==
  i \in DOMAIN aliases /\ aliases[i].tos = tos /\ t[aliases[i].id].prio = prio

\* The first place after i whose alias has another tos or priority.
EndOfKey(t, i, tos, prio) == Min({j \in i..Len(aliases) + 1 : ~SameKey(t, j, tos, prio)})

\* The end of an insertion: alias list a, infos t with `less' of them freed since c.
Becomes(c, a, t, less) ==
  /\ aliases' = a /\ infos' = t /\ cnt' = c.cnt - less
  /\ UNCHANGED <<state, sync>>
Drop(c) == Becomes(c, aliases, Release(c.infos, c.id), Released(c.infos, c.id))

\* NLM_F_APPEND puts the alias behind those of its key, otherwise it goes before them.
PlaceAtEnd(c, i, append, tos, prio) == Len(aliases) + 1
Place(c, i, append, tos, prio) ==
  IF append THEN EndOfKey(c.infos, i, tos, prio) ELSE i

Insert(tos, content, flags, nomem) ==
  /\ sync = Done
  /\ NexthopsUp(content) /\ (fib_find_info(content) # {} \/ Cardinality(DOMAIN infos) < MaxInfos)
  /\ LET c     == fib_create_info(content)
         prio  == content.prio
         i     == fib_find_alias(c.infos, tos, prio)
         new   == [tos |-> tos, id |-> c.id]
         known == SameKey(c.infos, i, tos, prio)
         match == known /\ \E j \in i..EndOfKey(c.infos, i, tos, prio) - 1 : aliases[j] = new
         old   == aliases[i].id
     IN IF (known /\ "excl" \in flags) \/ match \/ nomem THEN Drop(c)
        ELSE IF known /\ "replace" \in flags
        THEN Becomes(c, [aliases EXCEPT ![i] = new], Release(c.infos, old), Released(c.infos, old))
        ELSE IF "create" \notin flags THEN Drop(c)
        ELSE Becomes(c, InsertAt(aliases, Place(c, i, "append" \in flags, tos, prio), new), c.infos, 0)

\* fib_nh_match: of a multipath request only the devices are compared, and only as many
\* as the fib_info has (the test of attrlen at 472 skips the gateways).
fib_nh_match(del, fi) ==
  /\ del.prio # 0 => del.prio = fi.prio
  /\ IF Len(del.hops) = 1 THEN del.hops[1].dev = fi.hops[1].dev /\ del.hops[1].gw = fi.hops[1].gw
     ELSE /\ Len(del.hops) >= Len(fi.hops)
          /\ \A i \in DOMAIN fi.hops : del.hops[i].dev = fi.hops[i].dev

Delete(tos, del) ==
  /\ sync = Done
  /\ LET Hit == {i \in DOMAIN aliases : aliases[i].tos = tos /\ fib_nh_match(del, infos[aliases[i].id])}
         i   == Min(Hit)
     IN /\ Hit # {}
        /\ aliases' = RemoveAt(aliases, i)
        /\ infos' = Release(infos, aliases[i].id)
        /\ cnt' = cnt - Released(infos, aliases[i].id)
  /\ UNCHANGED <<state, sync>>

----------------------------------------------------------------------------
(* Devices. *)

HopsOn(fi, dev) == {i \in DOMAIN fi.hops : fi.hops[i].dev = dev}

\* A device goes down (force 0), loses its last address (1) or goes away (2).
DevDown(dev, force) ==
  /\ sync = Done
  /\ force = 0 => state[dev] # "down"
  /\ state' = [state EXCEPT ![dev] = IF force = 1 /\ @ # "down" THEN "bare" ELSE "down"]
  /\ sync' = [dev |-> dev, force |-> force, hop |-> <<0, 0>>,
              left |-> {id \in DOMAIN infos : HopsOn(infos[id], dev) # {}}]
  /\ UNCHANGED <<aliases, infos, cnt>>

\* Hops the scan still has to mark: those of local routes only when forced, and of a
\* device that goes away only the first.
ToMark(id) ==
  {i \in HopsOn(infos[id], sync.dev) :
     /\ ~infos[id].hops[i].dead
     /\ infos[id].local => sync.force > 0
     /\ sync.force = 2 => i = Min(HopsOn(infos[id], sync.dev))}

\* RTNH_F_DEAD is set before fib_multipath_lock is taken.
MarkDead(id) ==
  /\ sync # Done /\ sync.hop = <<0, 0>> /\ id \in sync.left /\ ToMark(id) # {}
  /\ LET i == Min(ToMark(id)) IN
       /\ infos' = [infos EXCEPT ![id].hops[i].dead = TRUE]
       /\ sync' = [sync EXCEPT !.hop = <<id, i>>]
  /\ UNCHANGED <<aliases, cnt, state>>

TakePowerKeepsSum ==
  /\ sync # Done /\ sync.hop # <<0, 0>>
  /\ LET id == sync.hop[1]   i == sync.hop[2] IN
       infos' = [infos EXCEPT ![id].hops[i].power = 0, ![id].hops[i].share = infos[id].hops[i].chosen]
  /\ sync' = [sync EXCEPT !.hop = <<0, 0>>]
  /\ UNCHANGED <<aliases, cnt, state>>

TakePower ==
  /\ sync # Done /\ sync.hop # <<0, 0>>
  /\ LET id == sync.hop[1]   fi == infos[id]   i == sync.hop[2]   hop == fi.hops[i] IN
       infos' = [infos EXCEPT ![id] =
         [fi EXCEPT !.power = fi.power - hop.power, !.hops[i].power = 0, !.hops[i].share = hop.chosen]]
  /\ sync' = [sync EXCEPT !.hop = <<0, 0>>]
  /\ UNCHANGED <<aliases, cnt, state>>

\* All hops dead, or the device of one gone for good: the fib_info is dead.
InfoDone(id) ==
  /\ sync # Done /\ sync.hop = <<0, 0>> /\ id \in sync.left /\ ToMark(id) = {}
  /\ infos' = [infos EXCEPT ![id].dead =
                 @ \/ sync.force > 1 \/ \A i \in DOMAIN infos[id].hops : infos[id].hops[i].dead]
  /\ sync' = [sync EXCEPT !.left = @ \ {id}]
  /\ UNCHANGED <<aliases, cnt, state>>

\* trie_flush_list: the aliases of list l, one after the other, but those of the fib_infos
\* in Gone.
trie_flush_list(l, Gone) ==
  LET kept[i \in 0..Len(l)] ==
        IF i = 0 THEN <<>>
        ELSE IF l[i].id \in Gone THEN kept[i - 1] ELSE Append(kept[i - 1], l[i])
  IN kept[Len(l)]

\* fib_flush: the aliases of dead fib_infos go, and with the last one the fib_info.
FlushDead ==
  /\ sync # Done /\ sync.hop = <<0, 0>> /\ sync.left = {}
  /\ LET Gone == {id \in DOMAIN infos : infos[id].dead}
     IN /\ aliases' = trie_flush_list(aliases, Gone)
        /\ infos' = [id \in DOMAIN infos \ Gone |-> infos[id]]
        /\ cnt' = cnt - Cardinality(Gone)
  /\ sync' = Done
  /\ UNCHANGED state

\* fib_sync_up: the dead hops of the device live again, without power.
Revived(fi, dev) ==
  [fi EXCEPT !.hops = [i \in DOMAIN fi.hops |->
     IF fi.hops[i].dead /\ fi.hops[i].dev = dev
     THEN [fi.hops[i] EXCEPT !.dead = FALSE, !.power = 0, !.chosen = 0, !.share = 0]
     ELSE fi.hops[i]]]
SyncUpForgets(dev) ==
  /\ sync = Done /\ state[dev] # "up"
  /\ state' = [state EXCEPT ![dev] = "up"]
  /\ UNCHANGED <<aliases, infos, cnt, sync>>
SyncUp(dev) ==
  /\ sync = Done /\ state[dev] # "up"
  /\ state' = [state EXCEPT ![dev] = "up"]
  /\ infos' = [id \in DOMAIN infos |-> Revived(infos[id], dev)]
  /\ UNCHANGED <<aliases, cnt, sync>>

----------------------------------------------------------------------------
(* fib_select_multipath, under fib_multipath_lock. *)

\* What the loops over the nexthops add up.
Total(n) == LET sum[i \in 0..Len(n)] == IF i = 0 THEN 0 ELSE sum[i - 1] + n[i] IN sum[Len(n)]
PowerOf(fi, H) == Total([i \in DOMAIN fi.hops |-> IF i \in H THEN fi.hops[i].power ELSE 0])

\* No power is left: every hop that is not dead gets its weight.
Refilled(fi) ==
  LET hops == [i \in DOMAIN fi.hops |->
                 IF fi.hops[i].dead THEN [fi.hops[i] EXCEPT !.chosen = 0, !.share = 0]
                 ELSE [fi.hops[i] EXCEPT !.power = fi.hops[i].weight, !.chosen = 0, !.share = fi.hops[i].weight]]
      weights == [i \in DOMAIN fi.hops |-> IF fi.hops[i].dead THEN 0 ELSE fi.hops[i].weight]
  IN [fi EXCEPT !.hops = hops, !.power = Total(weights)]

\* The first hop with power at which w, less the powers up to it, is used up.
ChosenHop(fi, w) ==
  LET Live == {i \in DOMAIN fi.hops : ~fi.hops[i].dead /\ fi.hops[i].power > 0}
      Hit == {i \in Live : w - PowerOf(fi, {j \in Live : j <= i}) <= 0}
  IN IF Hit = {} THEN 0 ELSE Min(Hit)

Select(id) ==
  /\ Chooses /\ id \in DOMAIN infos /\ Len(infos[id].hops) > 1
  /\ LET fi == IF infos[id].power <= 0 THEN Refilled(infos[id]) ELSE infos[id] IN
       IF fi.power <= 0 THEN infos' = [infos EXCEPT ![id] = fi]
       ELSE \E w \in 0..fi.power - 1 :
         LET i == ChosenHop(fi, w) IN
         infos' = [infos EXCEPT ![id] =
           IF i = 0 THEN fi
           ELSE [fi EXCEPT !.power = fi.power - 1,
                           !.hops[i].power = fi.hops[i].power - 1, !.hops[i].chosen = fi.hops[i].chosen + 1]]
  /\ UNCHANGED <<aliases, cnt, state, sync>>

----------------------------------------------------------------------------
Flags == {{"create"}, {"create", "excl"}, {"create", "append"}, {"create", "replace"}, {"replace"}}

Next ==
  \/ \E tos \in Toses, c \in Contents, f \in Flags, nomem \in BOOLEAN : Insert(tos, c, f, nomem)
  \/ \E tos \in Toses, c \in Contents : Delete(tos, c)
  \/ \E dev \in Devices, force \in 0..2 : DevDown(dev, force)
  \/ \E id \in DOMAIN infos : MarkDead(id) \/ InfoDone(id) \/ Select(id)
  \/ TakePower \/ FlushDead
  \/ \E dev \in Devices : SyncUp(dev)

Spec == Init /\ [][Next]_rvars

----------------------------------------------------------------------------
\* fib_treeref is the number of aliases that use a fib_info, one that none uses is
\* freed, fib_info_cnt counts them, and no two say the same.
InfosHeld ==
  /\ \A i \in DOMAIN aliases : aliases[i].id \in DOMAIN infos
  /\ \A id \in DOMAIN infos :
       /\ infos[id].ref = Cardinality({i \in DOMAIN aliases : aliases[i].id = id})
       /\ infos[id].ref > 0
       /\ \A id2 \in DOMAIN infos : ContentOf(infos[id]) = ContentOf(infos[id2]) => id = id2
  /\ cnt = Cardinality(DOMAIN infos)

\* By falling tos and rising priority, and none twice.
Sorted ==
  \A i, j \in DOMAIN aliases : i < j =>
    /\ aliases[i] # aliases[j]
    /\ aliases[i].tos >= aliases[j].tos
    /\ aliases[i].tos = aliases[j].tos => infos[aliases[i].id].prio <= infos[aliases[j].id].prio

\* Over replaced, appended, refused and flushed routes and failed allocations, the alias
\* list stays in the order check_leaf and fib_find_alias rely on, and the fib_infos its
\* aliases share are held by exactly those aliases.
AliasesSound == InfosHeld /\ Sorted

\* Line 1200, "really fair weighted route distribution": fib_power is what the hops have
\* left, and within a round every hop that stays alive is chosen as often as its weight.
PowerFair ==
  \A id \in DOMAIN infos :
    /\ infos[id].power = PowerOf(infos[id], DOMAIN infos[id].hops)
    /\ \A i \in DOMAIN infos[id].hops :
         infos[id].hops[i].chosen + infos[id].hops[i].power = infos[id].hops[i].share

\* When no device is being taken down no nexthop of a device that is up is dead, every
\* nexthop of one that is down is (but of local routes), and no dead fib_info is left:
\* so no packet is sent to a device that cannot carry it, and a device that came back
\* is used again.
DeadFollowDevice ==
  sync = Done =>
    \A id \in DOMAIN infos :
      /\ ~infos[id].dead
      /\ \A i \in DOMAIN infos[id].hops :
           infos[id].hops[i].dead => state[infos[id].hops[i].dev] # "up"
      /\ infos[id].local \/ \A i \in DOMAIN infos[id].hops :
           state[infos[id].hops[i].dev] = "down" => infos[id].hops[i].dead

\* Whatever devices do while packets choose among the nexthops, the choice is fair and falls
\* on nexthops that can carry the packet.
NexthopsSound == PowerFair /\ DeadFollowDevice

\* The list, the records its aliases share and the choice among nexthops hold together.
RouteInfosSound == AliasesSound /\ NexthopsSound
=============================================================================
