-------------------------------- MODULE Vlan --------------------------------
(***************************************************************************)
(* The VLAN devices on one real device: vlan.c, vlan_dev.c and the receive *)
(* paths of vlan_core.c and vlan_dev.c.  All changes run under the RTNL    *)
(* lock; unregistration waits in the middle for the receivers, which hold  *)
(* only rcu_read_lock, so it is several steps (rtnl).  The real device     *)
(* counts who wants which unicast address and which receive flag.          *)
(***************************************************************************)
EXTENDS Integers, Sequences, FiniteSets, FiniteSetsExt

CONSTANTS
  Vids, Macs, Mtus,
  RxFlags,      \* subset of {"allmulti", "promisc"}
  Flags         \* subset of {"loose", "gvrp"}: VLAN_FLAG_LOOSE_BINDING, VLAN_FLAG_GVRP

\* The receive flags a VLAN device passes on; MTUs are numbers.
VlanAssumption == RxFlags \subseteq {"allmulti", "promisc"} /\ Mtus \subseteq Nat

Grps == 1..3    \* memory for vlan_groups
None == 0

VARIABLES
  real,         \* the real device: [up, mac, mtu, uc: [Macs -> Nat], rx: [RxFlags -> Nat]]
  vlans,        \* registered VLAN devices by VID: [up, mac, seen, mtu, flags, rx]
  joined,       \* VIDs announced by GVRP
  vlgrp,        \* real_dev->vlgrp
  groups,       \* vlan_groups in memory: [slots: SUBSET Vids, nr, dying, waits]
  stats,        \* VIDs whose per-CPU statistics are allocated
  rtnl,         \* what holds the RTNL lock across steps
  rx            \* a receiver: where it is, its group and VID

vlanVars == <<real, vlans, joined, vlgrp, groups, stats, rtnl, rx>>

Free == [what |-> "free"]
Idle == [at |-> "idle"]

Init ==
  /\ real = [up |-> FALSE, mac |-> Min(Macs), mtu |-> Max(Mtus),
             uc |-> [m \in Macs |-> 0], rx |-> [f \in RxFlags |-> 0]]
  /\ vlans = <<>> /\ joined = {} /\ vlgrp = None /\ groups = <<>> /\ stats = {}
  /\ rtnl = Free /\ rx = Idle

----------------------------------------------------------------------------
(* What a VLAN device asks of the real one. *)

\* While it is up, a filter for an address that is not the real device's, and its receive flags;
\* vlan_dev_open asks in the order of Calls.
Needs(r, v) == (IF v.mac # r.mac THEN {"uc"} ELSE {}) \cup v.rx
Calls == <<"uc", "allmulti", "promisc">>
FirstCalls(k) == {Calls[i] : i \in 1..k}

\* dev_uc_add, dev_uc_del by d; a deletion of what is not there changes nothing.
Filtered(n, d) == Max({0, n + d})

\* The devices of D call dev_uc_add and dev_uc_del, dev_set_allmulti, dev_set_promiscuity by d
\* for what they need, as far as X goes.
Who(r, D, X, x) == {vid \in D : x \in X \cap Needs(r, vlans[vid])}
Ask(r, D, X, d) ==
  [r EXCEPT
    !.uc = [m \in Macs |->
              Filtered(@[m], d * Cardinality({vid \in Who(r, D, X, "uc") : vlans[vid].mac = m}))],
    !.rx = [f \in RxFlags |-> @[f] + d * Cardinality(Who(r, D, X, f))]]
Everything == FirstCalls(3)

\* vlan_dev_open when the first k calls are granted: it takes them back if it needs more.
MayOpen(r, v) == r.up \/ "loose" \in v.flags
Granted(r, v, k) == Needs(r, v) \subseteq FirstCalls(k)
Opened(r, v) == [v EXCEPT !.up = TRUE, !.seen = r.mac]
vlan_dev_open(r, vid, k) ==
  LET got == Ask(r, {vid}, FirstCalls(k), 1) IN
  IF Granted(r, vlans[vid], k) THEN got ELSE Ask(got, {vid}, FirstCalls(k), -1)
vlan_dev_stop(r, D) == Ask(r, D, Everything, -1)

Announces(v) == v.up /\ "gvrp" \in v.flags

Unlocked == rtnl = Free
Only(r, V) == real' = r /\ vlans' = V /\ UNCHANGED <<vlgrp, groups, stats, rtnl, rx>>

Open(vid, k) ==
  /\ Unlocked /\ vid \in DOMAIN vlans /\ ~vlans[vid].up /\ MayOpen(real, vlans[vid])
  /\ LET v == IF Granted(real, vlans[vid], k) THEN Opened(real, vlans[vid]) ELSE vlans[vid] IN
       /\ Only(vlan_dev_open(real, vid, k), [vlans EXCEPT ![vid] = v])
       /\ joined' = IF Announces(v) THEN joined \cup {vid} ELSE joined

Stop(vid) ==
  /\ Unlocked /\ vid \in DOMAIN vlans /\ vlans[vid].up
  /\ Only(vlan_dev_stop(real, {vid}), [vlans EXCEPT ![vid].up = FALSE])
  /\ UNCHANGED joined

\* vlan_dev_set_mac_address; nomem: the new address cannot be added.
SetMac(vid, mac, nomem) ==
  /\ Unlocked /\ vid \in DOMAIN vlans
  /\ LET v     == vlans[vid]
         added == IF mac # real.mac THEN [real.uc EXCEPT ![mac] = Filtered(@, 1)] ELSE real.uc
         moved == [real EXCEPT !.uc = IF v.mac # real.mac THEN [added EXCEPT ![v.mac] = Filtered(@, -1)]
                                      ELSE added]
     IN IF ~v.up THEN Only(real, [vlans EXCEPT ![vid].mac = mac])
        ELSE IF mac # real.mac /\ nomem THEN Only(real, vlans)
        ELSE Only(moved, [vlans EXCEPT ![vid].mac = mac])
  /\ UNCHANGED joined

\* vlan_dev_change_rx_flags, called while the device is up.
SetRx(vid, f) ==
  /\ Unlocked /\ vid \in DOMAIN vlans
  /\ LET on == f \notin vlans[vid].rx IN
       Only(IF vlans[vid].up THEN [real EXCEPT !.rx[f] = @ + (IF on THEN 1 ELSE -1)] ELSE real,
            [vlans EXCEPT ![vid].rx = IF on THEN @ \cup {f} ELSE @ \ {f}])
  /\ UNCHANGED joined

vlan_dev_change_flags(vid, flags) ==
  /\ Unlocked /\ vid \in DOMAIN vlans
  /\ LET v == vlans[vid] IN
     /\ Only(real, [vlans EXCEPT ![vid].flags = flags])
     /\ joined' = IF ~v.up \/ ("gvrp" \in flags <=> "gvrp" \in v.flags) THEN joined
                  ELSE IF "gvrp" \in flags THEN joined \cup {vid} ELSE joined \ {vid}

SetMtu(vid, mtu) ==
  /\ Unlocked /\ vid \in DOMAIN vlans /\ mtu <= real.mtu
  /\ Only(real, [vlans EXCEPT ![vid].mtu = mtu])
  /\ UNCHANGED joined

----------------------------------------------------------------------------
(* Events of the real device (vlan_device_event). *)

Slots  == IF vlgrp = None THEN {} ELSE groups[vlgrp].slots

\* The devices in Fail are refused what they ask for first.
RealUp(Fail) ==
  /\ Unlocked /\ ~real.up
  /\ LET Now == {vid \in Slots :
                   /\ ~vlans[vid].up /\ "loose" \notin vlans[vid].flags
                   /\ vid \in Fail => Granted(real, vlans[vid], 0)}
         V   == [vid \in DOMAIN vlans |-> IF vid \in Now THEN Opened(real, vlans[vid]) ELSE vlans[vid]]
     IN /\ Only(Ask([real EXCEPT !.up = TRUE], Now, Everything, 1), V)
        /\ joined' = joined \cup {vid \in Now : Announces(V[vid])}

RealDown ==
  /\ Unlocked /\ real.up
  /\ LET Now == {vid \in Slots : vlans[vid].up /\ "loose" \notin vlans[vid].flags} IN
       Only(vlan_dev_stop([real EXCEPT !.up = FALSE], Now),
            [vid \in DOMAIN vlans |-> [vlans[vid] EXCEPT !.up = @ /\ vid \notin Now]])
  /\ UNCHANGED joined

\* vlan_sync_address: what becomes of the filter for the address of v, which saw the real
\* device's old address last, when that is mac.
SyncForgetsAdd(mac, v) == IF v.seen # mac /\ v.mac # v.seen /\ v.mac = mac THEN -1 ELSE 0
vlan_sync_address(mac, v) ==
  IF v.seen # mac /\ v.mac # v.seen /\ v.mac = mac THEN -1
  ELSE IF v.seen # mac /\ v.mac = v.seen /\ v.mac # mac THEN 1
  ELSE 0

RealMac(mac) ==
  /\ Unlocked /\ mac # real.mac
  /\ LET Now == {vid \in Slots : vlans[vid].up}
         Asking(m, d) == {vid \in Now : vlans[vid].mac = m /\ vlan_sync_address(mac, vlans[vid]) = d}
         uc == [m \in Macs |->
                  Filtered(real.uc[m], Cardinality(Asking(m, 1)) - Cardinality(Asking(m, -1)))]
     IN Only([real EXCEPT !.mac = mac, !.uc = uc],
             [vid \in DOMAIN vlans |-> [vlans[vid] EXCEPT !.seen = IF vid \in Now THEN mac ELSE @]])
  /\ UNCHANGED joined

RealMtu(mtu) ==
  /\ Unlocked
  /\ Only([real EXCEPT !.mtu = mtu], [vid \in DOMAIN vlans |-> [vlans[vid] EXCEPT !.mtu = Min({@, mtu})]])
  /\ UNCHANGED joined

----------------------------------------------------------------------------
(* Registration. *)

\* register_vlan_dev; fail: the call that does not succeed.  Until the new group is
\* published no receiver can see it, so a failure leaves nothing behind.
Register(vid, mac, mtu, fail) ==
  /\ Unlocked /\ vid \notin DOMAIN vlans /\ mtu <= real.mtu
  /\ fail \in {"none", "prealloc", "register"} \cup (IF vlgrp = None THEN {"group", "applicant"} ELSE {})
  /\ IF fail # "none" THEN UNCHANGED vlanVars
     ELSE \E g \in IF vlgrp = None THEN Grps \ DOMAIN groups ELSE {vlgrp} :
       LET nr  == IF vlgrp = None THEN 0 ELSE groups[g].nr
           grp == [slots |-> Slots \cup {vid}, nr |-> nr + 1, dying |-> FALSE, waits |-> FALSE]
           dev == [up |-> FALSE, mac |-> mac, seen |-> real.mac, mtu |-> mtu, flags |-> {}, rx |-> {}]
       IN /\ groups' = [x \in DOMAIN groups \cup {g} |-> IF x = g THEN grp ELSE groups[x]]
          /\ vlgrp' = g
          /\ vlans' = [x \in DOMAIN vlans \cup {vid} |-> IF x = vid THEN dev ELSE vlans[x]]
          /\ stats' = stats \cup {vid}
          /\ UNCHANGED <<real, joined, rtnl, rx>>

\* The first part of unregister_vlan_dev: the device leaves its group g, and an empty
\* group goes when no receiver can hold it any longer (call_rcu).
KillNow(g, vid) ==
  LET nr == groups[g].nr - 1 IN
  /\ groups' = IF nr = 0 THEN [x \in DOMAIN groups \ {g} |-> groups[x]]
               ELSE [groups EXCEPT ![g].slots = @ \ {vid}, ![g].nr = nr]
  /\ vlgrp' = IF nr = 0 THEN None ELSE vlgrp
  /\ joined' = IF nr = 0 THEN {} ELSE IF "gvrp" \in vlans[vid].flags THEN joined \ {vid} ELSE joined
Unlink(g, vid) ==
  LET nr == groups[g].nr - 1 IN
  /\ groups' = [groups EXCEPT ![g] = [slots |-> @.slots \ {vid}, nr |-> nr, dying |-> nr = 0,
                                      waits |-> nr = 0 /\ rx # Idle]]
  /\ vlgrp' = IF nr = 0 THEN None ELSE vlgrp
  /\ joined' = IF nr = 0 THEN {} ELSE IF "gvrp" \in vlans[vid].flags THEN joined \ {vid} ELSE joined

\* call_rcu runs vlan_rcu_free.
FreeGroup(g) ==
  /\ g \in DOMAIN groups /\ groups[g].dying /\ ~groups[g].waits
  /\ groups' = [x \in DOMAIN groups \ {g} |-> groups[x]]
  /\ UNCHANGED <<real, vlans, joined, vlgrp, stats, rtnl, rx>>

Unregister(vid) ==
  /\ Unlocked /\ vid \in DOMAIN vlans
  /\ Unlink(vlgrp, vid)
  /\ rtnl' = [what |-> "finish", gone |-> {vid}, waits |-> rx # Idle]
  /\ UNCHANGED <<real, vlans, stats, rx>>

\* NETDEV_UNREGISTER of the real device: every VID in turn, and no further than the
\* last device, which takes the group with it.
UnregisterAll ==
  /\ Unlocked /\ vlgrp # None
  /\ rtnl' = [what |-> "all", grp |-> vlgrp, gone |-> {}, left |-> Vids]
  /\ UNCHANGED <<real, vlans, joined, vlgrp, groups, stats, rx>>
AllLeft(left, g) == left
VidsLeft(left, g) == IF groups[g].nr = 1 THEN {} ELSE left
NextVid ==
  /\ rtnl.what = "all" /\ rtnl.left # {}
  /\ LET vid  == Min(rtnl.left)
         rest == rtnl.left \ {vid}
     IN IF vid \in groups[rtnl.grp].slots
        THEN /\ Unlink(rtnl.grp, vid)
             /\ rtnl' = [what |-> "all", grp |-> rtnl.grp, gone |-> rtnl.gone \cup {vid},
                         left |-> VidsLeft(rest, rtnl.grp)]
        ELSE rtnl' = [rtnl EXCEPT !.left = rest] /\ UNCHANGED <<groups, vlgrp, joined>>
  /\ UNCHANGED <<real, vlans, stats, rx>>
AllQueued ==
  /\ rtnl.what = "all" /\ rtnl.left = {}
  /\ rtnl' = [what |-> "finish", gone |-> rtnl.gone, waits |-> rx # Idle]
  /\ UNCHANGED <<real, vlans, joined, vlgrp, groups, stats, rx>>

\* unregister_netdevice_many: the devices are closed, and once the receivers are through
\* vlan_dev_uninit frees their statistics.
Finish ==
  /\ rtnl.what = "finish" /\ ~rtnl.waits
  /\ real' = vlan_dev_stop(real, {vid \in rtnl.gone : vlans[vid].up})
  /\ vlans' = [vid \in DOMAIN vlans \ rtnl.gone |-> vlans[vid]]
  /\ stats' = stats \ rtnl.gone
  /\ rtnl' = Free
  /\ UNCHANGED <<joined, vlgrp, groups, rx>>

----------------------------------------------------------------------------
(* vlan_skb_recv and vlan_hwaccel_do_receive. *)

Receive(vid) ==
  /\ rx = Idle
  /\ rx' = IF vlgrp = None THEN Idle ELSE [at |-> "group", grp |-> vlgrp, vid |-> vid]
  /\ UNCHANGED <<real, vlans, joined, vlgrp, groups, stats, rtnl>>
FindDevice ==
  /\ rx.at = "group"
  /\ IF rx.vid \in groups[rx.grp].slots
     THEN rx' = [at |-> "dev", vid |-> rx.vid] /\ UNCHANGED <<groups, rtnl>>
     ELSE /\ rx' = Idle
          /\ groups' = [g \in DOMAIN groups |-> [groups[g] EXCEPT !.waits = FALSE]]
          /\ rtnl' = IF rtnl.what = "finish" THEN [rtnl EXCEPT !.waits = FALSE] ELSE rtnl
  /\ UNCHANGED <<real, vlans, joined, vlgrp, stats>>
Deliver ==
  /\ rx.at = "dev"
  /\ rx' = Idle
  /\ groups' = [g \in DOMAIN groups |-> [groups[g] EXCEPT !.waits = FALSE]]
  /\ rtnl' = IF rtnl.what = "finish" THEN [rtnl EXCEPT !.waits = FALSE] ELSE rtnl
  /\ UNCHANGED <<real, vlans, joined, vlgrp, stats>>

Next ==
  \/ \E vid \in Vids :
       \/ \E k \in 0..3 : Open(vid, k)
       \/ Stop(vid) \/ Unregister(vid) \/ Receive(vid)
       \/ \E mac \in Macs, nomem \in BOOLEAN : SetMac(vid, mac, nomem)
       \/ \E f \in RxFlags : SetRx(vid, f)
       \/ \E flags \in SUBSET Flags : vlan_dev_change_flags(vid, flags)
       \/ \E mtu \in Mtus : SetMtu(vid, mtu)
       \/ \E mac \in Macs, mtu \in Mtus, fail \in {"none", "group", "applicant", "prealloc", "register"} :
            Register(vid, mac, mtu, fail)
  \/ \E Fail \in SUBSET Vids : RealUp(Fail)
  \/ RealDown
  \/ \E mac \in Macs : RealMac(mac)
  \/ \E mtu \in Mtus : RealMtu(mtu)
  \/ UnregisterAll \/ NextVid \/ AllQueued \/ Finish
  \/ \E g \in Grps : FreeGroup(g)
  \/ FindDevice \/ Deliver

Spec == Init /\ [][Next]_vlanVars

----------------------------------------------------------------------------
\* The real device is asked for exactly what the VLAN devices that are up need: a unicast
\* filter for every address that is not its own and the receive flags, an announcement for
\* GVRP unless one is being unregistered, and no longer frames than it carries; over
\* changed addresses and flags, opens that fail half-way, and devices that go down beneath
\* their VLANs.
RealDeviceTold ==
  LET Up == {vid \in DOMAIN vlans : vlans[vid].up} IN
  /\ \A m \in Macs :
       real.uc[m] = Cardinality({vid \in Up : vlans[vid].mac = m /\ m # real.mac})
  /\ \A f \in RxFlags : real.rx[f] = Cardinality({vid \in Up : f \in vlans[vid].rx})
  /\ rtnl = Free => \A vid \in Up : "gvrp" \in vlans[vid].flags => vid \in joined
  /\ \A vid \in DOMAIN vlans : vlans[vid].mtu <= real.mtu

\* A receiver never uses a group or the statistics of a device that are freed, the group
\* lists the registered devices and there is one only while there are any.
ReceiversSafe ==
  /\ rx.at = "group" => rx.grp \in DOMAIN groups
  /\ rx.at = "dev" => rx.vid \in stats
  /\ rtnl.what = "all" /\ rtnl.left # {} => rtnl.grp \in DOMAIN groups
  /\ rtnl = Free =>
       /\ vlgrp = None <=> DOMAIN vlans = {}
       /\ vlgrp # None => /\ groups[vlgrp].slots = DOMAIN vlans
                          /\ groups[vlgrp].nr = Cardinality(DOMAIN vlans)
=============================================================================
