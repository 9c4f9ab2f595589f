----------------------------- MODULE VlanProofs -----------------------------
(***************************************************************************)
(* The VLAN devices: what a receiver holds is not freed while it holds it, *)
(* and the real device is asked for what the devices that are up need.     *)
(***************************************************************************)
EXTENDS MCLibrary, FiniteSetTheorems, TLAPS

-----------------------------------------------------------------------------
(* The invariant. *)

GroupType == [slots : SUBSET Vids, nr : Nat, dying : BOOLEAN, waits : BOOLEAN]
RtnlType ==
  {V!Free} \cup [what : {"all"}, grp : V!Grps, gone : SUBSET Vids, left : SUBSET Vids]
         \cup [what : {"finish"}, gone : SUBSET Vids, waits : BOOLEAN]
RxType == {V!Idle} \cup [at : {"group"}, grp : V!Grps, vid : Vids] \cup [at : {"dev"}, vid : Vids]

VlanTypes ==
  /\ DOMAIN vlans \subseteq Vids /\ stats = DOMAIN vlans
  /\ vlgrp \in V!Grps \cup {V!None}
  /\ DOMAIN groups \subseteq V!Grps /\ groups \in [DOMAIN groups -> GroupType]
  /\ rtnl \in RtnlType /\ rx \in RxType

\* Devices that are taken out of their group but not yet closed.
Gone == IF rtnl = V!Free THEN {} ELSE rtnl.gone

\* The group in use has devices; every other one is empty and given up.
GroupsCounted ==
  /\ vlgrp # V!None => vlgrp \in DOMAIN groups
  /\ \A g \in DOMAIN groups :
       /\ IsFiniteSet(groups[g].slots) /\ groups[g].nr = Cardinality(groups[g].slots)
       /\ IF g = vlgrp THEN ~groups[g].dying /\ groups[g].slots # {}
                       ELSE groups[g].dying /\ groups[g].slots = {}

\* The group in use lists the devices that are not gone.
DevicesListed == DOMAIN vlans = V!Slots \cup Gone /\ V!Slots \cap Gone = {}

\* The walk over the VIDs ends with the group.
Walk == rtnl.what = "all" /\ rtnl.left # {} => rtnl.grp = vlgrp /\ vlgrp # V!None

\* Whatever is given up waits for the receiver that holds it.
Held ==
  /\ rx.at = "group" =>
       rx.grp \in DOMAIN groups /\ (groups[rx.grp].dying => groups[rx.grp].waits)
  /\ rx.at = "dev" =>
       rx.vid \in DOMAIN vlans /\ (rtnl.what = "finish" /\ rx.vid \in rtnl.gone => rtnl.waits)

VlanInv == VlanTypes /\ GroupsCounted /\ DevicesListed /\ Walk /\ Held

-----------------------------------------------------------------------------
LEMMA VlanInit ==
  ASSUME V!Init
  PROVE  VlanInv
<1> USE DEF V!Init, V!Free, V!Idle, V!None, V!Grps
<1>1. DOMAIN vlans = {} /\ DOMAIN groups = {}
  OBVIOUS
<1>2. VlanTypes
  BY <1>1 DEF VlanTypes, RtnlType, RxType
<1>3. GroupsCounted /\ DevicesListed
  BY <1>1 DEF GroupsCounted, DevicesListed, V!Slots, Gone
<1>4. Walk /\ Held
  BY DEF Walk, Held
<1>5. QED
  BY <1>2, <1>3, <1>4 DEF VlanInv

\* What the real device is asked for, addresses, flags and sizes: no device comes or goes.
SameDevices == DOMAIN vlans' = DOMAIN vlans /\ UNCHANGED <<vlgrp, groups, stats, rtnl, rx>>

LEMMA SameDevicesKeeps ==
  ASSUME VlanInv, SameDevices
  PROVE  VlanInv'
BY DEF SameDevices, VlanInv, VlanTypes, GroupsCounted, DevicesListed, V!Slots, Gone, Walk, Held

LEMMA DevicesStay ==
  ASSUME NEW vid \in Vids,
         \/ \E k \in 0..3 : V!Open(vid, k)
         \/ V!Stop(vid)
         \/ \E mac \in Macs, nomem \in BOOLEAN : V!SetMac(vid, mac, nomem)
         \/ \E f \in RxFlags : V!SetRx(vid, f)
         \/ \E flags \in SUBSET VlanFlags : V!vlan_dev_change_flags(vid, flags)
         \/ \E mtu \in Mtus : V!SetMtu(vid, mtu)
  PROVE  SameDevices
<1> USE DEF V!Only, SameDevices
<1>1. CASE \E k \in 0..3 : V!Open(vid, k)
  BY <1>1 DEF V!Open
<1>2. CASE V!Stop(vid)
  BY <1>2 DEF V!Stop
<1>3. CASE \E mac \in Macs, nomem \in BOOLEAN : V!SetMac(vid, mac, nomem)
  BY <1>3 DEF V!SetMac
<1>4. CASE \E f \in RxFlags : V!SetRx(vid, f)
  BY <1>4 DEF V!SetRx
<1>5. CASE \E flags \in SUBSET VlanFlags : V!vlan_dev_change_flags(vid, flags)
  BY <1>5 DEF V!vlan_dev_change_flags
<1>6. CASE \E mtu \in Mtus : V!SetMtu(vid, mtu)
  BY <1>6 DEF V!SetMtu
<1>7. QED
  BY <1>1, <1>2, <1>3, <1>4, <1>5, <1>6

LEMMA EventsStay ==
  ASSUME \/ \E Fail \in SUBSET Vids : V!RealUp(Fail)
         \/ V!RealDown
         \/ \E mac \in Macs : V!RealMac(mac)
         \/ \E mtu \in Mtus : V!RealMtu(mtu)
  PROVE  SameDevices
<1> USE DEF V!Only, SameDevices
<1>1. CASE \E Fail \in SUBSET Vids : V!RealUp(Fail)
  BY <1>1, Zenon DEF V!RealUp
<1>2. CASE V!RealDown
  BY <1>2, Zenon DEF V!RealDown
<1>3. CASE \E mac \in Macs : V!RealMac(mac)
  BY <1>3, Zenon DEF V!RealMac
<1>4. CASE \E mtu \in Mtus : V!RealMtu(mtu)
  BY <1>4 DEF V!RealMtu
<1>5. QED
  BY <1>1, <1>2, <1>3, <1>4

LEMMA VlanCardinality == \A T : V!Cardinality(T) = Cardinality(T)
BY Zenon DEF V!Cardinality, Cardinality

\* A device joins the group of its real device, made for it when there is none.
LEMMA RegisterKeeps ==
  ASSUME VlanInv, NEW vid \in Vids, NEW mac \in Macs, NEW mtu \in Mtus, NEW fail,
         V!Register(vid, mac, mtu, fail)
  PROVE  VlanInv'
<1> USE DEF V!Grps, V!None
<1>1. VlanTypes /\ GroupsCounted /\ DevicesListed /\ Walk /\ Held
  BY DEF VlanInv
<1>2. CASE fail # "none"
  <2>1. UNCHANGED V!vlanVars
    BY <1>2 DEF V!Register
  <2>2. QED
    BY <1>1, <2>1 DEF V!vlanVars, VlanInv, VlanTypes, GroupsCounted, DevicesListed, V!Slots, Gone, Walk, Held
<1>3. CASE fail = "none"
  <2>1. PICK g \in IF vlgrp = V!None THEN V!Grps \ DOMAIN groups ELSE {vlgrp} :
          LET nr  == IF vlgrp = V!None THEN 0 ELSE groups[g].nr
              grp == [slots |-> V!Slots \cup {vid}, nr |-> nr + 1, dying |-> FALSE, waits |-> FALSE]
              dev == [up |-> FALSE, mac |-> mac, seen |-> real.mac, mtu |-> mtu, flags |-> {}, rx |-> {}]
          IN /\ groups' = [x \in DOMAIN groups \cup {g} |-> IF x = g THEN grp ELSE groups[x]]
             /\ vlgrp' = g
             /\ vlans' = [x \in DOMAIN vlans \cup {vid} |-> IF x = vid THEN dev ELSE vlans[x]]
             /\ stats' = stats \cup {vid}
             /\ UNCHANGED <<real, joined, rtnl, rx>>
    BY <1>3 DEF V!Register
  <2>2. rtnl = V!Free /\ vid \notin DOMAIN vlans /\ UNCHANGED <<rtnl, rx>>
    BY <2>1 DEF V!Register, V!Unlocked
  <2>3. g \in V!Grps /\ (vlgrp = V!None => g \notin DOMAIN groups) /\ (vlgrp # V!None => g = vlgrp /\ g \in DOMAIN groups)
    BY <1>1, <2>1 DEF VlanTypes, GroupsCounted
  <2>4. PICK nr : nr = IF vlgrp = V!None THEN 0 ELSE groups[g].nr
    OBVIOUS
  <2>5. IsFiniteSet(V!Slots) /\ nr = Cardinality(V!Slots) /\ nr \in Nat /\ V!Slots \subseteq Vids
    <3>1. CASE vlgrp = V!None
      BY <2>4, <3>1, FS_EmptySet DEF V!Slots
    <3>2. CASE vlgrp # V!None
      <4>1. groups[g] \in GroupType
        BY <1>1, <2>3, <3>2 DEF VlanTypes
      <4>2. QED
        BY <1>1, <2>3, <2>4, <3>2, <4>1 DEF GroupsCounted, GroupType, V!Slots
    <3>3. QED
      BY <3>1, <3>2
  <2>6. DOMAIN vlans = V!Slots /\ Gone = {} /\ Gone' = {}
    BY <1>1, <2>2 DEF DevicesListed, Gone
  <2>7. IsFiniteSet(V!Slots \cup {vid}) /\ Cardinality(V!Slots \cup {vid}) = nr + 1
    BY <2>2, <2>5, <2>6, FS_AddElement
  <2>8. /\ DOMAIN groups' = DOMAIN groups \cup {g}
        /\ groups'[g] = [slots |-> V!Slots \cup {vid}, nr |-> nr + 1, dying |-> FALSE, waits |-> FALSE]
        /\ \A x \in DOMAIN groups : x # g => groups'[x] = groups[x]
        /\ groups' = [x \in DOMAIN groups' |-> groups'[x]]
        /\ DOMAIN vlans' = DOMAIN vlans \cup {vid} /\ vlgrp' = g /\ stats' = stats \cup {vid}
    BY <2>1, <2>4
  <2>9. VlanTypes'
    <3>1. groups'[g] \in GroupType
      BY <2>5, <2>8 DEF GroupType
    <3>2. \A x \in DOMAIN groups' : groups'[x] \in GroupType
      BY <1>1, <2>8, <3>1 DEF VlanTypes
    <3>3. groups' \in [DOMAIN groups' -> GroupType]
      BY <2>8, <3>2
    <3>4. QED
      BY <1>1, <2>2, <2>3, <2>8, <3>3 DEF VlanTypes
  <2>10. GroupsCounted'
    <3>1. ASSUME NEW x \in DOMAIN groups'
          PROVE  /\ IsFiniteSet(groups'[x].slots) /\ groups'[x].nr = Cardinality(groups'[x].slots)
                 /\ IF x = g THEN ~groups'[x].dying /\ groups'[x].slots # {}
                             ELSE groups'[x].dying /\ groups'[x].slots = {}
      <4>1. CASE x = g
        BY <2>7, <2>8, <4>1
      <4>2. CASE x # g
        <5>1. x \in DOMAIN groups /\ groups'[x] = groups[x] /\ x # vlgrp
          BY <1>1, <2>3, <2>8, <4>2 DEF VlanTypes
        <5>2. QED
          BY <1>1, <4>2, <5>1 DEF GroupsCounted
      <4>3. QED
        BY <4>1, <4>2
    <3>2. QED
      BY <2>8, <3>1 DEF GroupsCounted
  <2>11. DevicesListed'
    <3>1. V!Slots' = V!Slots \cup {vid}
      BY <2>3, <2>8 DEF V!Slots
    <3>2. QED
      BY <2>6, <2>8, <3>1 DEF DevicesListed
  <2>12. Walk'
    BY <2>2 DEF Walk, V!Free
  <2>13. Held'
    <3>1. ASSUME rx.at = "group"
          PROVE  rx.grp \in DOMAIN groups' /\ (groups'[rx.grp].dying => groups'[rx.grp].waits)
      <4>1. rx.grp \in DOMAIN groups /\ (groups[rx.grp].dying => groups[rx.grp].waits)
        BY <1>1, <3>1 DEF Held
      <4>2. QED
        BY <2>8, <4>1
    <3>2. QED
      BY <1>1, <2>2, <2>8, <3>1 DEF Held
  <2>14. QED
    BY <2>9, <2>10, <2>11, <2>12, <2>13 DEF VlanInv
<1>4. QED
  BY <1>2, <1>3

-----------------------------------------------------------------------------
(* A device leaves its group, and the last one takes the group with it. *)

LEMMA UnlinkKeeps ==
  ASSUME VlanInv, NEW vid \in Vids, vlgrp # V!None, vid \in V!Slots,
         V!Unlink(vlgrp, vid), UNCHANGED rx
  PROVE  /\ DOMAIN groups' = DOMAIN groups /\ groups' \in [DOMAIN groups' -> GroupType]
         /\ vlgrp' \in V!Grps \cup {V!None} /\ GroupsCounted' /\ V!Slots' = V!Slots \ {vid}
         /\ rx.at = "group" =>
              rx.grp \in DOMAIN groups' /\ (groups'[rx.grp].dying => groups'[rx.grp].waits)
         /\ groups[vlgrp].nr # 1 => vlgrp' = vlgrp
<1> USE DEF V!Grps, V!None
<1>1. VlanTypes /\ GroupsCounted /\ DevicesListed /\ Walk /\ Held
  BY DEF VlanInv
<1>2. vlgrp \in DOMAIN groups /\ groups[vlgrp] \in GroupType /\ V!Slots = groups[vlgrp].slots
  BY <1>1 DEF VlanTypes, GroupsCounted, V!Slots
<1>3. PICK nr : nr = groups[vlgrp].nr - 1
  OBVIOUS
<1>4. /\ DOMAIN groups' = DOMAIN groups /\ groups' = [x \in DOMAIN groups' |-> groups'[x]]
      /\ groups'[vlgrp] = [slots |-> V!Slots \ {vid}, nr |-> nr, dying |-> nr = 0,
                           waits |-> nr = 0 /\ rx # V!Idle]
      /\ \A x \in DOMAIN groups : x # vlgrp => groups'[x] = groups[x]
      /\ vlgrp' = IF nr = 0 THEN V!None ELSE vlgrp
  BY <1>2, <1>3 DEF V!Unlink
<1>5. IsFiniteSet(V!Slots) /\ groups[vlgrp].nr = Cardinality(V!Slots) /\ groups[vlgrp].nr \in Nat
  BY <1>1, <1>2 DEF GroupsCounted, GroupType
<1>6. IsFiniteSet(V!Slots \ {vid}) /\ Cardinality(V!Slots \ {vid}) = nr
  BY <1>3, <1>5, FS_RemoveElement
<1>7. nr \in Nat /\ (nr = 0 <=> V!Slots \ {vid} = {})
  BY <1>6, FS_CardinalityType, FS_EmptySet
<1>8. groups' \in [DOMAIN groups' -> GroupType]
  <2>1. groups'[vlgrp] \in GroupType
    BY <1>2, <1>4, <1>7 DEF GroupType
  <2>2. \A x \in DOMAIN groups' : groups'[x] \in GroupType
    BY <1>1, <1>4, <2>1 DEF VlanTypes
  <2>3. QED
    BY <1>4, <2>2
<1>9. vlgrp' \in V!Grps \cup {V!None} /\ (vlgrp' # V!None => vlgrp' \in DOMAIN groups')
  BY <1>1, <1>2, <1>4 DEF VlanTypes
<1>10. GroupsCounted'
  <2>1. ASSUME NEW x \in DOMAIN groups'
        PROVE  /\ IsFiniteSet(groups'[x].slots) /\ groups'[x].nr = Cardinality(groups'[x].slots)
               /\ IF x = vlgrp' THEN ~groups'[x].dying /\ groups'[x].slots # {}
                                ELSE groups'[x].dying /\ groups'[x].slots = {}
    <3>1. x \in DOMAIN groups /\ x # V!None
      BY <1>1, <1>4 DEF VlanTypes
    <3>2. CASE x = vlgrp
      <4>1. /\ groups'[x].slots = V!Slots \ {vid} /\ groups'[x].nr = nr /\ groups'[x].dying = (nr = 0)
        BY <1>4, <3>2
      <4>2. x = vlgrp' <=> nr # 0
        BY <1>4, <3>1, <3>2
      <4>3. QED
        BY <1>6, <1>7, <4>1, <4>2
    <3>3. CASE x # vlgrp
      <4>1. groups'[x] = groups[x] /\ x # vlgrp'
        BY <1>4, <3>1, <3>3
      <4>2. QED
        BY <1>1, <3>1, <3>3, <4>1 DEF GroupsCounted
    <3>4. QED
      BY <3>2, <3>3
  <2>2. QED
    BY <1>9, <2>1 DEF GroupsCounted
<1>11. V!Slots' = V!Slots \ {vid}
  <2>1. CASE nr = 0
    BY <1>4, <1>7, <2>1 DEF V!Slots
  <2>2. CASE nr # 0
    <3>1. V!Slots' = groups'[vlgrp].slots
      BY <1>4, <2>2 DEF V!Slots
    <3>2. QED
      BY <1>4, <3>1
  <2>3. QED
    BY <2>1, <2>2
<1>12. ASSUME rx.at = "group"
       PROVE  rx.grp \in DOMAIN groups' /\ (groups'[rx.grp].dying => groups'[rx.grp].waits)
  <2>1. rx # V!Idle
    BY <1>12 DEF V!Idle
  <2>2. rx.grp \in DOMAIN groups /\ (groups[rx.grp].dying => groups[rx.grp].waits)
    BY <1>1, <1>12 DEF Held
  <2>3. QED
    BY <1>4, <2>1, <2>2
<1>13. groups[vlgrp].nr # 1 => vlgrp' = vlgrp
  BY <1>3, <1>4, <1>5
<1>14. QED
  BY <1>4, <1>8, <1>9, <1>10, <1>11, <1>12, <1>13

LEMMA UnregisterKeeps ==
  ASSUME VlanInv, NEW vid \in Vids, V!Unregister(vid)
  PROVE  VlanInv'
<1>1. VlanTypes /\ GroupsCounted /\ DevicesListed /\ Walk /\ Held
  BY DEF VlanInv
<1>2. /\ rtnl = V!Free /\ vid \in DOMAIN vlans /\ V!Unlink(vlgrp, vid)
      /\ rtnl' = [what |-> "finish", gone |-> {vid}, waits |-> rx # V!Idle]
      /\ UNCHANGED <<vlans, stats, rx>>
  BY DEF V!Unregister, V!Unlocked
<1>3. Gone = {} /\ DOMAIN vlans = V!Slots
  BY <1>1, <1>2 DEF DevicesListed, Gone
<1>4. vlgrp # V!None
  BY <1>2, <1>3 DEF V!Slots
<1>5. /\ groups' \in [DOMAIN groups' -> GroupType] /\ DOMAIN groups' = DOMAIN groups
      /\ vlgrp' \in V!Grps \cup {V!None} /\ GroupsCounted' /\ V!Slots' = V!Slots \ {vid}
      /\ rx.at = "group" =>
           rx.grp \in DOMAIN groups' /\ (groups'[rx.grp].dying => groups'[rx.grp].waits)
  BY <1>2, <1>3, <1>4, UnlinkKeeps
<1>6. rtnl' \in RtnlType
  BY <1>2 DEF RtnlType
<1>7. VlanTypes'
  BY <1>1, <1>2, <1>5, <1>6 DEF VlanTypes
<1>8. Gone' = {vid}
  BY <1>2 DEF Gone, V!Free
<1>9. DevicesListed'
  BY <1>2, <1>3, <1>5, <1>8 DEF DevicesListed
<1>10. Walk'
  BY <1>2 DEF Walk
<1>11. Held'
  <2>1. rx.at = "dev" => rx # V!Idle
    BY DEF V!Idle
  <2>2. QED
    BY <1>1, <1>2, <1>5, <2>1 DEF Held
<1>12. QED
  BY <1>5, <1>7, <1>9, <1>10, <1>11 DEF VlanInv

LEMMA NextVidKeeps ==
  ASSUME VlanInv, V!NextVid
  PROVE  VlanInv'
<1>1. VlanTypes /\ GroupsCounted /\ DevicesListed /\ Walk /\ Held
  BY DEF VlanInv
<1>2. PICK vid : vid = V!Min(rtnl.left)
  OBVIOUS
<1>3. /\ rtnl.what = "all" /\ rtnl.left # {} /\ UNCHANGED <<vlans, stats, rx>>
      /\ IF vid \in groups[rtnl.grp].slots
         THEN /\ V!Unlink(rtnl.grp, vid)
              /\ rtnl' = [what |-> "all", grp |-> rtnl.grp, gone |-> rtnl.gone \cup {vid},
                          left |-> V!VidsLeft(rtnl.left \ {vid}, rtnl.grp)]
         ELSE rtnl' = [rtnl EXCEPT !.left = rtnl.left \ {vid}] /\ UNCHANGED <<groups, vlgrp, joined>>
  BY <1>2 DEF V!NextVid
<1>4. rtnl.grp = vlgrp /\ vlgrp # V!None /\ vlgrp \in DOMAIN groups
  BY <1>1, <1>3 DEF Walk, GroupsCounted
<1>5. /\ rtnl \in [what : {"all"}, grp : V!Grps, gone : SUBSET Vids, left : SUBSET Vids]
      /\ rtnl # V!Free /\ V!Slots = groups[vlgrp].slots
  BY <1>1, <1>3, <1>4 DEF VlanTypes, RtnlType, V!Free, V!Slots
<1>6. CASE vid \in groups[rtnl.grp].slots
  <2>1. vid \in Vids /\ vid \in V!Slots
    <3>1. groups[vlgrp] \in GroupType
      BY <1>1, <1>4 DEF VlanTypes
    <3>2. QED
      BY <1>4, <1>5, <1>6, <3>1 DEF GroupType
  <2>2. /\ groups' \in [DOMAIN groups' -> GroupType] /\ DOMAIN groups' = DOMAIN groups
        /\ vlgrp' \in V!Grps \cup {V!None} /\ GroupsCounted' /\ V!Slots' = V!Slots \ {vid}
        /\ rx.at = "group" =>
             rx.grp \in DOMAIN groups' /\ (groups'[rx.grp].dying => groups'[rx.grp].waits)
        /\ groups[vlgrp].nr # 1 => vlgrp' = vlgrp
    BY <1>3, <1>4, <1>6, <2>1, UnlinkKeeps
  <2>3. PICK left : left = V!VidsLeft(rtnl.left \ {vid}, rtnl.grp)
    OBVIOUS
  <2>4. left \subseteq Vids /\ (groups[vlgrp].nr = 1 => left = {})
    BY <1>4, <1>5, <2>3 DEF V!VidsLeft
  <2>5. rtnl' = [what |-> "all", grp |-> vlgrp, gone |-> rtnl.gone \cup {vid}, left |-> left]
    BY <1>3, <1>4, <1>6, <2>3
  <2>6. VlanTypes'
    <3>1. rtnl' \in RtnlType
      BY <1>4, <1>5, <2>1, <2>4, <2>5 DEF RtnlType
    <3>2. QED
      BY <1>1, <1>3, <2>2, <3>1 DEF VlanTypes
  <2>7. DevicesListed'
    <3>1. Gone = rtnl.gone /\ Gone' = rtnl.gone \cup {vid}
      BY <1>5, <2>5 DEF Gone, V!Free
    <3>2. QED
      BY <1>1, <1>3, <2>1, <2>2, <3>1 DEF DevicesListed
  <2>8. Walk'
    BY <1>4, <2>2, <2>4, <2>5 DEF Walk
  <2>9. Held'
    BY <1>1, <1>3, <2>2, <2>5 DEF Held
  <2>10. QED
    BY <2>2, <2>6, <2>7, <2>8, <2>9 DEF VlanInv
<1>7. CASE vid \notin groups[rtnl.grp].slots
  <2>1. PICK left : left = rtnl.left \ {vid}
    OBVIOUS
  <2>2. rtnl' = [what |-> "all", grp |-> vlgrp, gone |-> rtnl.gone, left |-> left]
    BY <1>3, <1>4, <1>5, <1>7, <2>1
  <2>3. VlanTypes'
    <3>1. rtnl' \in RtnlType
      BY <1>4, <1>5, <2>1, <2>2 DEF RtnlType
    <3>2. QED
      BY <1>1, <1>3, <1>7, <3>1 DEF VlanTypes
  <2>4. GroupsCounted' /\ V!Slots' = V!Slots
    BY <1>1, <1>3, <1>7 DEF GroupsCounted, V!Slots
  <2>5. Gone = rtnl.gone /\ Gone' = rtnl.gone
    BY <1>5, <2>2 DEF Gone, V!Free
  <2>6. DevicesListed'
    BY <1>1, <1>3, <2>4, <2>5 DEF DevicesListed
  <2>7. Walk' /\ Held'
    BY <1>1, <1>3, <1>4, <1>7, <2>2 DEF Walk, Held
  <2>8. QED
    BY <2>3, <2>4, <2>6, <2>7 DEF VlanInv
<1>8. QED
  BY <1>6, <1>7

LEMMA QueuedKeeps ==
  ASSUME VlanInv, V!UnregisterAll \/ V!AllQueued
  PROVE  VlanInv'
<1>1. VlanTypes /\ GroupsCounted /\ DevicesListed /\ Walk /\ Held
  BY DEF VlanInv
<1>2. UNCHANGED <<vlans, vlgrp, groups, stats, rx>>
  BY DEF V!UnregisterAll, V!AllQueued
<1>3. GroupsCounted' /\ V!Slots' = V!Slots
  BY <1>1, <1>2 DEF GroupsCounted, V!Slots
<1>4. rx.at = "dev" => rx # V!Idle
  BY DEF V!Idle
<1>5. CASE V!UnregisterAll
  <2>1. /\ rtnl = V!Free /\ vlgrp # V!None /\ vlgrp \in V!Grps
        /\ rtnl' = [what |-> "all", grp |-> vlgrp, gone |-> {}, left |-> Vids]
    BY <1>1, <1>5 DEF V!UnregisterAll, V!Unlocked, VlanTypes
  <2>2. rtnl' \in RtnlType
    BY <2>1 DEF RtnlType
  <2>3. Gone = {} /\ Gone' = {}
    BY <2>1 DEF Gone, V!Free
  <2>4. VlanTypes'
    BY <1>1, <1>2, <2>2 DEF VlanTypes
  <2>5. DevicesListed'
    BY <1>1, <1>2, <1>3, <2>3 DEF DevicesListed
  <2>6. Walk' /\ Held'
    BY <1>1, <1>2, <2>1 DEF Walk, Held
  <2>7. QED
    BY <1>3, <2>4, <2>5, <2>6 DEF VlanInv
<1>6. CASE V!AllQueued
  <2>1. rtnl.what = "all" /\ rtnl' = [what |-> "finish", gone |-> rtnl.gone, waits |-> rx # V!Idle]
    BY <1>6 DEF V!AllQueued
  <2>2. rtnl.gone \subseteq Vids /\ Gone = rtnl.gone /\ Gone' = rtnl.gone
    BY <1>1, <2>1 DEF VlanTypes, RtnlType, Gone, V!Free
  <2>3. rtnl' \in RtnlType
    BY <2>1, <2>2 DEF RtnlType
  <2>4. VlanTypes'
    BY <1>1, <1>2, <2>3 DEF VlanTypes
  <2>5. DevicesListed'
    BY <1>1, <1>2, <1>3, <2>2 DEF DevicesListed
  <2>6. Walk' /\ Held'
    BY <1>1, <1>2, <1>4, <2>1 DEF Walk, Held
  <2>7. QED
    BY <1>3, <2>4, <2>5, <2>6 DEF VlanInv
<1>7. QED
  BY <1>5, <1>6

\* The statistics are freed once no receiver can have found the device.
LEMMA FinishKeeps ==
  ASSUME VlanInv, V!Finish
  PROVE  VlanInv'
<1>1. VlanTypes /\ GroupsCounted /\ DevicesListed /\ Walk /\ Held
  BY DEF VlanInv
<1>2. /\ rtnl.what = "finish" /\ ~rtnl.waits /\ rtnl' = V!Free
      /\ vlans' = [vid \in DOMAIN vlans \ rtnl.gone |-> vlans[vid]]
      /\ stats' = stats \ rtnl.gone /\ UNCHANGED <<vlgrp, groups, rx>>
  BY Zenon DEF V!Finish
<1>3. Gone = rtnl.gone /\ Gone' = {} /\ V!Slots' = V!Slots
  BY <1>2 DEF Gone, V!Free, V!Slots
<1>4. DOMAIN vlans' = DOMAIN vlans \ rtnl.gone
  BY <1>2
<1>5. VlanTypes'
  BY <1>1, <1>2, <1>4 DEF VlanTypes, RtnlType
<1>6. GroupsCounted'
  BY <1>1, <1>2 DEF GroupsCounted
<1>7. DevicesListed'
  BY <1>1, <1>3, <1>4 DEF DevicesListed
<1>8. Walk' /\ Held'
  BY <1>1, <1>2, <1>4 DEF Walk, Held, V!Free
<1>9. QED
  BY <1>5, <1>6, <1>7, <1>8 DEF VlanInv

\* A group that is given up is freed once no receiver can have found it.
LEMMA FreeKeeps ==
  ASSUME VlanInv, NEW g \in V!Grps, V!FreeGroup(g)
  PROVE  VlanInv'
<1>1. VlanTypes /\ GroupsCounted /\ DevicesListed /\ Walk /\ Held
  BY DEF VlanInv
<1>2. /\ g \in DOMAIN groups /\ groups[g].dying /\ ~groups[g].waits
      /\ groups' = [x \in DOMAIN groups \ {g} |-> groups[x]]
      /\ UNCHANGED <<vlans, vlgrp, stats, rtnl, rx>>
  BY DEF V!FreeGroup
<1>3. DOMAIN groups' = DOMAIN groups \ {g} /\ \A x \in DOMAIN groups' : groups'[x] = groups[x]
  BY <1>2
<1>4. g # vlgrp
  BY <1>1, <1>2 DEF GroupsCounted
<1>5. VlanTypes'
  <2>1. groups' \in [DOMAIN groups' -> GroupType]
    BY <1>1, <1>2 DEF VlanTypes
  <2>2. QED
    BY <1>1, <1>2, <1>3, <2>1 DEF VlanTypes
<1>6. GroupsCounted'
  <2>1. vlgrp' # V!None => vlgrp' \in DOMAIN groups'
    BY <1>1, <1>2, <1>3, <1>4 DEF GroupsCounted
  <2>2. ASSUME NEW x \in DOMAIN groups'
        PROVE  /\ IsFiniteSet(groups'[x].slots) /\ groups'[x].nr = Cardinality(groups'[x].slots)
               /\ IF x = vlgrp' THEN ~groups'[x].dying /\ groups'[x].slots # {}
                                ELSE groups'[x].dying /\ groups'[x].slots = {}
    BY <1>1, <1>2, <1>3 DEF GroupsCounted
  <2>3. QED
    BY <2>1, <2>2 DEF GroupsCounted
<1>7. V!Slots' = V!Slots /\ Gone' = Gone
  <2>1. vlgrp # V!None => vlgrp \in DOMAIN groups'
    BY <1>1, <1>3, <1>4 DEF GroupsCounted
  <2>2. QED
    BY <1>2, <1>3, <2>1 DEF V!Slots, Gone
<1>8. DevicesListed'
  BY <1>1, <1>2, <1>7 DEF DevicesListed
<1>9. Walk'
  BY <1>1, <1>2 DEF Walk
<1>10. Held'
  BY <1>1, <1>2, <1>3 DEF Held
<1>11. QED
  BY <1>5, <1>6, <1>8, <1>9, <1>10 DEF VlanInv

-----------------------------------------------------------------------------
(* The receiver. *)

LEMMA ReceiveKeeps ==
  ASSUME VlanInv, NEW vid \in Vids, V!Receive(vid)
  PROVE  VlanInv'
<1>1. VlanTypes /\ GroupsCounted /\ DevicesListed /\ Walk /\ Held
  BY DEF VlanInv
<1>2. /\ rx' = IF vlgrp = V!None THEN V!Idle ELSE [at |-> "group", grp |-> vlgrp, vid |-> vid]
      /\ UNCHANGED <<vlans, vlgrp, groups, stats, rtnl>>
  BY DEF V!Receive
<1>3. VlanTypes'
  <2>1. rx' \in RxType
    BY <1>1, <1>2 DEF VlanTypes, RxType
  <2>2. QED
    BY <1>1, <1>2, <2>1 DEF VlanTypes
<1>4. GroupsCounted' /\ DevicesListed' /\ Walk'
  BY <1>1, <1>2 DEF GroupsCounted, DevicesListed, V!Slots, Gone, Walk
<1>5. Held'
  BY <1>1, <1>2 DEF Held, GroupsCounted, V!Idle
<1>6. QED
  BY <1>3, <1>4, <1>5 DEF VlanInv

\* The receiver is through: nothing waits for it any longer.
LEMMA ThroughKeeps ==
  ASSUME VlanInv, rx' = V!Idle,
         groups' = [g \in DOMAIN groups |-> [groups[g] EXCEPT !.waits = FALSE]],
         rtnl' = IF rtnl.what = "finish" THEN [rtnl EXCEPT !.waits = FALSE] ELSE rtnl,
         UNCHANGED <<vlans, vlgrp, stats>>
  PROVE  VlanInv'
<1>1. VlanTypes /\ GroupsCounted /\ DevicesListed /\ Walk /\ Held
  BY DEF VlanInv
<1>2. DOMAIN groups' = DOMAIN groups /\ groups' = [g \in DOMAIN groups |-> groups'[g]]
  OBVIOUS
<1>3. ASSUME NEW g \in DOMAIN groups
      PROVE  /\ groups'[g] \in GroupType /\ groups'[g].slots = groups[g].slots
             /\ groups'[g].nr = groups[g].nr /\ groups'[g].dying = groups[g].dying
  <2>1. groups[g] \in GroupType /\ groups'[g] = [groups[g] EXCEPT !.waits = FALSE]
    BY <1>1 DEF VlanTypes
  <2>2. QED
    BY <2>1 DEF GroupType
<1>4. rtnl' \in RtnlType /\ rtnl'.what = rtnl.what /\ Gone' = Gone
      /\ (rtnl.what # "finish" => rtnl' = rtnl)
  <2>1. CASE rtnl.what = "finish"
    <3>1. rtnl \in [what : {"finish"}, gone : SUBSET Vids, waits : BOOLEAN]
      BY <1>1, <2>1 DEF VlanTypes, RtnlType, V!Free
    <3>2. rtnl' = [what |-> "finish", gone |-> rtnl.gone, waits |-> FALSE]
      BY <2>1, <3>1
    <3>3. QED
      BY <2>1, <3>1, <3>2 DEF RtnlType, Gone, V!Free
  <2>2. CASE rtnl.what # "finish"
    BY <1>1, <2>2 DEF VlanTypes, Gone
  <2>3. QED
    BY <2>1, <2>2
<1>5. VlanTypes'
  <2>1. groups' \in [DOMAIN groups' -> GroupType]
    BY <1>2, <1>3
  <2>2. rx' \in RxType
    BY DEF RxType
  <2>3. QED
    BY <1>1, <1>2, <1>4, <2>1, <2>2 DEF VlanTypes
<1>6. GroupsCounted'
  BY <1>1, <1>2, <1>3 DEF GroupsCounted
<1>7. V!Slots' = V!Slots
  BY <1>1, <1>3 DEF V!Slots, GroupsCounted
<1>8. DevicesListed'
  BY <1>1, <1>4, <1>7 DEF DevicesListed
<1>9. Walk' /\ Held'
  BY <1>1, <1>4 DEF Walk, Held, V!Idle
<1>10. QED
  BY <1>5, <1>6, <1>8, <1>9 DEF VlanInv

LEMMA FindKeeps ==
  ASSUME VlanInv, V!FindDevice
  PROVE  VlanInv'
<1>1. VlanTypes /\ GroupsCounted /\ DevicesListed /\ Walk /\ Held
  BY DEF VlanInv
<1>2. rx.at = "group" /\ UNCHANGED <<vlans, vlgrp, stats>>
  BY DEF V!FindDevice
<1>3. CASE rx.vid \in groups[rx.grp].slots
  <2>1. rx' = [at |-> "dev", vid |-> rx.vid] /\ UNCHANGED <<groups, rtnl>>
    BY <1>3 DEF V!FindDevice
  <2>2. rx.vid \in Vids /\ rx.grp \in DOMAIN groups
    BY <1>1, <1>2 DEF VlanTypes, RxType, V!Idle, Held
  <2>3. rx.grp = vlgrp /\ rx.vid \in groups[vlgrp].slots
    BY <1>1, <1>3, <2>2 DEF GroupsCounted
  <2>4. rx.vid \in V!Slots
    BY <1>1, <2>2, <2>3 DEF V!Slots, VlanTypes, V!Grps, V!None
  <2>5. rx.vid \in DOMAIN vlans /\ rx.vid \notin Gone
    BY <1>1, <2>4 DEF DevicesListed
  <2>6. rx' \in RxType
    BY <2>1, <2>2 DEF RxType
  <2>7. VlanTypes'
    BY <1>1, <1>2, <2>1, <2>6 DEF VlanTypes
  <2>8. GroupsCounted' /\ DevicesListed' /\ Walk'
    BY <1>1, <1>2, <2>1 DEF GroupsCounted, DevicesListed, V!Slots, Gone, Walk
  <2>9. Held'
    BY <1>2, <2>1, <2>5 DEF Held, Gone, V!Free
  <2>10. QED
    BY <2>7, <2>8, <2>9 DEF VlanInv
<1>4. CASE rx.vid \notin groups[rx.grp].slots
  <2>1. /\ rx' = V!Idle
        /\ groups' = [g \in DOMAIN groups |-> [groups[g] EXCEPT !.waits = FALSE]]
        /\ rtnl' = IF rtnl.what = "finish" THEN [rtnl EXCEPT !.waits = FALSE] ELSE rtnl
    BY <1>4 DEF V!FindDevice
  <2>2. QED
    BY <1>2, <2>1, ThroughKeeps
<1>5. QED
  BY <1>3, <1>4

LEMMA DeliverKeeps ==
  ASSUME VlanInv, V!Deliver
  PROVE  VlanInv'
BY ThroughKeeps DEF V!Deliver

-----------------------------------------------------------------------------
LEMMA VlanStep ==
  ASSUME VlanInv, [V!Next]_V!vlanVars
  PROVE  VlanInv'
<1>1. CASE UNCHANGED V!vlanVars
  BY <1>1 DEF V!vlanVars, VlanInv, VlanTypes, GroupsCounted, DevicesListed, V!Slots, Gone, Walk, Held
<1>2. ASSUME NEW vid \in Vids,
             \/ \E k \in 0..3 : V!Open(vid, k)
             \/ V!Stop(vid)
             \/ \E mac \in Macs, nomem \in BOOLEAN : V!SetMac(vid, mac, nomem)
             \/ \E f \in RxFlags : V!SetRx(vid, f)
             \/ \E flags \in SUBSET VlanFlags : V!vlan_dev_change_flags(vid, flags)
             \/ \E mtu \in Mtus : V!SetMtu(vid, mtu)
      PROVE  VlanInv'
  BY <1>2, DevicesStay, SameDevicesKeeps
<1>3. CASE \/ \E Fail \in SUBSET Vids : V!RealUp(Fail)
           \/ V!RealDown
           \/ \E mac \in Macs : V!RealMac(mac)
           \/ \E mtu \in Mtus : V!RealMtu(mtu)
  BY <1>3, EventsStay, SameDevicesKeeps
<1>4. ASSUME NEW vid \in Vids, V!Unregister(vid) \/ V!Receive(vid)
      PROVE  VlanInv'
  BY <1>4, UnregisterKeeps, ReceiveKeeps
<1>5. ASSUME NEW vid \in Vids, NEW mac \in Macs, NEW mtu \in Mtus, NEW fail,
             V!Register(vid, mac, mtu, fail)
      PROVE  VlanInv'
  BY <1>5, RegisterKeeps
<1>6. CASE V!UnregisterAll \/ V!NextVid \/ V!AllQueued \/ V!Finish
  BY <1>6, QueuedKeeps, NextVidKeeps, FinishKeeps
<1>7. ASSUME NEW g \in V!Grps, V!FreeGroup(g)
      PROVE  VlanInv'
  BY <1>7, FreeKeeps
<1>8. CASE V!FindDevice \/ V!Deliver
  BY <1>8, FindKeeps, DeliverKeeps
<1>9. QED
  BY <1>1, <1>2, <1>3, <1>4, <1>5, <1>6, <1>7, <1>8 DEF V!Next

LEMMA VlanSafe ==
  ASSUME VlanInv
  PROVE  ReceiversSafe
<1>1. VlanTypes /\ GroupsCounted /\ DevicesListed /\ Walk /\ Held
  BY DEF VlanInv
<1>2. rx.at = "group" => rx.grp \in DOMAIN groups
  BY <1>1 DEF Held
<1>3. rx.at = "dev" => rx.vid \in stats
  BY <1>1 DEF Held, VlanTypes
<1>4. rtnl.what = "all" /\ rtnl.left # {} => rtnl.grp \in DOMAIN groups
  BY <1>1 DEF Walk, GroupsCounted
<1>5. ASSUME rtnl = V!Free
      PROVE  /\ vlgrp = V!None <=> DOMAIN vlans = {}
             /\ vlgrp # V!None => /\ groups[vlgrp].slots = DOMAIN vlans
                                  /\ groups[vlgrp].nr = V!Cardinality(DOMAIN vlans)
  <2>1. DOMAIN vlans = V!Slots
    BY <1>1, <1>5 DEF DevicesListed, Gone
  <2>2. V!Cardinality(DOMAIN vlans) = Cardinality(DOMAIN vlans)
    BY VlanCardinality
  <2>3. CASE vlgrp = V!None
    BY <2>1, <2>3 DEF V!Slots
  <2>4. CASE vlgrp # V!None
    BY <1>1, <2>1, <2>2, <2>4 DEF GroupsCounted, V!Slots
  <2>5. QED
    BY <2>3, <2>4
<1>6. QED
  BY <1>2, <1>3, <1>4, <1>5 DEF ReceiversSafe, V!ReceiversSafe

(* A receiver that holds a group or a device keeps the group and the       *)
(* statistics in memory, whatever is unregistered meanwhile, singly or     *)
(* with the real device; the walk over the VIDs never goes on past the     *)
(* group; and at rest the group lists and counts the registered devices.   *)
THEOREM ReceiversHeld == V!Spec => []ReceiversSafe
<1>1. V!Init => VlanInv
  BY VlanInit
<1>2. VlanInv /\ [V!Next]_V!vlanVars => VlanInv'
  BY VlanStep
<1>3. VlanInv => ReceiversSafe
  BY VlanSafe
<1>4. QED
  BY <1>1, <1>2, <1>3, PTL DEF V!Spec

-----------------------------------------------------------------------------
(* What the real device is told. *)

\* The addresses and the sizes a device may have: the real device's first ones are chosen.
Addresses == Macs \cup {V!Min(Macs)}
RealType ==
  [up : BOOLEAN, mac : Addresses, mtu : Mtus \cup {V!Max(Mtus)},
   uc : [Macs -> Nat], rx : [RxFlags -> Nat]]
DevType ==
  [up : BOOLEAN, mac : Macs, seen : Addresses, mtu : Mtus, flags : SUBSET VlanFlags,
   rx : SUBSET RxFlags]

ToldTypes ==
  /\ real \in RealType
  /\ IsFiniteSet(DOMAIN vlans) /\ vlans \in [DOMAIN vlans -> DevType]

\* The filters and the flags of r count the devices of W that are up and need them.
UpIn(W) == {vid \in DOMAIN W : W[vid].up}
Filtering(W, m, mac) == {vid \in UpIn(W) : W[vid].mac = m /\ m # mac}
Flagged(W, f) == {vid \in UpIn(W) : f \in W[vid].rx}
Counted(r, W) ==
  /\ \A m \in Macs : r.uc[m] = Cardinality(Filtering(W, m, r.mac))
  /\ \A f \in RxFlags : r.rx[f] = Cardinality(Flagged(W, f))

\* Every device that is up knows the real device's address.
SeenLast == \A vid \in UpIn(vlans) : vlans[vid].seen = real.mac

\* A device that is gone has withdrawn its announcement, though it is still up.
Announced == \A vid \in UpIn(vlans) \ Gone : "gvrp" \in vlans[vid].flags => vid \in joined

MtusFit == \A vid \in DOMAIN vlans : vlans[vid].mtu <= real.mtu

ToldInv == ToldTypes /\ Counted(real, vlans) /\ SeenLast /\ Announced /\ MtusFit

-----------------------------------------------------------------------------
LEMMA DisjointUnion ==
  ASSUME NEW Set1, NEW Set2, IsFiniteSet(Set1), IsFiniteSet(Set2), Set1 \cap Set2 = {}
  PROVE  /\ IsFiniteSet(Set1 \cup Set2) /\ Cardinality(Set1) \in Nat /\ Cardinality(Set2) \in Nat
         /\ Cardinality(Set1 \cup Set2) = Cardinality(Set1) + Cardinality(Set2)
<1>1. Cardinality(Set1) \in Nat /\ Cardinality(Set2) \in Nat
  BY FS_CardinalityType
<1>2. Cardinality(Set1 \cap Set2) = 0
  BY FS_EmptySet
<1>3. IsFiniteSet(Set1 \cup Set2) /\ Cardinality(Set1 \cup Set2) = Cardinality(Set1) + Cardinality(Set2) - Cardinality(Set1 \cap Set2)
  BY FS_Union
<1>4. QED
  BY <1>1, <1>2, <1>3

\* A deletion of what is not there changes nothing, so no counter goes below zero.
LEMMA FilteredMeans ==
  /\ \A n, c \in Nat : V!Filtered(n, c) = n + c
  /\ \A n, c \in Nat : c <= n => V!Filtered(n, -c) = n - c
<1>1. ASSUME NEW x \in Nat
      PROVE  V!Max({0, x}) = x
  BY <1>1 DEF V!Max
<1>2. QED
  BY <1>1 DEF V!Filtered

\* Those of D that ask for a filter for m, and for the flag f, as far as X goes.
AskUc(r, D, X, m) == {vid \in D : "uc" \in X /\ vlans[vid].mac = m /\ m # r.mac}
AskRx(D, X, f) == {vid \in D : f \in X /\ f \in vlans[vid].rx}

LEMMA WhoMeans ==
  ASSUME ToldTypes, NEW r, NEW D \in SUBSET DOMAIN vlans, NEW X
  PROVE  /\ \A m : {vid \in V!Who(r, D, X, "uc") : vlans[vid].mac = m} = AskUc(r, D, X, m)
         /\ \A f \in RxFlags : V!Who(r, D, X, f) = AskRx(D, X, f)
<1>1. \A f \in RxFlags : f # "uc"
  BY LibraryAssumption DEF V!VlanAssumption
<1>2. \A vid \in D : vlans[vid].rx \subseteq RxFlags
  BY DEF ToldTypes, DevType
<1>3. QED
  BY <1>1, <1>2 DEF V!Who, V!Needs, AskUc, AskRx

\* What is counted are sets of devices, and finitely many.
LEMMA FiniteAsks ==
  ASSUME ToldTypes, NEW r, NEW D \in SUBSET DOMAIN vlans, NEW X
  PROVE  /\ \A m : /\ IsFiniteSet(AskUc(r, D, X, m)) /\ IsFiniteSet(Filtering(vlans, m, r.mac))
                    /\ Cardinality(AskUc(r, D, X, m)) \in Nat
         /\ \A f : /\ IsFiniteSet(AskRx(D, X, f)) /\ IsFiniteSet(Flagged(vlans, f))
                    /\ Cardinality(AskRx(D, X, f)) \in Nat
<1>1. ASSUME NEW Some \in SUBSET DOMAIN vlans
      PROVE  IsFiniteSet(Some) /\ Cardinality(Some) \in Nat
  BY FS_Subset, FS_CardinalityType DEF ToldTypes
<1>2. ASSUME NEW x
      PROVE  /\ AskUc(r, D, X, x) \in SUBSET DOMAIN vlans /\ Filtering(vlans, x, r.mac) \in SUBSET DOMAIN vlans
             /\ AskRx(D, X, x) \in SUBSET DOMAIN vlans /\ Flagged(vlans, x) \in SUBSET DOMAIN vlans
  BY DEF AskUc, AskRx, Filtering, Flagged, UpIn
<1>3. QED
  BY <1>1, <1>2

\* What becomes of r when the devices of D ask, and when they take it back.
SameDevice(q, r) ==
  /\ q.up = r.up /\ q.mac = r.mac /\ q.mtu = r.mtu
  /\ (\A m \in Macs : q.uc[m] \in Nat) /\ (\A f \in RxFlags : q.rx[f] \in Nat) => q \in RealType
Asked(q, r, D, X) ==
  /\ \A m \in Macs : q.uc[m] = V!Filtered(r.uc[m], Cardinality(AskUc(r, D, X, m)))
  /\ \A f \in RxFlags : q.rx[f] = r.rx[f] + Cardinality(AskRx(D, X, f))
TakenBack(q, r, D, X) ==
  /\ \A m \in Macs : q.uc[m] = V!Filtered(r.uc[m], -Cardinality(AskUc(r, D, X, m)))
  /\ \A f \in RxFlags : q.rx[f] = r.rx[f] - Cardinality(AskRx(D, X, f))

LEMMA AskMeans ==
  ASSUME ToldTypes, NEW r \in RealType, NEW D \in SUBSET DOMAIN vlans, NEW X, NEW d \in {1, -1},
         NEW q, q = V!Ask(r, D, X, d)
  PROVE  /\ SameDevice(q, r)
         /\ d = 1 => Asked(q, r, D, X)
         /\ d = -1 => TakenBack(q, r, D, X)
<1> DEFINE Uc == [m \in Macs |->
                   V!Filtered(r.uc[m], d * V!Cardinality({vid \in V!Who(r, D, X, "uc") : vlans[vid].mac = m}))]
           Rx == [f \in RxFlags |-> r.rx[f] + d * V!Cardinality(V!Who(r, D, X, f))]
<1>1. q = [r EXCEPT !.uc = Uc, !.rx = Rx]
  BY DEF V!Ask
<1>2. ASSUME NEW m \in Macs
      PROVE  /\ d = 1 => Uc[m] = V!Filtered(r.uc[m], Cardinality(AskUc(r, D, X, m)))
             /\ d = -1 => Uc[m] = V!Filtered(r.uc[m], -Cardinality(AskUc(r, D, X, m)))
  <2>1. {vid \in V!Who(r, D, X, "uc") : vlans[vid].mac = m} = AskUc(r, D, X, m)
    BY WhoMeans
  <2>2. V!Cardinality({vid \in V!Who(r, D, X, "uc") : vlans[vid].mac = m}) = Cardinality(AskUc(r, D, X, m))
    BY <2>1, VlanCardinality
  <2>3. Cardinality(AskUc(r, D, X, m)) \in Nat
    BY FiniteAsks
  <2>4. QED
    BY <2>2, <2>3
<1>3. ASSUME NEW f \in RxFlags
      PROVE  /\ d = 1 => Rx[f] = r.rx[f] + Cardinality(AskRx(D, X, f))
             /\ d = -1 => Rx[f] = r.rx[f] - Cardinality(AskRx(D, X, f))
  <2>1. V!Who(r, D, X, f) = AskRx(D, X, f)
    BY WhoMeans
  <2>2. V!Cardinality(V!Who(r, D, X, f)) = Cardinality(AskRx(D, X, f))
    BY <2>1, VlanCardinality
  <2>3. Cardinality(AskRx(D, X, f)) \in Nat /\ r.rx[f] \in Nat
    BY FiniteAsks DEF RealType
  <2>4. QED
    BY <2>2, <2>3
<1>4. Uc = [m \in Macs |-> Uc[m]] /\ Rx = [f \in RxFlags |-> Rx[f]]
  OBVIOUS
<1> HIDE DEF Uc, Rx
<1>5. q = [up |-> r.up, mac |-> r.mac, mtu |-> r.mtu, uc |-> Uc, rx |-> Rx]
  BY <1>1 DEF RealType
<1>6. q.uc = Uc /\ q.rx = Rx
  BY <1>5
<1>7. ASSUME \A m \in Macs : q.uc[m] \in Nat, \A f \in RxFlags : q.rx[f] \in Nat
      PROVE  q \in RealType
  <2>1. q.uc \in [Macs -> Nat] /\ q.rx \in [RxFlags -> Nat]
    BY <1>4, <1>6, <1>7
  <2>2. QED
    BY <1>5, <1>6, <2>1 DEF RealType
<1>8. SameDevice(q, r)
  BY <1>5, <1>7 DEF SameDevice
<1>9. QED
  BY <1>2, <1>3, <1>6, <1>8 DEF Asked, TakenBack

\* X holds all that the devices of D need; the devices that are up in W need what they
\* needed; and q is r but for what it counts, which are the devices of W.
Covers(r, D, X) == \A vid \in D : V!Needs(r, vlans[vid]) \subseteq X
NeedsStay(W) == \A vid \in UpIn(W) : W[vid].mac = vlans[vid].mac /\ W[vid].rx = vlans[vid].rx
Tells(q, r, W) ==
  q \in RealType /\ q.up = r.up /\ q.mac = r.mac /\ q.mtu = r.mtu /\ Counted(q, W)

\* The devices of D come up, and what they need is asked for.
LEMMA AskAdds ==
  ASSUME ToldTypes, NEW r \in RealType, Counted(r, vlans),
         NEW D \in SUBSET DOMAIN vlans, D \cap UpIn(vlans) = {},
         NEW X, Covers(r, D, X),
         NEW W, UpIn(W) = UpIn(vlans) \cup D, NeedsStay(W),
         NEW q, q = V!Ask(r, D, X, 1)
  PROVE  Tells(q, r, W)
<1>1. SameDevice(q, r) /\ Asked(q, r, D, X)
  <2>1. PICK d \in {1, -1} : d = 1
    OBVIOUS
  <2>2. q = V!Ask(r, D, X, d)
    BY <2>1
  <2>3. QED
    BY <2>1, <2>2, AskMeans
<1>2. ASSUME NEW m \in Macs
      PROVE  q.uc[m] \in Nat /\ q.uc[m] = Cardinality(Filtering(W, m, r.mac))
  <2>1. Filtering(W, m, r.mac) = Filtering(vlans, m, r.mac) \cup AskUc(r, D, X, m)
    <3>1. \A vid \in D : vlans[vid].mac # r.mac => "uc" \in X
      BY DEF V!Needs, Covers
    <3>2. QED
      BY <3>1 DEF Filtering, AskUc, NeedsStay
  <2>2. Filtering(vlans, m, r.mac) \cap AskUc(r, D, X, m) = {}
    BY DEF Filtering, AskUc
  <2>3. /\ Cardinality(Filtering(W, m, r.mac))
             = Cardinality(Filtering(vlans, m, r.mac)) + Cardinality(AskUc(r, D, X, m))
        /\ Cardinality(AskUc(r, D, X, m)) \in Nat
    BY <2>1, <2>2, FiniteAsks, DisjointUnion
  <2>4. r.uc[m] \in Nat /\ r.uc[m] = Cardinality(Filtering(vlans, m, r.mac))
    BY DEF Counted, RealType
  <2>5. q.uc[m] = r.uc[m] + Cardinality(AskUc(r, D, X, m))
    BY <1>1, <2>3, <2>4, FilteredMeans DEF Asked
  <2>6. QED
    BY <2>3, <2>4, <2>5
<1>3. ASSUME NEW f \in RxFlags
      PROVE  q.rx[f] \in Nat /\ q.rx[f] = Cardinality(Flagged(W, f))
  <2>1. Flagged(W, f) = Flagged(vlans, f) \cup AskRx(D, X, f)
    <3>1. \A vid \in D : f \in vlans[vid].rx => f \in X
      BY DEF V!Needs, Covers
    <3>2. QED
      BY <3>1 DEF Flagged, AskRx, NeedsStay
  <2>2. Flagged(vlans, f) \cap AskRx(D, X, f) = {}
    BY DEF Flagged, AskRx
  <2>3. /\ Cardinality(Flagged(W, f)) = Cardinality(Flagged(vlans, f)) + Cardinality(AskRx(D, X, f))
        /\ Cardinality(AskRx(D, X, f)) \in Nat
    BY <2>1, <2>2, FiniteAsks, DisjointUnion
  <2>4. r.rx[f] \in Nat /\ r.rx[f] = Cardinality(Flagged(vlans, f))
    BY DEF Counted, RealType
  <2>5. QED
    BY <1>1, <2>3, <2>4 DEF Asked
<1>4. q.up = r.up /\ q.mac = r.mac /\ q.mtu = r.mtu
  BY <1>1 DEF SameDevice
<1>5. q \in RealType
  BY <1>1, <1>2, <1>3 DEF SameDevice
<1>6. QED
  BY <1>2, <1>3, <1>4, <1>5 DEF Counted, Tells

\* The devices of D go down, and what they needed is given back.
LEMMA AskTakesBack ==
  ASSUME ToldTypes, NEW r \in RealType, Counted(r, vlans),
         NEW D \in SUBSET UpIn(vlans),
         NEW X, Covers(r, D, X),
         NEW W, UpIn(W) = UpIn(vlans) \ D, NeedsStay(W),
         NEW q, q = V!Ask(r, D, X, -1)
  PROVE  Tells(q, r, W)
<1> D \in SUBSET DOMAIN vlans
  BY DEF UpIn
<1>1. SameDevice(q, r) /\ TakenBack(q, r, D, X)
  <2>1. PICK d \in {1, -1} : d = -1
    OBVIOUS
  <2>2. q = V!Ask(r, D, X, d)
    BY <2>1
  <2>3. QED
    BY <2>1, <2>2, AskMeans
<1>2. ASSUME NEW m \in Macs
      PROVE  q.uc[m] \in Nat /\ q.uc[m] = Cardinality(Filtering(W, m, r.mac))
  <2>1. /\ Filtering(W, m, r.mac) = Filtering(vlans, m, r.mac) \ AskUc(r, D, X, m)
        /\ AskUc(r, D, X, m) \subseteq Filtering(vlans, m, r.mac)
    <3>1. \A vid \in D : vlans[vid].mac # r.mac => "uc" \in X
      BY DEF V!Needs, Covers
    <3>2. QED
      BY <3>1 DEF Filtering, AskUc, NeedsStay
  <2>2. /\ IsFiniteSet(Filtering(vlans, m, r.mac)) /\ IsFiniteSet(AskUc(r, D, X, m))
        /\ IsFiniteSet(Filtering(W, m, r.mac))
    <3>1. IsFiniteSet(Filtering(vlans, m, r.mac)) /\ IsFiniteSet(AskUc(r, D, X, m))
      BY FiniteAsks
    <3>2. IsFiniteSet(Filtering(vlans, m, r.mac) \ AskUc(r, D, X, m))
      BY <3>1, FS_Difference
    <3>3. QED
      BY <2>1, <3>1, <3>2
  <2>3. /\ Filtering(vlans, m, r.mac) = Filtering(W, m, r.mac) \cup AskUc(r, D, X, m)
        /\ Filtering(W, m, r.mac) \cap AskUc(r, D, X, m) = {}
    BY <2>1
  <2>4. /\ Cardinality(Filtering(vlans, m, r.mac))
             = Cardinality(Filtering(W, m, r.mac)) + Cardinality(AskUc(r, D, X, m))
        /\ Cardinality(AskUc(r, D, X, m)) \in Nat /\ Cardinality(Filtering(W, m, r.mac)) \in Nat
    BY <2>2, <2>3, DisjointUnion
  <2>5. r.uc[m] \in Nat /\ r.uc[m] = Cardinality(Filtering(vlans, m, r.mac))
    BY DEF Counted, RealType
  <2>6. q.uc[m] = r.uc[m] - Cardinality(AskUc(r, D, X, m))
    <3>1. Cardinality(AskUc(r, D, X, m)) <= r.uc[m]
      BY <2>4, <2>5
    <3>2. QED
      BY <1>1, <2>4, <2>5, <3>1, FilteredMeans DEF TakenBack
  <2>7. QED
    BY <2>4, <2>5, <2>6
<1>3. ASSUME NEW f \in RxFlags
      PROVE  q.rx[f] \in Nat /\ q.rx[f] = Cardinality(Flagged(W, f))
  <2>1. /\ Flagged(W, f) = Flagged(vlans, f) \ AskRx(D, X, f)
        /\ AskRx(D, X, f) \subseteq Flagged(vlans, f)
    <3>1. \A vid \in D : f \in vlans[vid].rx => f \in X
      BY DEF V!Needs, Covers
    <3>2. QED
      BY <3>1 DEF Flagged, AskRx, NeedsStay
  <2>2. /\ IsFiniteSet(Flagged(vlans, f)) /\ IsFiniteSet(AskRx(D, X, f)) /\ IsFiniteSet(Flagged(W, f))
    <3>1. IsFiniteSet(Flagged(vlans, f)) /\ IsFiniteSet(AskRx(D, X, f))
      BY FiniteAsks
    <3>2. IsFiniteSet(Flagged(vlans, f) \ AskRx(D, X, f))
      BY <3>1, FS_Difference
    <3>3. QED
      BY <2>1, <3>1, <3>2
  <2>3. /\ Flagged(vlans, f) = Flagged(W, f) \cup AskRx(D, X, f)
        /\ Flagged(W, f) \cap AskRx(D, X, f) = {}
    BY <2>1
  <2>4. /\ Cardinality(Flagged(vlans, f)) = Cardinality(Flagged(W, f)) + Cardinality(AskRx(D, X, f))
        /\ Cardinality(AskRx(D, X, f)) \in Nat /\ Cardinality(Flagged(W, f)) \in Nat
    BY <2>2, <2>3, DisjointUnion
  <2>5. r.rx[f] \in Nat /\ r.rx[f] = Cardinality(Flagged(vlans, f))
    BY DEF Counted, RealType
  <2>6. QED
    BY <1>1, <2>4, <2>5 DEF TakenBack
<1>4. q.up = r.up /\ q.mac = r.mac /\ q.mtu = r.mtu
  BY <1>1 DEF SameDevice
<1>5. q \in RealType
  BY <1>1, <1>2, <1>3 DEF SameDevice
<1>6. QED
  BY <1>2, <1>3, <1>4, <1>5 DEF Counted, Tells

\* An open that is refused half-way gives back what it got.
LEMMA AskUndone ==
  ASSUME ToldTypes, NEW r \in RealType, NEW D \in SUBSET DOMAIN vlans, NEW X,
         NEW got, got = V!Ask(r, D, X, 1), NEW q, q = V!Ask(got, D, X, -1)
  PROVE  \A W : Counted(r, W) => Tells(q, r, W)
<1>1. SameDevice(got, r) /\ Asked(got, r, D, X)
  <2>1. PICK d \in {1, -1} : d = 1
    OBVIOUS
  <2>2. got = V!Ask(r, D, X, d)
    BY <2>1
  <2>3. QED
    BY <2>1, <2>2, AskMeans
<1>2. ASSUME NEW m \in Macs
      PROVE  /\ r.uc[m] \in Nat /\ got.uc[m] = r.uc[m] + Cardinality(AskUc(r, D, X, m))
             /\ Cardinality(AskUc(r, D, X, m)) \in Nat
  <2>1. r.uc[m] \in Nat /\ Cardinality(AskUc(r, D, X, m)) \in Nat
    BY FiniteAsks DEF RealType
  <2>2. QED
    BY <1>1, <2>1, FilteredMeans DEF Asked
<1>3. ASSUME NEW f \in RxFlags
      PROVE  /\ r.rx[f] \in Nat /\ got.rx[f] = r.rx[f] + Cardinality(AskRx(D, X, f))
             /\ Cardinality(AskRx(D, X, f)) \in Nat
  <2>1. r.rx[f] \in Nat /\ Cardinality(AskRx(D, X, f)) \in Nat
    BY FiniteAsks DEF RealType
  <2>2. QED
    BY <1>1, <2>1 DEF Asked
<1>4. got \in RealType
  BY <1>1, <1>2, <1>3 DEF SameDevice
<1>5. SameDevice(q, got) /\ TakenBack(q, got, D, X)
  <2>1. PICK d \in {1, -1} : d = -1
    OBVIOUS
  <2>2. q = V!Ask(got, D, X, d)
    BY <2>1
  <2>3. QED
    BY <1>4, <2>1, <2>2, AskMeans
<1>6. ASSUME NEW m \in Macs
      PROVE  q.uc[m] = r.uc[m] /\ q.uc[m] \in Nat
  <2>1. AskUc(got, D, X, m) = AskUc(r, D, X, m)
    BY <1>1 DEF AskUc, SameDevice
  <2>2. q.uc[m] = V!Filtered(got.uc[m], -Cardinality(AskUc(r, D, X, m)))
    BY <1>5, <2>1 DEF TakenBack
  <2>3. got.uc[m] \in Nat /\ Cardinality(AskUc(r, D, X, m)) <= got.uc[m]
    BY <1>2
  <2>4. V!Filtered(got.uc[m], -Cardinality(AskUc(r, D, X, m))) = got.uc[m] - Cardinality(AskUc(r, D, X, m))
    BY <1>2, <2>3, FilteredMeans
  <2>5. QED
    BY <1>2, <2>2, <2>4
<1>7. ASSUME NEW f \in RxFlags
      PROVE  q.rx[f] = r.rx[f] /\ q.rx[f] \in Nat
  BY <1>3, <1>5 DEF TakenBack
<1>8. q \in RealType /\ q.up = r.up /\ q.mac = r.mac /\ q.mtu = r.mtu
  BY <1>1, <1>5, <1>6, <1>7 DEF SameDevice
<1>9. QED
  BY <1>6, <1>7, <1>8 DEF Counted, Tells

LEMMA NeedsEverything ==
  ASSUME ToldTypes, NEW r, NEW vid \in DOMAIN vlans
  PROVE  V!Needs(r, vlans[vid]) \subseteq V!Everything
<1>1. vlans[vid].rx \subseteq {"allmulti", "promisc"}
  BY LibraryAssumption DEF V!VlanAssumption, ToldTypes, DevType
<1>2. V!Everything = {"uc", "allmulti", "promisc"}
  BY DEF V!Everything, V!FirstCalls, V!Calls
<1>3. QED
  BY <1>1, <1>2 DEF V!Needs

\* The same devices are up with the same needs.
LEMMA SameNeeds ==
  ASSUME NEW r, Counted(r, vlans), NEW W, UpIn(W) = UpIn(vlans), NeedsStay(W)
  PROVE  Counted(r, W)
<1>1. \A m : Filtering(W, m, r.mac) = Filtering(vlans, m, r.mac)
  BY DEF Filtering, NeedsStay
<1>2. \A f : Flagged(W, f) = Flagged(vlans, f)
  BY DEF Flagged, NeedsStay
<1>3. QED
  BY <1>1, <1>2 DEF Counted

-----------------------------------------------------------------------------
(* The VLAN devices. *)

LEMMA OpenTells ==
  ASSUME VlanInv, ToldInv, NEW vid \in Vids, NEW k \in 0..3, V!Open(vid, k)
  PROVE  ToldInv'
<1>1. ToldTypes /\ Counted(real, vlans) /\ SeenLast /\ Announced /\ MtusFit
  BY DEF ToldInv
<1>2. real \in RealType /\ vlans \in [DOMAIN vlans -> DevType] /\ IsFiniteSet(DOMAIN vlans)
  BY <1>1 DEF ToldTypes
<1>3. /\ rtnl = V!Free /\ vid \in DOMAIN vlans /\ ~vlans[vid].up /\ rtnl' = rtnl
      /\ vlans[vid] \in DevType
  BY <1>2 DEF V!Open, V!Unlocked, V!Only
<1>4. Gone = {} /\ Gone' = {}
  BY <1>3 DEF Gone
<1>5. CASE V!Granted(real, vlans[vid], k)
  <2>1. PICK v : v = V!Opened(real, vlans[vid])
    OBVIOUS
  <2>2. /\ real' = V!Ask(real, {vid}, V!FirstCalls(k), 1)
        /\ vlans' = [vlans EXCEPT ![vid] = v]
        /\ joined' = IF V!Announces(v) THEN joined \cup {vid} ELSE joined
    BY <1>5, <2>1 DEF V!Open, V!Only, V!vlan_dev_open
  <2>3. /\ v \in DevType /\ v.up /\ v.seen = real.mac /\ v.mac = vlans[vid].mac
        /\ v.mtu = vlans[vid].mtu /\ v.flags = vlans[vid].flags /\ v.rx = vlans[vid].rx
    BY <1>2, <1>3, <2>1 DEF V!Opened, DevType, RealType
  <2>4. /\ DOMAIN vlans' = DOMAIN vlans /\ vlans' \in [DOMAIN vlans' -> DevType]
        /\ vlans'[vid] = v /\ \A x \in DOMAIN vlans : x # vid => vlans'[x] = vlans[x]
    BY <1>2, <1>3, <2>2, <2>3
  <2>5. UpIn(vlans') = UpIn(vlans) \cup {vid} /\ {vid} \cap UpIn(vlans) = {}
    BY <1>3, <2>3, <2>4 DEF UpIn
  <2>6. NeedsStay(vlans')
    BY <2>3, <2>4 DEF NeedsStay, UpIn
  <2>7. Covers(real, {vid}, V!FirstCalls(k))
    BY <1>5 DEF Covers, V!Granted
  <2>8. {vid} \in SUBSET DOMAIN vlans
    BY <1>3
  <2>9. /\ real' \in RealType /\ real'.mac = real.mac /\ real'.mtu = real.mtu
        /\ Counted(real', vlans')
    <3>1. Tells(real', real, vlans')
      BY <1>1, <1>2, <2>2, <2>5, <2>6, <2>7, <2>8, AskAdds
    <3>2. QED
      BY <3>1 DEF Tells
  <2>10. ToldTypes'
    BY <1>2, <2>4, <2>9 DEF ToldTypes
  <2>11. SeenLast'
    BY <1>1, <2>3, <2>4, <2>5, <2>9 DEF SeenLast, UpIn
  <2>12. Announced'
    BY <1>1, <1>4, <2>2, <2>3, <2>4, <2>5 DEF Announced, UpIn, V!Announces
  <2>13. MtusFit'
    BY <1>1, <2>3, <2>4, <2>9 DEF MtusFit
  <2>14. QED
    BY <2>9, <2>10, <2>11, <2>12, <2>13 DEF ToldInv
<1>6. CASE ~V!Granted(real, vlans[vid], k)
  <2>1. PICK got : got = V!Ask(real, {vid}, V!FirstCalls(k), 1)
    OBVIOUS
  <2>2. /\ real' = V!Ask(got, {vid}, V!FirstCalls(k), -1)
        /\ vlans' = [vlans EXCEPT ![vid] = vlans[vid]] /\ joined' = joined
    BY <1>3, <1>6, <2>1 DEF V!Open, V!Only, V!vlan_dev_open, V!Announces
  <2>3. vlans' = vlans
    BY <1>2, <2>2
  <2>4. /\ real' \in RealType /\ real'.mac = real.mac /\ real'.mtu = real.mtu
        /\ Counted(real', vlans)
    <3>1. {vid} \in SUBSET DOMAIN vlans
      BY <1>3
    <3>2. Tells(real', real, vlans)
      BY <1>1, <1>2, <2>1, <2>2, <3>1, AskUndone
    <3>3. QED
      BY <3>2 DEF Tells
  <2>5. Counted(real', vlans')
    BY <2>3, <2>4
  <2>6. ToldTypes'
    BY <1>2, <2>3, <2>4 DEF ToldTypes
  <2>7. SeenLast' /\ Announced' /\ MtusFit'
    BY <1>1, <1>4, <2>2, <2>3, <2>4 DEF SeenLast, Announced, MtusFit, UpIn
  <2>8. QED
    BY <2>5, <2>6, <2>7 DEF ToldInv
<1>7. QED
  BY <1>5, <1>6

LEMMA StopTells ==
  ASSUME VlanInv, ToldInv, NEW vid \in Vids, V!Stop(vid)
  PROVE  ToldInv'
<1>1. ToldTypes /\ Counted(real, vlans) /\ SeenLast /\ Announced /\ MtusFit
  BY DEF ToldInv
<1>2. real \in RealType /\ vlans \in [DOMAIN vlans -> DevType] /\ IsFiniteSet(DOMAIN vlans)
  BY <1>1 DEF ToldTypes
<1>3. /\ rtnl = V!Free /\ vid \in DOMAIN vlans /\ vlans[vid].up /\ rtnl' = rtnl /\ joined' = joined
      /\ vlans[vid] \in DevType
      /\ real' = V!Ask(real, {vid}, V!Everything, -1)
      /\ vlans' = [vlans EXCEPT ![vid].up = FALSE]
  BY <1>2 DEF V!Stop, V!Unlocked, V!Only, V!vlan_dev_stop
<1>4. Gone = {} /\ Gone' = {}
  BY <1>3 DEF Gone
<1>5. /\ DOMAIN vlans' = DOMAIN vlans /\ vlans' \in [DOMAIN vlans' -> DevType] /\ ~vlans'[vid].up
      /\ \A x \in DOMAIN vlans : /\ x # vid => vlans'[x] = vlans[x]
                                 /\ vlans'[x].mtu = vlans[x].mtu
  BY <1>2, <1>3 DEF DevType
<1>6. UpIn(vlans') = UpIn(vlans) \ {vid} /\ {vid} \in SUBSET UpIn(vlans)
  BY <1>3, <1>5 DEF UpIn
<1>7. NeedsStay(vlans') /\ Covers(real, {vid}, V!Everything)
  BY <1>1, <1>3, <1>5, <1>6, NeedsEverything DEF NeedsStay, Covers, UpIn
<1>8. /\ real' \in RealType /\ real'.mac = real.mac /\ real'.mtu = real.mtu
      /\ Counted(real', vlans')
  <2>1. Tells(real', real, vlans')
    BY <1>1, <1>2, <1>3, <1>6, <1>7, AskTakesBack
  <2>2. QED
    BY <2>1 DEF Tells
<1>9. ToldTypes'
  BY <1>2, <1>5, <1>8 DEF ToldTypes
<1>10. SeenLast'
  BY <1>1, <1>5, <1>6, <1>8 DEF SeenLast, UpIn
<1>11. Announced'
  BY <1>1, <1>3, <1>4, <1>5, <1>6 DEF Announced, UpIn
<1>12. MtusFit'
  BY <1>1, <1>5, <1>8 DEF MtusFit
<1>13. QED
  BY <1>8, <1>9, <1>10, <1>11, <1>12 DEF ToldInv

\* A device that is up changes its address: the filter for the new one first, then the old one.
LEMMA SetMacTells ==
  ASSUME VlanInv, ToldInv, NEW vid \in Vids, NEW mac \in Macs, NEW nomem \in BOOLEAN,
         V!SetMac(vid, mac, nomem)
  PROVE  ToldInv'
<1>1. ToldTypes /\ Counted(real, vlans) /\ SeenLast /\ Announced /\ MtusFit
  BY DEF ToldInv
<1>2. real \in RealType /\ vlans \in [DOMAIN vlans -> DevType] /\ IsFiniteSet(DOMAIN vlans)
  BY <1>1 DEF ToldTypes
<1>3. /\ rtnl = V!Free /\ vid \in DOMAIN vlans /\ rtnl' = rtnl /\ joined' = joined
      /\ vlans[vid] \in DevType
  BY <1>2 DEF V!SetMac, V!Unlocked, V!Only
<1>4. Gone = {} /\ Gone' = {}
  BY <1>3 DEF Gone
<1>5. CASE vlans' = vlans /\ real' = real
  BY <1>1, <1>3, <1>4, <1>5 DEF ToldInv, ToldTypes, Counted, SeenLast, Announced, MtusFit, UpIn, Filtering, Flagged
<1>6. CASE vlans' = [vlans EXCEPT ![vid].mac = mac]
  <2>1. /\ DOMAIN vlans' = DOMAIN vlans /\ vlans' \in [DOMAIN vlans' -> DevType] /\ vlans'[vid].mac = mac
        /\ \A x \in DOMAIN vlans : /\ x # vid => vlans'[x].mac = vlans[x].mac
                                   /\ vlans'[x].up = vlans[x].up /\ vlans'[x].seen = vlans[x].seen
                                   /\ vlans'[x].mtu = vlans[x].mtu /\ vlans'[x].flags = vlans[x].flags
                                   /\ vlans'[x].rx = vlans[x].rx
    BY <1>2, <1>3, <1>6 DEF DevType
  <2>2. UpIn(vlans') = UpIn(vlans)
    BY <2>1 DEF UpIn
  <2>3. ASSUME real' \in RealType, real'.mac = real.mac, real'.mtu = real.mtu, Counted(real', vlans')
        PROVE  ToldInv'
    <3>1. ToldTypes'
      BY <1>2, <2>1, <2>3 DEF ToldTypes
    <3>2. SeenLast' /\ Announced' /\ MtusFit'
      BY <1>1, <1>3, <1>4, <2>1, <2>2, <2>3 DEF SeenLast, Announced, MtusFit, UpIn
    <3>3. QED
      BY <2>3, <3>1, <3>2 DEF ToldInv
  <2>4. CASE ~vlans[vid].up /\ real' = real
    <3>1. NeedsStay(vlans')
      BY <2>1, <2>2, <2>4 DEF NeedsStay, UpIn
    <3>2. Counted(real', vlans')
      BY <1>1, <2>2, <2>4, <3>1, SameNeeds
    <3>3. QED
      BY <1>2, <2>3, <2>4, <3>2
  <2>5. CASE vlans[vid].up
    <3>1. PICK old : old = vlans[vid].mac
      OBVIOUS
    <3>2. PICK added : added = IF mac # real.mac THEN [real.uc EXCEPT ![mac] = V!Filtered(@, 1)] ELSE real.uc
      OBVIOUS
    <3>3. PICK taken : taken = IF old # real.mac THEN [added EXCEPT ![old] = V!Filtered(@, -1)] ELSE added
      OBVIOUS
    <3>4. CASE ~(real' = [real EXCEPT !.uc = taken])
      BY <1>5, <1>6, <2>5, <3>1, <3>2, <3>3, <3>4 DEF V!SetMac, V!Only
    <3>5. CASE real' = [real EXCEPT !.uc = taken]
      <4>1. real.uc \in [Macs -> Nat] /\ old \in Macs /\ vid \in UpIn(vlans)
        BY <1>2, <1>3, <2>5, <3>1 DEF RealType, DevType, UpIn
      <4>2. \A n \in Nat : V!Filtered(n, 1) = n + 1 /\ (n >= 1 => V!Filtered(n, -1) = n - 1)
        BY FilteredMeans
      <4>3. /\ added \in [Macs -> Nat]
            /\ \A m \in Macs : added[m] = IF m = mac /\ mac # real.mac THEN real.uc[m] + 1 ELSE real.uc[m]
        BY <3>2, <4>1, <4>2
      <4>4. ASSUME NEW m
            PROVE  /\ IsFiniteSet(Filtering(vlans, m, real.mac)) /\ IsFiniteSet(Filtering(vlans', m, real.mac))
                   /\ Cardinality(Filtering(vlans, m, real.mac)) \in Nat
        BY <1>2, <2>2, FS_Subset, FS_CardinalityType DEF Filtering, UpIn
      <4>5. ASSUME NEW m \in Macs
            PROVE  /\ m = old /\ old # real.mac => added[m] >= 1
                   /\ Cardinality(Filtering(vlans', m, real.mac))
                        = IF m = old /\ old # real.mac THEN added[m] - 1 ELSE added[m]
        <5>1. real.uc[m] = Cardinality(Filtering(vlans, m, real.mac)) /\ real.uc[m] \in Nat
          BY <1>1, <4>1 DEF Counted
        <5>2. vid \in Filtering(vlans, m, real.mac) <=> m = old /\ m # real.mac
          BY <3>1, <4>1 DEF Filtering
        <5>3. m = old /\ m # real.mac => real.uc[m] >= 1
          BY <4>4, <5>1, <5>2, FS_EmptySet
        <5>4. CASE m = mac /\ m = old
          <6>1. Filtering(vlans', m, real.mac) = Filtering(vlans, m, real.mac)
            BY <2>1, <2>2, <3>1, <5>4 DEF Filtering, UpIn
          <6>2. QED
            BY <4>3, <5>1, <5>3, <5>4, <6>1
        <5>5. CASE m = mac /\ m # old
          <6>1. Filtering(vlans', m, real.mac)
                  = IF m # real.mac THEN Filtering(vlans, m, real.mac) \cup {vid} ELSE Filtering(vlans, m, real.mac)
            BY <2>1, <2>2, <4>1, <5>5 DEF Filtering, UpIn
          <6>2. Cardinality(Filtering(vlans, m, real.mac) \cup {vid}) = Cardinality(Filtering(vlans, m, real.mac)) + 1
            BY <4>4, <5>2, <5>5, FS_AddElement
          <6>3. QED
            BY <4>3, <5>1, <5>5, <6>1, <6>2
        <5>6. CASE m # mac /\ m = old
          <6>1. Filtering(vlans', m, real.mac)
                  = IF m # real.mac THEN Filtering(vlans, m, real.mac) \ {vid} ELSE Filtering(vlans, m, real.mac)
            BY <2>1, <2>2, <5>2, <5>6 DEF Filtering, UpIn
          <6>2. m # real.mac =>
                  Cardinality(Filtering(vlans, m, real.mac) \ {vid}) = Cardinality(Filtering(vlans, m, real.mac)) - 1
            BY <4>4, <5>2, <5>6, FS_RemoveElement
          <6>3. QED
            BY <4>3, <5>1, <5>3, <5>6, <6>1, <6>2
        <5>7. CASE m # mac /\ m # old
          <6>1. Filtering(vlans', m, real.mac) = Filtering(vlans, m, real.mac)
            BY <2>1, <2>2, <3>1, <5>7 DEF Filtering, UpIn
          <6>2. QED
            BY <4>3, <5>1, <5>7, <6>1
        <5>8. QED
          BY <5>4, <5>5, <5>6, <5>7
      <4>6. /\ taken \in [Macs -> Nat]
            /\ \A m \in Macs : taken[m] = IF m = old /\ old # real.mac THEN added[m] - 1 ELSE added[m]
        BY <3>3, <4>1, <4>2, <4>3, <4>5
      <4>7. real' \in RealType /\ real'.mac = real.mac /\ real'.mtu = real.mtu /\ real'.uc = taken /\ real'.rx = real.rx
        BY <1>2, <3>5, <4>6 DEF RealType
      <4>8. \A f : Flagged(vlans', f) = Flagged(vlans, f)
        BY <2>1, <2>2 DEF Flagged, UpIn
      <4>9. Counted(real', vlans')
        BY <1>1, <4>5, <4>6, <4>7, <4>8 DEF Counted
      <4>10. QED
        BY <2>3, <4>7, <4>9
    <3>6. QED
      BY <3>4, <3>5
  <2>6. QED
    BY <1>5, <1>6, <2>4, <2>5 DEF V!SetMac, V!Only
<1>7. QED
  BY <1>5, <1>6 DEF V!SetMac, V!Only

LEMMA SetRxTells ==
  ASSUME VlanInv, ToldInv, NEW vid \in Vids, NEW f \in RxFlags, V!SetRx(vid, f)
  PROVE  ToldInv'
<1>1. ToldTypes /\ Counted(real, vlans) /\ SeenLast /\ Announced /\ MtusFit
  BY DEF ToldInv
<1>2. real \in RealType /\ vlans \in [DOMAIN vlans -> DevType] /\ IsFiniteSet(DOMAIN vlans)
  BY <1>1 DEF ToldTypes
<1>3. PICK on : on = (f \notin vlans[vid].rx)
  OBVIOUS
<1>4. /\ rtnl = V!Free /\ vid \in DOMAIN vlans /\ rtnl' = rtnl /\ joined' = joined
      /\ real' = IF vlans[vid].up THEN [real EXCEPT !.rx[f] = @ + (IF on THEN 1 ELSE -1)] ELSE real
      /\ vlans' = [vlans EXCEPT ![vid].rx = IF on THEN @ \cup {f} ELSE @ \ {f}]
      /\ vlans[vid] \in DevType
  BY <1>2, <1>3 DEF V!SetRx, V!Unlocked, V!Only
<1>5. Gone = {} /\ Gone' = {}
  BY <1>4 DEF Gone
<1>6. /\ DOMAIN vlans' = DOMAIN vlans /\ vlans' \in [DOMAIN vlans' -> DevType]
      /\ vlans'[vid].rx = IF on THEN vlans[vid].rx \cup {f} ELSE vlans[vid].rx \ {f}
      /\ \A x \in DOMAIN vlans : /\ x # vid => vlans'[x].rx = vlans[x].rx
                                 /\ vlans'[x].up = vlans[x].up /\ vlans'[x].seen = vlans[x].seen
                                 /\ vlans'[x].mtu = vlans[x].mtu /\ vlans'[x].flags = vlans[x].flags
                                 /\ vlans'[x].mac = vlans[x].mac
  BY <1>2, <1>4 DEF DevType
<1>7. UpIn(vlans') = UpIn(vlans)
  BY <1>6 DEF UpIn
<1>8. /\ real'.mac = real.mac /\ real'.mtu = real.mtu /\ real'.uc = real.uc
      /\ real' \in [up : BOOLEAN, mac : Addresses, mtu : Mtus \cup {V!Max(Mtus)},
                    uc : [Macs -> Nat], rx : [RxFlags -> Int]]
      /\ \A g \in RxFlags : real'.rx[g] = IF g = f /\ vlans[vid].up THEN real.rx[g] + (IF on THEN 1 ELSE -1)
                                          ELSE real.rx[g]
  BY <1>2, <1>4 DEF RealType
<1>9. ASSUME NEW g \in RxFlags
      PROVE  real'.rx[g] = Cardinality(Flagged(vlans', g)) /\ real'.rx[g] \in Nat
  <2>1. /\ IsFiniteSet(Flagged(vlans, g)) /\ IsFiniteSet(Flagged(vlans', g))
        /\ Cardinality(Flagged(vlans', g)) \in Nat
    BY <1>2, <1>7, FS_Subset, FS_CardinalityType DEF Flagged, UpIn
  <2>2. real.rx[g] = Cardinality(Flagged(vlans, g)) /\ real.rx[g] \in Nat
    BY <1>1, <1>2 DEF Counted, RealType
  <2>3. CASE g = f /\ vlans[vid].up
    <3>1. vid \in UpIn(vlans)
      BY <1>4, <2>3 DEF UpIn
    <3>2. CASE on
      <4>1. Flagged(vlans', g) = Flagged(vlans, g) \cup {vid} /\ vid \notin Flagged(vlans, g)
        BY <1>3, <1>6, <1>7, <2>3, <3>1, <3>2 DEF Flagged, UpIn
      <4>2. QED
        BY <1>8, <2>1, <2>2, <2>3, <3>2, <4>1, FS_AddElement
    <3>3. CASE ~on
      <4>1. Flagged(vlans', g) = Flagged(vlans, g) \ {vid} /\ vid \in Flagged(vlans, g)
        BY <1>3, <1>6, <1>7, <2>3, <3>1, <3>3 DEF Flagged, UpIn
      <4>2. Cardinality(Flagged(vlans', g)) = Cardinality(Flagged(vlans, g)) - 1
        BY <2>1, <4>1, FS_RemoveElement
      <4>3. real'.rx[g] = real.rx[g] - 1
        BY <1>8, <2>2, <2>3, <3>3
      <4>4. QED
        BY <2>1, <2>2, <4>2, <4>3
    <3>4. QED
      BY <3>2, <3>3
  <2>4. CASE ~(g = f /\ vlans[vid].up)
    <3>1. Flagged(vlans', g) = Flagged(vlans, g)
      BY <1>4, <1>6, <1>7, <2>4 DEF Flagged, UpIn
    <3>2. QED
      BY <1>8, <2>2, <2>4, <3>1
  <2>5. QED
    BY <2>3, <2>4
<1>10. real' \in RealType
  BY <1>8, <1>9 DEF RealType
<1>11. Counted(real', vlans')
  <2>1. \A m : Filtering(vlans', m, real.mac) = Filtering(vlans, m, real.mac)
    BY <1>6, <1>7 DEF Filtering, UpIn
  <2>2. QED
    BY <1>1, <1>8, <1>9, <2>1 DEF Counted
<1>12. ToldTypes'
  BY <1>2, <1>6, <1>10 DEF ToldTypes
<1>13. SeenLast' /\ Announced' /\ MtusFit'
  BY <1>1, <1>4, <1>5, <1>6, <1>7, <1>8 DEF SeenLast, Announced, MtusFit, UpIn
<1>14. QED
  BY <1>11, <1>12, <1>13 DEF ToldInv

LEMMA FlagsTell ==
  ASSUME VlanInv, ToldInv, NEW vid \in Vids, NEW flags \in SUBSET VlanFlags,
         V!vlan_dev_change_flags(vid, flags)
  PROVE  ToldInv'
<1>1. ToldTypes /\ Counted(real, vlans) /\ SeenLast /\ Announced /\ MtusFit
  BY DEF ToldInv
<1>2. real \in RealType /\ vlans \in [DOMAIN vlans -> DevType] /\ IsFiniteSet(DOMAIN vlans)
  BY <1>1 DEF ToldTypes
<1>3. /\ rtnl = V!Free /\ vid \in DOMAIN vlans /\ rtnl' = rtnl /\ real' = real
      /\ vlans' = [vlans EXCEPT ![vid].flags = flags]
      /\ joined' = IF ~vlans[vid].up \/ ("gvrp" \in flags <=> "gvrp" \in vlans[vid].flags) THEN joined
                   ELSE IF "gvrp" \in flags THEN joined \cup {vid} ELSE joined \ {vid}
      /\ vlans[vid] \in DevType
  BY <1>2 DEF V!vlan_dev_change_flags, V!Unlocked, V!Only
<1>4. Gone = {} /\ Gone' = {}
  BY <1>3 DEF Gone
<1>5. /\ DOMAIN vlans' = DOMAIN vlans /\ vlans' \in [DOMAIN vlans' -> DevType] /\ vlans'[vid].flags = flags
      /\ \A x \in DOMAIN vlans : /\ x # vid => vlans'[x].flags = vlans[x].flags
                                 /\ vlans'[x].up = vlans[x].up /\ vlans'[x].seen = vlans[x].seen
                                 /\ vlans'[x].mtu = vlans[x].mtu /\ vlans'[x].mac = vlans[x].mac
                                 /\ vlans'[x].rx = vlans[x].rx
  BY <1>2, <1>3 DEF DevType
<1>6. UpIn(vlans') = UpIn(vlans) /\ NeedsStay(vlans')
  BY <1>5 DEF UpIn, NeedsStay
<1>7. Counted(real', vlans')
  BY <1>1, <1>3, <1>6, SameNeeds
<1>8. ToldTypes'
  BY <1>2, <1>3, <1>5 DEF ToldTypes
<1>9. SeenLast' /\ MtusFit'
  BY <1>1, <1>3, <1>5, <1>6 DEF SeenLast, MtusFit, UpIn
<1>10. Announced'
  <2>1. ASSUME NEW x \in UpIn(vlans), "gvrp" \in vlans'[x].flags
        PROVE  x \in joined'
    <3>1. x \in DOMAIN vlans /\ vlans[x].up
      BY DEF UpIn
    <3>2. "gvrp" \in vlans[x].flags => x \in joined
      BY <1>1, <1>4 DEF Announced
    <3>3. CASE x = vid
      BY <1>3, <1>5, <2>1, <3>1, <3>2, <3>3
    <3>4. CASE x # vid
      BY <1>3, <1>5, <2>1, <3>1, <3>2, <3>4
    <3>5. QED
      BY <3>3, <3>4
  <2>2. QED
    BY <1>6, <2>1 DEF Announced
<1>11. QED
  BY <1>7, <1>8, <1>9, <1>10 DEF ToldInv

LEMMA SetMtuTells ==
  ASSUME VlanInv, ToldInv, NEW vid \in Vids, NEW mtu \in Mtus, V!SetMtu(vid, mtu)
  PROVE  ToldInv'
<1>1. ToldTypes /\ Counted(real, vlans) /\ SeenLast /\ Announced /\ MtusFit
  BY DEF ToldInv
<1>2. real \in RealType /\ vlans \in [DOMAIN vlans -> DevType] /\ IsFiniteSet(DOMAIN vlans)
  BY <1>1 DEF ToldTypes
<1>3. /\ rtnl = V!Free /\ vid \in DOMAIN vlans /\ rtnl' = rtnl /\ real' = real /\ joined' = joined
      /\ mtu <= real.mtu /\ vlans' = [vlans EXCEPT ![vid].mtu = mtu] /\ vlans[vid] \in DevType
  BY <1>2 DEF V!SetMtu, V!Unlocked, V!Only
<1>4. Gone = {} /\ Gone' = {}
  BY <1>3 DEF Gone
<1>5. /\ DOMAIN vlans' = DOMAIN vlans /\ vlans' \in [DOMAIN vlans' -> DevType] /\ vlans'[vid].mtu = mtu
      /\ \A x \in DOMAIN vlans : /\ x # vid => vlans'[x].mtu = vlans[x].mtu
                                 /\ vlans'[x].up = vlans[x].up /\ vlans'[x].seen = vlans[x].seen
                                 /\ vlans'[x].flags = vlans[x].flags /\ vlans'[x].mac = vlans[x].mac
                                 /\ vlans'[x].rx = vlans[x].rx
  BY <1>2, <1>3 DEF DevType
<1>6. UpIn(vlans') = UpIn(vlans) /\ NeedsStay(vlans')
  BY <1>5 DEF UpIn, NeedsStay
<1>7. Counted(real', vlans')
  BY <1>1, <1>3, <1>6, SameNeeds
<1>8. ToldTypes'
  BY <1>2, <1>3, <1>5 DEF ToldTypes
<1>9. SeenLast' /\ Announced' /\ MtusFit'
  BY <1>1, <1>3, <1>4, <1>5, <1>6 DEF SeenLast, Announced, MtusFit, UpIn
<1>10. QED
  BY <1>7, <1>8, <1>9 DEF ToldInv

-----------------------------------------------------------------------------
(* The real device. *)

\* While nothing is being unregistered the group lists every device.
LEMMA AllListed ==
  ASSUME VlanInv, rtnl = V!Free
  PROVE  V!Slots = DOMAIN vlans
BY DEF VlanInv, DevicesListed, Gone

LEMMA RealUpTells ==
  ASSUME VlanInv, ToldInv, NEW Fail \in SUBSET Vids, V!RealUp(Fail)
  PROVE  ToldInv'
<1>1. ToldTypes /\ Counted(real, vlans) /\ SeenLast /\ Announced /\ MtusFit
  BY DEF ToldInv
<1>2. real \in RealType /\ vlans \in [DOMAIN vlans -> DevType] /\ IsFiniteSet(DOMAIN vlans)
  BY <1>1 DEF ToldTypes
<1>3. rtnl = V!Free /\ rtnl' = rtnl
  BY Zenon DEF V!RealUp, V!Unlocked, V!Only
<1>4. PICK Now : Now = {vid \in V!Slots :
                          /\ ~vlans[vid].up /\ "loose" \notin vlans[vid].flags
                          /\ vid \in Fail => V!Granted(real, vlans[vid], 0)}
  OBVIOUS
<1>5. PICK r : r = [real EXCEPT !.up = TRUE]
  OBVIOUS
<1>6. /\ real' = V!Ask(r, Now, V!Everything, 1)
      /\ vlans' = [vid \in DOMAIN vlans |-> IF vid \in Now THEN V!Opened(real, vlans[vid]) ELSE vlans[vid]]
      /\ joined' = joined \cup {vid \in Now : V!Announces(vlans'[vid])}
  BY <1>4, <1>5, Zenon DEF V!RealUp, V!Only
<1>7. Gone = {} /\ Gone' = {}
  BY <1>3 DEF Gone
<1>8. Now \in SUBSET DOMAIN vlans /\ Now \cap UpIn(vlans) = {}
  BY <1>3, <1>4, AllListed DEF UpIn
<1>9. r \in RealType /\ r.mac = real.mac /\ r.mtu = real.mtu /\ r.uc = real.uc /\ r.rx = real.rx
  BY <1>2, <1>5 DEF RealType
<1>10. ASSUME NEW x \in DOMAIN vlans
       PROVE  /\ x \notin Now => vlans'[x] = vlans[x]
              /\ vlans'[x] \in DevType /\ vlans'[x].mac = vlans[x].mac /\ vlans'[x].mtu = vlans[x].mtu
              /\ vlans'[x].flags = vlans[x].flags /\ vlans'[x].rx = vlans[x].rx
              /\ x \in Now => vlans'[x].up /\ vlans'[x].seen = real.mac
  <2>1. vlans'[x] = IF x \in Now THEN V!Opened(real, vlans[x]) ELSE vlans[x]
    BY <1>6
  <2>2. vlans[x] \in DevType /\ real.mac \in Addresses
    BY <1>2 DEF RealType
  <2>3. QED
    BY <2>1, <2>2 DEF V!Opened, DevType
<1>11. DOMAIN vlans' = DOMAIN vlans /\ vlans' = [x \in DOMAIN vlans' |-> vlans'[x]]
  BY <1>6
<1>12. UpIn(vlans') = UpIn(vlans) \cup Now
  BY <1>8, <1>10, <1>11 DEF UpIn
<1>13. NeedsStay(vlans') /\ Covers(r, Now, V!Everything)
  BY <1>1, <1>8, <1>10, <1>11, NeedsEverything DEF NeedsStay, Covers, UpIn
<1>14. Counted(r, vlans)
  BY <1>1, <1>9 DEF Counted
<1>15. /\ real' \in RealType /\ real'.mac = real.mac /\ real'.mtu = real.mtu
       /\ Counted(real', vlans')
  <2>1. Tells(real', r, vlans')
    BY <1>1, <1>6, <1>8, <1>9, <1>12, <1>13, <1>14, AskAdds
  <2>2. QED
    BY <1>9, <2>1 DEF Tells
<1>16. ToldTypes'
  <2>1. vlans' \in [DOMAIN vlans' -> DevType]
    BY <1>10, <1>11
  <2>2. QED
    BY <1>2, <1>11, <1>15, <2>1 DEF ToldTypes
<1>17. SeenLast'
  <2>1. ASSUME NEW x \in UpIn(vlans')
        PROVE  vlans'[x].seen = real.mac
    <3>1. CASE x \in Now
      BY <1>8, <1>10, <3>1
    <3>2. CASE x \notin Now
      BY <1>1, <1>10, <1>12, <3>2 DEF SeenLast, UpIn
    <3>3. QED
      BY <3>1, <3>2
  <2>2. QED
    BY <1>15, <2>1 DEF SeenLast
<1>18. Announced'
  <2>1. ASSUME NEW x \in UpIn(vlans'), "gvrp" \in vlans'[x].flags
        PROVE  x \in joined'
    <3>1. CASE x \in Now
      BY <1>6, <1>8, <1>10, <2>1, <3>1 DEF V!Announces
    <3>2. CASE x \notin Now
      BY <1>1, <1>6, <1>7, <1>10, <1>12, <2>1, <3>2 DEF Announced, UpIn
    <3>3. QED
      BY <3>1, <3>2
  <2>2. QED
    BY <2>1 DEF Announced
<1>19. MtusFit'
  BY <1>1, <1>10, <1>11, <1>15 DEF MtusFit
<1>20. QED
  BY <1>15, <1>16, <1>17, <1>18, <1>19 DEF ToldInv

LEMMA RealDownTells ==
  ASSUME VlanInv, ToldInv, V!RealDown
  PROVE  ToldInv'
<1>1. ToldTypes /\ Counted(real, vlans) /\ SeenLast /\ Announced /\ MtusFit
  BY DEF ToldInv
<1>2. real \in RealType /\ vlans \in [DOMAIN vlans -> DevType] /\ IsFiniteSet(DOMAIN vlans)
  BY <1>1 DEF ToldTypes
<1>3. rtnl = V!Free /\ rtnl' = rtnl /\ joined' = joined
  BY Zenon DEF V!RealDown, V!Unlocked, V!Only
<1>4. PICK Now : Now = {vid \in V!Slots : vlans[vid].up /\ "loose" \notin vlans[vid].flags}
  OBVIOUS
<1>5. PICK r : r = [real EXCEPT !.up = FALSE]
  OBVIOUS
<1>6. /\ real' = V!Ask(r, Now, V!Everything, -1)
      /\ vlans' = [vid \in DOMAIN vlans |-> [vlans[vid] EXCEPT !.up = vlans[vid].up /\ vid \notin Now]]
  BY <1>4, <1>5, Zenon DEF V!RealDown, V!Only, V!vlan_dev_stop
<1>7. Gone = {} /\ Gone' = {}
  BY <1>3 DEF Gone
<1>8. Now \in SUBSET UpIn(vlans)
  BY <1>3, <1>4, AllListed DEF UpIn
<1>9. r \in RealType /\ r.mac = real.mac /\ r.mtu = real.mtu /\ r.uc = real.uc /\ r.rx = real.rx
  BY <1>2, <1>5 DEF RealType
<1>10. ASSUME NEW x \in DOMAIN vlans
       PROVE  /\ vlans'[x] \in DevType /\ vlans'[x].mac = vlans[x].mac /\ vlans'[x].mtu = vlans[x].mtu
              /\ vlans'[x].flags = vlans[x].flags /\ vlans'[x].rx = vlans[x].rx
              /\ vlans'[x].seen = vlans[x].seen
              /\ vlans'[x].up <=> vlans[x].up /\ x \notin Now
  <2>1. vlans'[x] = [vlans[x] EXCEPT !.up = vlans[x].up /\ x \notin Now]
    BY <1>6
  <2>2. vlans[x] \in DevType /\ (vlans[x].up /\ x \notin Now) \in BOOLEAN
    BY <1>2
  <2>3. QED
    BY <2>1, <2>2 DEF DevType
<1>11. DOMAIN vlans' = DOMAIN vlans /\ vlans' = [x \in DOMAIN vlans' |-> vlans'[x]]
  BY <1>6
<1>12. UpIn(vlans') = UpIn(vlans) \ Now
  BY <1>10, <1>11 DEF UpIn
<1>13. NeedsStay(vlans') /\ Covers(r, Now, V!Everything)
  BY <1>1, <1>8, <1>10, <1>11, NeedsEverything DEF NeedsStay, Covers, UpIn
<1>14. Counted(r, vlans)
  BY <1>1, <1>9 DEF Counted
<1>15. /\ real' \in RealType /\ real'.mac = real.mac /\ real'.mtu = real.mtu
       /\ Counted(real', vlans')
  <2>1. Tells(real', r, vlans')
    BY <1>1, <1>6, <1>8, <1>9, <1>12, <1>13, <1>14, AskTakesBack
  <2>2. QED
    BY <1>9, <2>1 DEF Tells
<1>16. ToldTypes'
  <2>1. vlans' \in [DOMAIN vlans' -> DevType]
    BY <1>10, <1>11
  <2>2. QED
    BY <1>2, <1>11, <1>15, <2>1 DEF ToldTypes
<1>17. SeenLast' /\ Announced' /\ MtusFit'
  BY <1>1, <1>3, <1>7, <1>10, <1>11, <1>12, <1>15 DEF SeenLast, Announced, MtusFit, UpIn
<1>18. QED
  BY <1>15, <1>16, <1>17 DEF ToldInv

\* The real device takes another address: a device that has it needs its filter no longer,
\* and one that has the old one needs a filter from now on.
LEMMA RealMacTells ==
  ASSUME VlanInv, ToldInv, NEW mac \in Macs, V!RealMac(mac)
  PROVE  ToldInv'
<1>1. ToldTypes /\ Counted(real, vlans) /\ SeenLast /\ Announced /\ MtusFit
  BY DEF ToldInv
<1>2. real \in RealType /\ vlans \in [DOMAIN vlans -> DevType] /\ IsFiniteSet(DOMAIN vlans)
  BY <1>1 DEF ToldTypes
<1>3. rtnl = V!Free /\ rtnl' = rtnl /\ joined' = joined /\ mac # real.mac
  BY Zenon DEF V!RealMac, V!Unlocked, V!Only
<1>4. PICK Now : Now = {vid \in V!Slots : vlans[vid].up}
  OBVIOUS
<1>5. Now = UpIn(vlans)
  BY <1>3, <1>4, AllListed DEF UpIn
<1> DEFINE Asking(m, d) == {vid \in Now : vlans[vid].mac = m /\ V!vlan_sync_address(mac, vlans[vid]) = d}
           uc == [m \in Macs |->
                    V!Filtered(real.uc[m], V!Cardinality(Asking(m, 1)) - V!Cardinality(Asking(m, -1)))]
<1>6. /\ real' = [real EXCEPT !.mac = mac, !.uc = uc]
      /\ vlans' = [vid \in DOMAIN vlans |-> [vlans[vid] EXCEPT !.seen = IF vid \in Now THEN mac ELSE vlans[vid].seen]]
  BY <1>4, Zenon DEF V!RealMac, V!Only
<1>7. Gone = {} /\ Gone' = {}
  BY <1>3 DEF Gone
<1>8. ASSUME NEW x \in DOMAIN vlans
      PROVE  /\ vlans'[x] \in DevType /\ vlans'[x].mac = vlans[x].mac /\ vlans'[x].mtu = vlans[x].mtu
             /\ vlans'[x].flags = vlans[x].flags /\ vlans'[x].rx = vlans[x].rx /\ vlans'[x].up = vlans[x].up
             /\ x \in Now => vlans'[x].seen = mac
  <2>1. vlans'[x] = [vlans[x] EXCEPT !.seen = IF x \in Now THEN mac ELSE vlans[x].seen]
    BY <1>6
  <2>2. vlans[x] \in DevType /\ mac \in Addresses
    BY <1>2 DEF Addresses
  <2>3. QED
    BY <2>1, <2>2 DEF DevType
<1>9. DOMAIN vlans' = DOMAIN vlans /\ vlans' = [x \in DOMAIN vlans' |-> vlans'[x]]
  BY <1>6
<1>10. UpIn(vlans') = UpIn(vlans)
  BY <1>8, <1>9 DEF UpIn
<1>11. ASSUME NEW m \in Macs
       PROVE  uc[m] = Cardinality(Filtering(vlans', m, mac)) /\ uc[m] \in Nat
  <2>1. \A vid \in Now : vlans[vid].seen = real.mac
    BY <1>1, <1>5 DEF SeenLast
  <2>2. uc[m] = V!Filtered(real.uc[m], Cardinality(Asking(m, 1)) - Cardinality(Asking(m, -1)))
    BY VlanCardinality
  <2>3. real.uc[m] = Cardinality(Filtering(vlans, m, real.mac)) /\ real.uc[m] \in Nat
    BY <1>1, <1>2 DEF Counted, RealType
  <2>4. IsFiniteSet(UpIn(vlans)) /\ Cardinality({}) = 0 /\ Cardinality(Filtering(vlans', m, mac)) \in Nat
    <3>1. IsFiniteSet(UpIn(vlans))
      BY <1>2, FS_Subset DEF UpIn
    <3>2. Filtering(vlans', m, mac) \in SUBSET UpIn(vlans)
      BY <1>10 DEF Filtering
    <3>3. QED
      BY <3>1, <3>2, FS_Subset, FS_CardinalityType, FS_EmptySet
  <2>5. CASE m = mac
    <3>1. Asking(m, 1) = {} /\ Asking(m, -1) = Filtering(vlans, m, real.mac)
      BY <1>3, <1>5, <2>1, <2>5 DEF V!vlan_sync_address, Filtering
    <3>2. Filtering(vlans', m, mac) = {}
      BY <2>5 DEF Filtering
    <3>3. uc[m] = V!Filtered(real.uc[m], -real.uc[m])
      <4>1. 0 - real.uc[m] = -real.uc[m]
        BY <2>3
      <4>2. QED
        BY <2>2, <2>3, <2>4, <3>1, <4>1
    <3>4. V!Filtered(real.uc[m], -real.uc[m]) = 0
      BY <2>3, FilteredMeans
    <3>5. QED
      BY <2>4, <3>2, <3>3, <3>4
  <2>6. CASE m = real.mac
    <3>1. Asking(m, -1) = {} /\ Asking(m, 1) = Filtering(vlans', m, mac)
      BY <1>3, <1>5, <1>8, <1>10, <2>1, <2>6 DEF V!vlan_sync_address, Filtering, UpIn
    <3>2. Filtering(vlans, m, real.mac) = {}
      BY <2>6 DEF Filtering
    <3>3. uc[m] = V!Filtered(0, Cardinality(Filtering(vlans', m, mac)))
      <4>1. real.uc[m] = 0 /\ Cardinality(Asking(m, -1)) = 0
        BY <2>3, <2>4, <3>1, <3>2
      <4>2. Cardinality(Asking(m, 1)) = Cardinality(Filtering(vlans', m, mac))
        BY <3>1
      <4>3. \A n \in Nat : n - 0 = n
        OBVIOUS
      <4>4. QED
        BY <2>2, <2>4, <4>1, <4>2, <4>3
    <3>4. QED
      BY <2>4, <3>3, FilteredMeans
  <2>7. CASE m # mac /\ m # real.mac
    <3>1. Asking(m, -1) = {} /\ Asking(m, 1) = {}
      BY <2>1, <2>7 DEF V!vlan_sync_address
    <3>2. Filtering(vlans', m, mac) = Filtering(vlans, m, real.mac)
      BY <1>8, <1>10, <2>7 DEF Filtering, UpIn
    <3>3. uc[m] = V!Filtered(real.uc[m], 0)
      <4>1. Cardinality(Asking(m, 1)) = 0 /\ Cardinality(Asking(m, -1)) = 0
        BY <2>4, <3>1
      <4>2. 0 - 0 = 0
        OBVIOUS
      <4>3. QED
        BY <2>2, <4>1, <4>2
    <3>4. QED
      BY <2>3, <3>2, <3>3, FilteredMeans
  <2>8. QED
    BY <2>5, <2>6, <2>7
<1>12. uc \in [Macs -> Nat]
  BY <1>11
<1> HIDE DEF uc
<1>13. /\ real' \in RealType /\ real'.mac = mac /\ real'.mtu = real.mtu /\ real'.uc = uc
       /\ real'.rx = real.rx
  BY <1>2, <1>6, <1>12 DEF RealType, Addresses
<1>14. Counted(real', vlans')
  <2>1. \A f : Flagged(vlans', f) = Flagged(vlans, f)
    BY <1>8, <1>10 DEF Flagged, UpIn
  <2>2. QED
    BY <1>1, <1>11, <1>13, <2>1 DEF Counted
<1>15. ToldTypes'
  <2>1. vlans' \in [DOMAIN vlans' -> DevType]
    BY <1>8, <1>9
  <2>2. QED
    BY <1>2, <1>9, <1>13, <2>1 DEF ToldTypes
<1>16. SeenLast'
  BY <1>5, <1>8, <1>10, <1>13 DEF SeenLast, UpIn
<1>17. Announced' /\ MtusFit'
  BY <1>1, <1>3, <1>7, <1>8, <1>9, <1>10, <1>13 DEF Announced, MtusFit, UpIn
<1>18. QED
  BY <1>14, <1>15, <1>16, <1>17 DEF ToldInv

LEMMA RealMtuTells ==
  ASSUME VlanInv, ToldInv, NEW mtu \in Mtus, V!RealMtu(mtu)
  PROVE  ToldInv'
<1>1. ToldTypes /\ Counted(real, vlans) /\ SeenLast /\ Announced /\ MtusFit
  BY DEF ToldInv
<1>2. real \in RealType /\ vlans \in [DOMAIN vlans -> DevType] /\ IsFiniteSet(DOMAIN vlans)
  BY <1>1 DEF ToldTypes
<1>3. /\ rtnl = V!Free /\ rtnl' = rtnl /\ joined' = joined /\ real' = [real EXCEPT !.mtu = mtu]
      /\ vlans' = [vid \in DOMAIN vlans |-> [vlans[vid] EXCEPT !.mtu = V!Min({vlans[vid].mtu, mtu})]]
  BY Zenon DEF V!RealMtu, V!Unlocked, V!Only
<1>4. Gone = {} /\ Gone' = {}
  BY <1>3 DEF Gone
<1>5. \A a \in Mtus : V!Min({a, mtu}) \in Mtus /\ V!Min({a, mtu}) <= mtu
  <2>1. Mtus \subseteq Nat
    BY LibraryAssumption DEF V!VlanAssumption
  <2>2. QED
    BY <2>1 DEF V!Min
<1>6. ASSUME NEW x \in DOMAIN vlans
      PROVE  /\ vlans'[x] \in DevType /\ vlans'[x].mac = vlans[x].mac /\ vlans'[x].mtu <= mtu
             /\ vlans'[x].flags = vlans[x].flags /\ vlans'[x].rx = vlans[x].rx /\ vlans'[x].up = vlans[x].up
             /\ vlans'[x].seen = vlans[x].seen
  <2>1. vlans'[x] = [vlans[x] EXCEPT !.mtu = V!Min({vlans[x].mtu, mtu})]
    BY <1>3
  <2>2. vlans[x] \in DevType
    BY <1>2
  <2>3. V!Min({vlans[x].mtu, mtu}) \in Mtus /\ V!Min({vlans[x].mtu, mtu}) <= mtu
    BY <1>5, <2>2 DEF DevType
  <2>4. QED
    BY <2>1, <2>2, <2>3 DEF DevType
<1>7. DOMAIN vlans' = DOMAIN vlans /\ vlans' = [x \in DOMAIN vlans' |-> vlans'[x]]
  BY <1>3
<1>8. UpIn(vlans') = UpIn(vlans) /\ NeedsStay(vlans')
  BY <1>6, <1>7 DEF UpIn, NeedsStay
<1>9. /\ real' \in RealType /\ real'.mac = real.mac /\ real'.mtu = mtu /\ real'.uc = real.uc
      /\ real'.rx = real.rx
  BY <1>2, <1>3 DEF RealType
<1>10. Counted(real', vlans')
  <2>1. Counted(real', vlans)
    BY <1>1, <1>9 DEF Counted
  <2>2. QED
    BY <1>8, <2>1, SameNeeds
<1>11. ToldTypes'
  <2>1. vlans' \in [DOMAIN vlans' -> DevType]
    BY <1>6, <1>7
  <2>2. QED
    BY <1>2, <1>7, <1>9, <2>1 DEF ToldTypes
<1>12. SeenLast'
  BY <1>1, <1>6, <1>8, <1>9 DEF SeenLast, UpIn
<1>13. Announced'
  BY <1>1, <1>3, <1>4, <1>6, <1>8 DEF Announced, UpIn
<1>14. MtusFit'
  BY <1>6, <1>7, <1>9 DEF MtusFit
<1>15. QED
  BY <1>10, <1>11, <1>12, <1>13, <1>14 DEF ToldInv

-----------------------------------------------------------------------------
(* Registration. *)

LEMMA RegisterTells ==
  ASSUME VlanInv, ToldInv, NEW vid \in Vids, NEW mac \in Macs, NEW mtu \in Mtus, NEW fail,
         V!Register(vid, mac, mtu, fail)
  PROVE  ToldInv'
<1>1. ToldTypes /\ Counted(real, vlans) /\ SeenLast /\ Announced /\ MtusFit
  BY DEF ToldInv
<1>2. real \in RealType /\ vlans \in [DOMAIN vlans -> DevType] /\ IsFiniteSet(DOMAIN vlans)
  BY <1>1 DEF ToldTypes
<1>3. CASE fail # "none"
  <2>1. UNCHANGED <<real, vlans, joined, rtnl>>
    BY <1>3 DEF V!Register, V!vlanVars
  <2>2. QED
    BY <1>1, <2>1 DEF ToldInv, ToldTypes, Counted, SeenLast, Announced, MtusFit, UpIn, Filtering, Flagged, Gone
<1>4. CASE fail = "none"
  <2>1. PICK dev : dev = [up |-> FALSE, mac |-> mac, seen |-> real.mac, mtu |-> mtu, flags |-> {}, rx |-> {}]
    OBVIOUS
  <2>2. /\ rtnl = V!Free /\ vid \notin DOMAIN vlans /\ mtu <= real.mtu
        /\ vlans' = [x \in DOMAIN vlans \cup {vid} |-> IF x = vid THEN dev ELSE vlans[x]]
        /\ UNCHANGED <<real, joined, rtnl>>
    BY <1>4, <2>1 DEF V!Register, V!Unlocked
  <2>3. Gone = {} /\ Gone' = {}
    BY <2>2 DEF Gone
  <2>4. dev \in DevType /\ ~dev.up /\ dev.mtu = mtu
    BY <1>2, <2>1 DEF DevType, RealType
  <2>5. /\ DOMAIN vlans' = DOMAIN vlans \cup {vid} /\ vlans'[vid] = dev
        /\ \A x \in DOMAIN vlans : vlans'[x] = vlans[x]
        /\ vlans' \in [DOMAIN vlans' -> DevType]
    BY <1>2, <2>2, <2>4
  <2>6. UpIn(vlans') = UpIn(vlans) /\ NeedsStay(vlans')
    BY <2>4, <2>5 DEF UpIn, NeedsStay
  <2>7. Counted(real', vlans')
    BY <1>1, <2>2, <2>6, SameNeeds
  <2>8. ToldTypes'
    <3>1. IsFiniteSet(DOMAIN vlans')
      BY <1>2, <2>5, FS_AddElement
    <3>2. QED
      BY <1>2, <2>2, <2>5, <3>1 DEF ToldTypes
  <2>9. SeenLast'
    BY <1>1, <2>2, <2>5, <2>6 DEF SeenLast, UpIn
  <2>10. Announced'
    BY <1>1, <2>2, <2>3, <2>5, <2>6 DEF Announced, UpIn
  <2>11. MtusFit'
    BY <1>1, <2>2, <2>4, <2>5 DEF MtusFit
  <2>12. QED
    BY <2>7, <2>8, <2>9, <2>10, <2>11 DEF ToldInv
<1>5. QED
  BY <1>3, <1>4

\* The steps of unregistration before the devices are closed, and those of the receiver:
\* a device that loses its announcement is gone.
LEMMA OthersTell ==
  ASSUME ToldInv, UNCHANGED <<real, vlans>>, Gone \subseteq Gone',
         \A vid \in UpIn(vlans) \ Gone' : vid \in joined => vid \in joined'
  PROVE  ToldInv'
<1>1. ToldTypes /\ Counted(real, vlans) /\ SeenLast /\ Announced /\ MtusFit
  BY DEF ToldInv
<1>2. ToldTypes' /\ SeenLast' /\ MtusFit'
  BY <1>1 DEF ToldTypes, SeenLast, MtusFit, UpIn
<1>3. Counted(real', vlans')
  BY <1>1
<1>4. Announced'
  BY <1>1 DEF Announced, UpIn
<1>5. QED
  BY <1>2, <1>3, <1>4 DEF ToldInv

\* The last device takes the group and its announcements with it, and it is gone itself.
LEMMA UnlinkTells ==
  ASSUME VlanInv, NEW vid, vlgrp # V!None, vid \in V!Slots, V!Unlink(vlgrp, vid),
         Gone' = Gone \cup {vid}
  PROVE  \A x \in DOMAIN vlans \ Gone' : x \in joined => x \in joined'
<1>1. VlanTypes /\ GroupsCounted /\ DevicesListed
  BY DEF VlanInv
<1>2. vlgrp \in DOMAIN groups /\ groups[vlgrp] \in GroupType /\ V!Slots = groups[vlgrp].slots
  BY <1>1 DEF VlanTypes, GroupsCounted, V!Slots
<1>3. IsFiniteSet(V!Slots) /\ groups[vlgrp].nr = Cardinality(V!Slots) /\ groups[vlgrp].nr \in Nat
  BY <1>1, <1>2 DEF GroupsCounted, GroupType
<1>4. joined' = IF groups[vlgrp].nr - 1 = 0 THEN {}
               ELSE IF "gvrp" \in vlans[vid].flags THEN joined \ {vid} ELSE joined
  BY DEF V!Unlink
<1>5. ASSUME NEW x \in DOMAIN vlans, x \notin Gone', x \in joined
      PROVE  x \in joined'
  <2>1. x \in V!Slots /\ x # vid
    BY <1>1, <1>5 DEF DevicesListed
  <2>2. groups[vlgrp].nr # 1
    <3>1. \A y, z \in V!Slots : Cardinality(V!Slots) = 1 => y = z
      BY <1>3, FS_Singleton
    <3>2. QED
      BY <1>3, <2>1, <3>1
  <2>3. QED
    BY <1>3, <1>4, <1>5, <2>1, <2>2
<1>6. QED
  BY <1>5

LEMMA UnregisterTells ==
  ASSUME VlanInv, ToldInv, NEW vid \in Vids, V!Unregister(vid)
  PROVE  ToldInv'
<1>1. /\ rtnl = V!Free /\ vid \in DOMAIN vlans /\ V!Unlink(vlgrp, vid) /\ rtnl'.gone = {vid}
      /\ rtnl' # V!Free /\ UNCHANGED <<real, vlans>>
  BY DEF V!Unregister, V!Unlocked, V!Free
<1>2. Gone = {} /\ Gone' = {vid} /\ vid \in V!Slots
  BY <1>1, AllListed DEF Gone
<1>3. vlgrp # V!None
  BY <1>2 DEF V!Slots
<1>4. \A x \in DOMAIN vlans \ Gone' : x \in joined => x \in joined'
  BY <1>1, <1>2, <1>3, UnlinkTells
<1>5. QED
  BY <1>1, <1>2, <1>4, OthersTell DEF UpIn

LEMMA NextVidTells ==
  ASSUME VlanInv, ToldInv, V!NextVid
  PROVE  ToldInv'
<1>1. VlanTypes /\ GroupsCounted /\ DevicesListed /\ Walk
  BY DEF VlanInv
<1>2. PICK vid : vid = V!Min(rtnl.left)
  OBVIOUS
<1>3. /\ rtnl.what = "all" /\ rtnl.left # {} /\ UNCHANGED <<real, vlans>>
      /\ IF vid \in groups[rtnl.grp].slots
         THEN /\ V!Unlink(rtnl.grp, vid)
              /\ rtnl' = [what |-> "all", grp |-> rtnl.grp, gone |-> rtnl.gone \cup {vid},
                          left |-> V!VidsLeft(rtnl.left \ {vid}, rtnl.grp)]
         ELSE rtnl' = [rtnl EXCEPT !.left = rtnl.left \ {vid}] /\ UNCHANGED <<groups, vlgrp, joined>>
  BY <1>2 DEF V!NextVid
<1>4. rtnl.grp = vlgrp /\ vlgrp # V!None
  BY <1>1, <1>3 DEF Walk
<1>5. /\ rtnl \in [what : {"all"}, grp : V!Grps, gone : SUBSET Vids, left : SUBSET Vids]
      /\ Gone = rtnl.gone
  BY <1>1, <1>3 DEF VlanTypes, RtnlType, V!Free, Gone
<1>6. CASE vid \in groups[rtnl.grp].slots
  <2>1. vid \in V!Slots
    BY <1>4, <1>6 DEF V!Slots
  <2>2. Gone' = Gone \cup {vid}
    BY <1>3, <1>5, <1>6 DEF Gone, V!Free
  <2>3. \A x \in DOMAIN vlans \ Gone' : x \in joined => x \in joined'
    BY <1>3, <1>4, <1>6, <2>1, <2>2, UnlinkTells
  <2>4. QED
    BY <1>3, <2>2, <2>3, OthersTell DEF UpIn
<1>7. CASE vid \notin groups[rtnl.grp].slots
  <2>1. rtnl'.gone = rtnl.gone /\ rtnl' # V!Free
    BY <1>3, <1>5, <1>7 DEF V!Free
  <2>2. Gone' = Gone
    BY <1>5, <2>1 DEF Gone
  <2>3. QED
    BY <1>3, <1>7, <2>2, OthersTell
<1>8. QED
  BY <1>6, <1>7

\* The other steps under the lock, the freeing of a group and the steps of the receiver.
LEMMA RestTells ==
  ASSUME VlanInv, ToldInv,
         \/ V!UnregisterAll \/ V!AllQueued \/ V!FindDevice \/ V!Deliver
         \/ \E g \in V!Grps : V!FreeGroup(g)
         \/ \E vid \in Vids : V!Receive(vid)
  PROVE  ToldInv'
<1>1. rtnl \in RtnlType
  BY DEF VlanInv, VlanTypes
<1>2. UNCHANGED <<real, vlans, joined>>
  BY DEF V!UnregisterAll, V!AllQueued, V!FindDevice, V!Deliver, V!FreeGroup, V!Receive
<1>3. Gone \subseteq Gone'
  <2>1. CASE V!UnregisterAll
    BY <2>1 DEF V!UnregisterAll, V!Unlocked, Gone
  <2>2. CASE V!AllQueued
    <3>1. rtnl # V!Free /\ rtnl' # V!Free /\ rtnl'.gone = rtnl.gone
      BY <2>2 DEF V!AllQueued, V!Free
    <3>2. QED
      BY <3>1 DEF Gone
  <2>3. CASE rtnl' = IF rtnl.what = "finish" THEN [rtnl EXCEPT !.waits = FALSE] ELSE rtnl
    <3>1. CASE rtnl.what = "finish"
      <4>1. rtnl \in [what : {"finish"}, gone : SUBSET Vids, waits : BOOLEAN]
        BY <1>1, <3>1 DEF RtnlType, V!Free
      <4>2. rtnl' = [what |-> "finish", gone |-> rtnl.gone, waits |-> FALSE]
        BY <2>3, <3>1, <4>1
      <4>3. QED
        BY <3>1, <4>2 DEF Gone, V!Free
    <3>2. CASE rtnl.what # "finish"
      BY <2>3, <3>2 DEF Gone
    <3>3. QED
      BY <3>1, <3>2
  <2>4. CASE rtnl' = rtnl
    BY <2>4 DEF Gone
  <2>5. QED
    BY <2>1, <2>2, <2>3, <2>4 DEF V!FindDevice, V!Deliver, V!FreeGroup, V!Receive
<1>4. QED
  BY <1>2, <1>3, OthersTell

\* The devices that are gone are closed, and what they needed is given back.
LEMMA FinishTells ==
  ASSUME VlanInv, ToldInv, V!Finish
  PROVE  ToldInv'
<1>1. ToldTypes /\ Counted(real, vlans) /\ SeenLast /\ Announced /\ MtusFit
  BY DEF ToldInv
<1>2. real \in RealType /\ vlans \in [DOMAIN vlans -> DevType] /\ IsFiniteSet(DOMAIN vlans)
  BY <1>1 DEF ToldTypes
<1>3. PICK Now : Now = {vid \in rtnl.gone : vlans[vid].up}
  OBVIOUS
<1>4. /\ rtnl.what = "finish" /\ rtnl' = V!Free /\ joined' = joined
      /\ real' = V!Ask(real, Now, V!Everything, -1)
      /\ vlans' = [vid \in DOMAIN vlans \ rtnl.gone |-> vlans[vid]]
  BY <1>3, Zenon DEF V!Finish, V!vlan_dev_stop
<1>5. Gone = rtnl.gone /\ Gone' = {} /\ Gone \subseteq DOMAIN vlans
  BY <1>4 DEF Gone, V!Free, VlanInv, DevicesListed
<1>6. /\ DOMAIN vlans' = DOMAIN vlans \ Gone /\ \A x \in DOMAIN vlans' : vlans'[x] = vlans[x]
      /\ vlans' \in [DOMAIN vlans' -> DevType]
  BY <1>2, <1>4, <1>5
<1>7. Now \in SUBSET UpIn(vlans)
  BY <1>3, <1>5 DEF UpIn
<1>8. UpIn(vlans') = UpIn(vlans) \ Now /\ UpIn(vlans') = UpIn(vlans) \ Gone
  BY <1>3, <1>5, <1>6 DEF UpIn
<1>9. NeedsStay(vlans') /\ Covers(real, Now, V!Everything)
  BY <1>1, <1>6, <1>7, NeedsEverything DEF NeedsStay, Covers, UpIn
<1>10. /\ real' \in RealType /\ real'.mac = real.mac /\ real'.mtu = real.mtu
       /\ Counted(real', vlans')
  <2>1. Tells(real', real, vlans')
    BY <1>1, <1>2, <1>4, <1>7, <1>8, <1>9, AskTakesBack
  <2>2. QED
    BY <2>1 DEF Tells
<1>11. ToldTypes'
  <2>1. IsFiniteSet(DOMAIN vlans')
    BY <1>2, <1>6, FS_Subset
  <2>2. QED
    BY <1>6, <1>10, <2>1 DEF ToldTypes
<1>12. SeenLast'
  BY <1>1, <1>6, <1>8, <1>10 DEF SeenLast, UpIn
<1>13. Announced'
  BY <1>1, <1>4, <1>5, <1>6, <1>8 DEF Announced, UpIn
<1>14. MtusFit'
  BY <1>1, <1>6, <1>10 DEF MtusFit
<1>15. QED
  BY <1>10, <1>11, <1>12, <1>13, <1>14 DEF ToldInv

-----------------------------------------------------------------------------
LEMMA ToldInit ==
  ASSUME V!Init
  PROVE  ToldInv
<1>1. /\ real = [up |-> FALSE, mac |-> V!Min(Macs), mtu |-> V!Max(Mtus),
                uc |-> [m \in Macs |-> 0], rx |-> [f \in RxFlags |-> 0]]
      /\ DOMAIN vlans = {} /\ vlans = [x \in DOMAIN vlans |-> vlans[x]]
  BY DEF V!Init
<1>2. UpIn(vlans) = {}
  BY <1>1 DEF UpIn
<1>3. ToldTypes
  <2>1. real \in RealType
    BY <1>1 DEF RealType, Addresses
  <2>2. QED
    BY <1>1, <2>1, FS_EmptySet DEF ToldTypes
<1>4. Counted(real, vlans)
  <2>1. \A x : Filtering(vlans, x, real.mac) = {} /\ Flagged(vlans, x) = {}
    BY <1>2 DEF Filtering, Flagged
  <2>2. QED
    BY <1>1, <2>1, FS_EmptySet DEF Counted
<1>5. SeenLast /\ Announced /\ MtusFit
  BY <1>1, <1>2 DEF SeenLast, Announced, MtusFit
<1>6. QED
  BY <1>3, <1>4, <1>5 DEF ToldInv

LEMMA ToldStep ==
  ASSUME VlanInv, ToldInv, [V!Next]_V!vlanVars
  PROVE  ToldInv'
<1>1. CASE UNCHANGED V!vlanVars
  <2>1. UNCHANGED <<real, vlans, joined, rtnl>>
    BY <1>1 DEF V!vlanVars
  <2>2. QED
    BY <2>1, OthersTell DEF Gone
<1>2. ASSUME NEW vid \in Vids,
             \/ \E k \in 0..3 : V!Open(vid, k)
             \/ V!Stop(vid)
             \/ \E mac \in Macs, nomem \in BOOLEAN : V!SetMac(vid, mac, nomem)
             \/ \E f \in RxFlags : V!SetRx(vid, f)
             \/ \E flags \in SUBSET VlanFlags : V!vlan_dev_change_flags(vid, flags)
             \/ \E mtu \in Mtus : V!SetMtu(vid, mtu)
      PROVE  ToldInv'
  BY <1>2, OpenTells, StopTells, SetMacTells, SetRxTells, FlagsTell, SetMtuTells
<1>3. CASE \/ \E Fail \in SUBSET Vids : V!RealUp(Fail)
           \/ V!RealDown
           \/ \E mac \in Macs : V!RealMac(mac)
           \/ \E mtu \in Mtus : V!RealMtu(mtu)
  BY <1>3, RealUpTells, RealDownTells, RealMacTells, RealMtuTells
<1>4. ASSUME NEW vid \in Vids, V!Unregister(vid) \/ V!Receive(vid)
      PROVE  ToldInv'
  BY <1>4, UnregisterTells, RestTells
<1>5. ASSUME NEW vid \in Vids, NEW mac \in Macs, NEW mtu \in Mtus, NEW fail,
             V!Register(vid, mac, mtu, fail)
      PROVE  ToldInv'
  BY <1>5, RegisterTells
<1>6. CASE V!NextVid \/ V!Finish
  BY <1>6, NextVidTells, FinishTells
<1>7. CASE \/ V!UnregisterAll \/ V!AllQueued \/ V!FindDevice \/ V!Deliver
           \/ \E g \in V!Grps : V!FreeGroup(g)
  BY <1>7, RestTells
<1>8. QED
  BY <1>1, <1>2, <1>3, <1>4, <1>5, <1>6, <1>7 DEF V!Next

LEMMA ToldSafe ==
  ASSUME VlanInv, ToldInv
  PROVE  RealDeviceTold
<1>1. Counted(real, vlans) /\ Announced /\ MtusFit
  BY DEF ToldInv
<1>2. UpIn(vlans) = {vid \in DOMAIN vlans : vlans[vid].up}
  BY DEF UpIn
<1> DEFINE Up == {vid \in DOMAIN vlans : vlans[vid].up}
<1>3. ASSUME NEW m \in Macs
      PROVE  real.uc[m] = V!Cardinality({vid \in Up : vlans[vid].mac = m /\ m # real.mac})
  <2>1. Filtering(vlans, m, real.mac) = {vid \in Up : vlans[vid].mac = m /\ m # real.mac}
    BY DEF Filtering, UpIn
  <2>2. real.uc[m] = Cardinality(Filtering(vlans, m, real.mac))
    BY <1>1 DEF Counted
  <2>3. QED
    BY <2>1, <2>2, VlanCardinality
<1>4. ASSUME NEW f \in RxFlags
      PROVE  real.rx[f] = V!Cardinality({vid \in Up : f \in vlans[vid].rx})
  <2>1. Flagged(vlans, f) = {vid \in Up : f \in vlans[vid].rx}
    BY DEF Flagged, UpIn
  <2>2. real.rx[f] = Cardinality(Flagged(vlans, f))
    BY <1>1 DEF Counted
  <2>3. QED
    BY <2>1, <2>2, VlanCardinality
<1>5. rtnl = V!Free => \A vid \in Up : "gvrp" \in vlans[vid].flags => vid \in joined
  BY <1>1 DEF Announced, Gone, UpIn
<1>6. \A vid \in DOMAIN vlans : vlans[vid].mtu <= real.mtu
  BY <1>1 DEF MtusFit
<1>7. QED
  BY <1>3, <1>4, <1>5, <1>6 DEF RealDeviceTold, V!RealDeviceTold

(* The real device counts a filter for every address, other than its own,  *)
(* of the VLAN devices that are up, and each receive flag they have; the   *)
(* announced ones among them are announced, and no frame is longer than it *)
(* carries: over opens that fail half-way, addresses that change on both   *)
(* sides, flags, events of the real device and unregistration.  The counts *)
(* hold because every device that is up saw the real device's address last,*)
(* which is what vlan_sync_address compares.                               *)
THEOREM RealDeviceAsked == V!Spec => []RealDeviceTold
<1>1. V!Init => VlanInv /\ ToldInv
  BY VlanInit, ToldInit
<1>2. VlanInv /\ ToldInv /\ [V!Next]_V!vlanVars => VlanInv' /\ ToldInv'
  BY VlanStep, ToldStep
<1>3. VlanInv /\ ToldInv => RealDeviceTold
  BY ToldSafe
<1>4. QED
  BY <1>1, <1>2, <1>3, PTL DEF V!Spec
=============================================================================
