----------------------------- MODULE MCLibrary -----------------------------
(* Memory that is shared, counted or given back: the pool, the shared      *)
(* memory region and the semaphore of ce_util, and the VLAN devices with   *)
(* their groups.  They share nothing here: a run checks one of them,       *)
(* chosen at the start, the VLANs once with what they ask of the real      *)
(* device and once with a receiver.                                        *)
EXTENDS Pool

CONSTANTS
  SizeOfQueue, SizeOfBlock, PubNum, MinNum, QueueDefault, Bits,
  Readers, QueueIds, Requests, RegionSize, SizeOfHeader, MaxSegs, CrashAnywhere,
  Users, MaxSets, MaxCrashes,
  Vids, Macs, Mtus, RxFlags, VlanFlags

VARIABLES
  unit,
  segs, keyed, head, queues, pc, seen, new, att, late, found,
  sets, named, value, exists, at, sem, waiting, crashes,
  real, vlans, joined, vlgrp, groups, stats, rtnl, rx

R == INSTANCE ShmRegion
S == INSTANCE Semaphore
V == INSTANCE Vlan WITH Flags <- VlanFlags

regionVars == <<segs, keyed, head, queues, pc, seen, new, att, late, found>>
semVars == <<sets, named, value, exists, at, sem, waiting, crashes>>
vlanVars == <<real, vlans, joined, vlgrp, groups, stats, rtnl, rx>>
mcvars == <<unit, vars, regionVars, semVars, vlanVars>>

\* Sizes that fit, that the assertion refuses, and that are too small.
ThreeRequests == {<<30, 1>>, <<16, 1>>, <<0, 2>>}

ASSUME LibraryAssumption == R!GeometryAssumption /\ R!RegionAssumption /\ V!VlanAssumption

MCInit ==
  /\ unit \in {"pool", "region", "semaphore", "filters", "receivers"}
  /\ Init /\ R!Init /\ S!Init /\ V!Init

\* All but the variables of one of them stay.
OnlyPool      == unit = "pool" /\ UNCHANGED <<unit, regionVars, semVars, vlanVars>>
OnlyRegion    == unit = "region" /\ UNCHANGED <<unit, vars, semVars, vlanVars>>
OnlySemaphore == unit = "semaphore" /\ UNCHANGED <<unit, vars, regionVars, vlanVars>>
OnlyVlans     == UNCHANGED <<unit, vars, regionVars, semVars>>

\* The filters the real device is asked for, over addresses, receive flags and devices
\* that are not bound to its being up.
Filters ==
  /\ unit = "filters" /\ OnlyVlans
  /\ V!Next
  /\ rx' = V!Idle /\ real'.mtu = V!Max(Mtus)
  /\ \A vid \in DOMAIN vlans' : vlans'[vid].mtu = V!Min(Mtus) /\ "gvrp" \notin vlans'[vid].flags

\* A receiver, the announcements and the MTU, with addresses that stay.
Receivers ==
  /\ unit = "receivers" /\ OnlyVlans
  /\ V!Next
  /\ real'.mac = V!Min(Macs)
  /\ \A vid \in DOMAIN vlans' :
       vlans'[vid].mac = V!Max(Macs) /\ vlans'[vid].rx = {} /\ "loose" \notin vlans'[vid].flags

MCNext ==
  \/ OnlyPool /\ Next
  \/ OnlyRegion /\ R!Next
  \/ OnlySemaphore /\ S!Next
  \/ Filters
  \/ Receivers

MCSpec == MCInit /\ [][MCNext]_mcvars

RegionSound    == R!RegionSound
SemExclusion   == S!SemExclusion
RealDeviceTold == V!RealDeviceTold
ReceiversSafe  == V!ReceiversSafe
=============================================================================
