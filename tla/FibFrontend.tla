---------------------------- MODULE FibFrontend ----------------------------
(***************************************************************************)
(* The routes the kernel keeps for the addresses of its devices, as        *)
(* fib_frontend.c does: fib_add_ifaddr and fib_del_ifaddr translate the    *)
(* address list of a device into local, broadcast and subnet routes, the   *)
(* notifiers run them when an address or a device comes or goes, and       *)
(* fib_validate_source judges a packet's source by the result.  Addresses  *)
(* have W bits.  Everything runs under the RTNL lock, so an event is one   *)
(* step.  The local and the main table are one sequence in the order of    *)
(* insertion (NLM_F_APPEND): a route's table follows from its type.        *)
(***************************************************************************)
EXTENDS Integers, SequencesExt, FiniteSetsExt

CONSTANTS
  W,            \* bits of an address
  Devices,
  Loopbacks,    \* devices with IFF_LOOPBACK
  Assignable,   \* [Devices -> set of ifa]; ifa: [local, addr, plen, brd]
  MaxIfas,      \* bound on the addresses of a device
  UserRoutes,   \* routes an administrator may add
  Promotions    \* values of the promote_secondaries setting

VARIABLES
  ifas,         \* ifa_list: [Devices -> Seq(ifa with the field sec)]
  up,           \* devices with IFF_UP
  routes        \* Seq([type, dst, plen, dev, src, by])

fvars == <<ifas, up, routes>>

Init == ifas = [d \in Devices |-> <<>>] /\ up = {} /\ routes = <<>>

Span(plen) == 2 ^ (W - plen)
NetOf(a, plen) == a - (a % Span(plen))
TopOf(a, plen) == NetOf(a, plen) + Span(plen) - 1
Limited == 2 ^ W - 1
Net(ifa) == NetOf(ifa.addr, ifa.plen)
Brd(ifa) == TopOf(ifa.addr, ifa.plen)
SameNet(a, b) == a.plen = b.plen /\ Net(a) = Net(b)

----------------------------------------------------------------------------
(* Lookup. *)

TableOf(r) == IF r.type = "unicast" THEN "main" ELSE "local"

\* The first of the routes of longest prefix to a in a table; 0 for none.
Longest(R, a, table) ==
  LET Hit  == {i \in DOMAIN R : TableOf(R[i]) = table /\ NetOf(a, R[i].plen) = R[i].dst}
      best == Max({R[i].plen : i \in Hit})
  IN IF Hit = {} THEN 0 ELSE Min({i \in Hit : R[i].plen = best})

inet_addr_type(R, a) ==
  IF a \in {0, Limited} THEN "broadcast"
  ELSE LET i == Longest(R, a, "local") IN IF i = 0 THEN "unicast" ELSE R[i].type

\* The rules of fib_default_rules_init: the local table, then the main one.
MainTableFirst(R, a) ==
  LET i == Longest(R, a, "main") IN IF i # 0 THEN i ELSE Longest(R, a, "local")
fib_lookup(R, a) ==
  LET i == Longest(R, a, "local") IN IF i # 0 THEN i ELSE Longest(R, a, "main")

----------------------------------------------------------------------------
(* fib_magic. *)

Route(type, dst, plen, dev, src) ==
  [type |-> type, dst |-> dst, plen |-> plen, dev |-> dev, src |-> src, by |-> "kernel"]

\* fib_create_info and fib_table_insert: refused when it is there already, when its
\* device is down (but for a route of host scope), or its preferred source is not local.
Accepted(R, Up, r) ==
  /\ r \notin Range(R)
  /\ r.type # "local" => r.dev \in Up
  /\ r.src = 0 \/ (r.type = "local" /\ r.dst = r.src) \/ inet_addr_type(R, r.src) = "local"
NewRoute(R, Up, r) == IF Accepted(R, Up, r) THEN Append(R, r) ELSE R
DelRoute(R, r) == SelectSeq(R, LAMBDA x : x # r)

\* inet_ifa_byprefix: the first address of list l in the net of ifa.
inet_ifa_byprefix(l, ifa) == SelectSeq(l, LAMBDA x : SameNet(x, ifa))
Prim(l, ifa) ==
  IF ~ifa.sec THEN <<ifa>> ELSE SubSeq(inet_ifa_byprefix(l, ifa), 1, 1)

IsSubnet(ifa) == Net(ifa) # 0 /\ (Net(ifa) # ifa.local \/ ifa.plen < W)
SubnetRoute(dev, ifa, prim) ==
  Route(IF dev \in Loopbacks THEN "local" ELSE "unicast", Net(ifa), ifa.plen, dev, prim.local)

\* The routes fib_add_ifaddr asks for, in order, when the primary address is prim.
Wanted(Up, dev, ifa, prim) ==
  LET Bc(a) == Route("broadcast", a, W, dev, prim.local) IN
  <<Route("local", ifa.local, W, dev, prim.local)>> \o
  (IF dev \in Up
   THEN (IF ifa.brd \notin {0, Limited} THEN <<Bc(ifa.brd)>> ELSE <<>>) \o
        (IF IsSubnet(ifa) /\ ~ifa.sec
         THEN <<SubnetRoute(dev, ifa, prim)>> \o
              (IF ifa.plen < W - 1 THEN <<Bc(Net(ifa)), Bc(Brd(ifa))>> ELSE <<>>)
         ELSE <<>>)
   ELSE <<>>)

fib_add_ifaddr(R, Up, l, dev, ifa) ==
  LET p == Prim(l, ifa) IN
  IF p = <<>> THEN R
  ELSE FoldLeft(LAMBDA S, r : NewRoute(S, Up, r), R, Wanted(Up, dev, ifa, p[1]))

----------------------------------------------------------------------------
(* fib_del_ifaddr. *)

\* The primary a listed address ifa1 depends on, as far as it matters to one whose
\* primary is prim; <<>> to pass over ifa1.
PrimaryInNet(s, l, ifa1, prim) ==
  IF ~ifa1.sec THEN (IF prim.local = ifa1.local THEN <<ifa1>> ELSE <<>>)
  ELSE IF SameNet(ifa1, prim) THEN <<prim>> ELSE <<>>
PrimaryOf(s, l, ifa1, prim) ==
  IF ~ifa1.sec THEN (IF prim.local = ifa1.local THEN <<ifa1>> ELSE <<>>)
  ELSE IF SameNet(ifa1, prim) THEN <<prim>>
  ELSE IF ~s.same THEN <<>>
  ELSE LET p == IF s.prim1 # <<>> /\ SameNet(ifa1, s.prim1[1]) THEN s.prim1 ELSE Prim(l, ifa1)
       IN IF p # <<>> /\ p[1].local = prim.local THEN p ELSE <<>>

\* What the scan of the list has found when it has passed ifa1: the routes that stay
\* (ok), the primary that last applied (prim1, a sequence of at most one), whether
\* another primary has the same address (same) and whether ifa is still listed (here).
Scanned(l, ifa, prim, iprim) ==
  LET brd == Brd(ifa)   any == Net(ifa)
      Covers(b) == {x \in {"brd", "brd1", "brd0"} :
                     b = IF x = "brd" THEN ifa.brd ELSE IF x = "brd1" THEN brd ELSE any}
      Step(s, ifa1) ==
        IF ifa1 = ifa THEN [s EXCEPT !.here = TRUE]
        ELSE IF iprim # <<>> /\ SameNet(ifa1, iprim[1]) THEN s
        ELSE LET p == PrimaryOf(s, l, ifa1, prim) IN
          IF p = <<>> THEN s
          ELSE [s EXCEPT
                 !.prim1 = p,
                 !.same  = @ \/ (~ifa1.sec /\ prim # ifa1),
                 !.ok    = @ \cup (IF ifa.local = ifa1.local THEN {"local"} ELSE {})
                             \cup Covers(ifa1.brd)
                             \cup (IF p[1] = ifa1 /\ ifa1.plen < W - 1 /\ Net(ifa1) # 0
                                   THEN Covers(Brd(ifa1)) \cup Covers(Net(ifa1)) ELSE {})]
  IN FoldLeft(Step, [ok |-> {}, prim1 |-> <<>>, same |-> FALSE, here |-> FALSE], l)

\* fib_sync_down_addr and fib_flush.
KeepStray(R, a) == R
fib_sync_down_addr(R, a) == IF a = 0 THEN R ELSE SelectSeq(R, LAMBDA r : r.src # a)

\* The routes that go when s was found.
Gone(dev, ifa, prim, s) ==
  LET subnet == ~ifa.sec /\ IsSubnet(ifa)
      Bc(a)  == Route("broadcast", a, W, dev, prim.local)
      lasts  == subnet /\ ifa.plen < W - 1
  IN (IF subnet THEN {SubnetRoute(dev, ifa, prim)} ELSE {}) \cup
     (IF "brd" \notin s.ok THEN {Bc(ifa.brd)} ELSE {}) \cup
     (IF lasts /\ "brd1" \notin s.ok THEN {Bc(Brd(ifa))} ELSE {}) \cup
     (IF lasts /\ "brd0" \notin s.ok THEN {Bc(Net(ifa))} ELSE {}) \cup
     (IF "local" \notin s.ok THEN {Route("local", ifa.local, W, dev, prim.local)} ELSE {})

\* When it was the last use of the address, stray routes that prefer it go too.
Flushed(R, a, s) ==
  IF "local" \notin s.ok /\ ~s.here /\ inet_addr_type(R, a) # "local" THEN fib_sync_down_addr(R, a) ELSE R
Taken(R, G) == SelectSeq(R, LAMBDA r : r \notin G)
DelScanned(R, dev, ifa, prim, s) == Flushed(Taken(R, Gone(dev, ifa, prim, s)), ifa.local, s)

\* l is the list while it runs: ifa itself may still be on it.
DelOf(R, l, dev, ifa, iprim, p) ==
  IF p = <<>> \/ (ifa.sec /\ iprim # <<>> /\ iprim # p) THEN R
  ELSE DelScanned(R, dev, ifa, p[1], Scanned(l, ifa, p[1], iprim))
fib_del_ifaddr(R, l, dev, ifa, iprim) == DelOf(R, l, dev, ifa, iprim, Prim(l, ifa))

----------------------------------------------------------------------------
(* The notifiers. *)

\* fib_disable_ip: a device that is only down keeps its routes of host scope.
fib_disable_ip(R, dev, force) ==
  SelectSeq(R, LAMBDA r : r.dev # dev \/ (force = 0 /\ r.type = "local"))

Emptied(R, l, dev) == IF l = <<>> THEN fib_disable_ip(R, dev, 1) ELSE R
fib_inetaddr_down(R, l, dev, ifa, iprim) == Emptied(fib_del_ifaddr(R, l, dev, ifa, iprim), l, dev)

DevUp(dev) ==
  /\ dev \notin up
  /\ up' = up \cup {dev}
  /\ routes' = FoldLeft(LAMBDA R, ifa : fib_add_ifaddr(R, up', ifas[dev], dev, ifa), routes, ifas[dev])
  /\ UNCHANGED ifas

DevDown(dev) ==
  /\ dev \in up
  /\ up' = up \ {dev}
  /\ routes' = fib_disable_ip(routes, dev, 0)
  /\ UNCHANGED ifas

\* inet_insert_ifa: a second address of a net is secondary and goes to the end, a
\* primary one behind the last primary.
AddAddress(dev, choice) ==
  LET l     == ifas[dev]
      ifa   == [local |-> choice.local, addr |-> choice.addr, plen |-> choice.plen,
                brd |-> choice.brd, sec |-> \E i \in DOMAIN l : SameNet(l[i], choice)]
      prims == {i \in DOMAIN l : ~l[i].sec}
      at    == IF ifa.sec THEN Len(l) + 1 ELSE Max(prims \cup {0}) + 1
  IN /\ Len(l) < MaxIfas
     /\ \A i \in DOMAIN l : SameNet(l[i], choice) => l[i].local # choice.local
     /\ ifas' = [ifas EXCEPT ![dev] = InsertAt(l, at, ifa)]
     /\ routes' = fib_add_ifaddr(routes, up, ifas'[dev], dev, ifa)
     /\ UNCHANGED up

Without(l, x) == SelectSeq(l, LAMBDA y : y # x)

\* inet_del_ifa: whose routes go in order, each with the list at that time and the primary
\* address it is removed for.  Without promotion the secondaries of a primary address go
\* one by one before it; with promotion their routes go silently while all addresses are
\* listed.
Removals(l, ifa, secs, promote) ==
  IF promote
  THEN Append([k \in DOMAIN secs |-> [l |-> l, ifa |-> secs[k], iprim |-> <<ifa>>]],
              [l |-> Without(l, ifa), ifa |-> ifa, iprim |-> <<>>])
  ELSE [k \in 1..Len(secs) + 1 |->
         [l |-> SelectSeq(l, LAMBDA x : x \notin Range(SubSeq(Append(secs, ifa), 1, k))),
          ifa |-> Append(secs, ifa)[k], iprim |-> <<>>]]
Removed(dev, D) == FoldLeft(LAMBDA R, d : fib_inetaddr_down(R, d.l, dev, d.ifa, d.iprim), routes, D)

\* The first secondary becomes primary, and the others' routes are made again.
Promoted(l, secs) == InsertAt(l, Max({i \in DOMAIN l : ~l[i].sec} \cup {0}) + 1, [secs[1] EXCEPT !.sec = FALSE])
AddAgain(R, l, dev, ifs) == FoldLeft(LAMBDA S, x : fib_add_ifaddr(S, up, l, dev, x), R, ifs)
PromoteIn(l, dev, secs, R) ==
  /\ ifas' = [ifas EXCEPT ![dev] = l]
  /\ routes' = AddAgain(R, l, dev, <<[secs[1] EXCEPT !.sec = FALSE]>> \o Tail(secs))

DelOne(dev, ifa, secs, promote, R) ==
  LET left == Without(ifas[dev], ifa) IN
  IF promote THEN PromoteIn(Promoted(Without(left, secs[1]), secs), dev, secs, R)
  ELSE /\ ifas' = [ifas EXCEPT ![dev] = SelectSeq(left, LAMBDA x : x \notin Range(secs))]
       /\ routes' = R
DelWith(dev, ifa, secs, promote) ==
  DelOne(dev, ifa, secs, promote, Removed(dev, Removals(ifas[dev], ifa, secs, promote)))
Secondaries(l, ifa) == SelectSeq(l, LAMBDA x : x.sec /\ ~ifa.sec /\ SameNet(x, ifa))
DelAddress(dev, i, promote) ==
  /\ LET ifa == ifas[dev][i]   secs == Secondaries(ifas[dev], ifa) IN
       DelWith(dev, ifa, secs, promote /\ secs # <<>>)
  /\ UNCHANGED up

\* NETDEV_UNREGISTER, once the addresses are gone.
Unregister(dev) ==
  /\ ifas[dev] = <<>>
  /\ up' = up \ {dev}
  /\ routes' = fib_disable_ip(routes, dev, 2)
  /\ UNCHANGED ifas

\* inet_rtm_newroute and inet_rtm_delroute.
AddRoute(r) ==
  /\ Accepted(routes, up, r)
  /\ routes' = Append(routes, r)
  /\ UNCHANGED <<ifas, up>>
RemoveRoute(r) ==
  /\ r \in Range(routes)
  /\ routes' = DelRoute(routes, r)
  /\ UNCHANGED <<ifas, up>>

Next ==
  \/ \E dev \in Devices :
       \/ DevUp(dev) \/ DevDown(dev) \/ Unregister(dev)
       \/ \E c \in Assignable[dev] : AddAddress(dev, c)
       \/ \E i \in DOMAIN ifas[dev], promote \in Promotions : DelAddress(dev, i, promote)
  \/ \E r \in UserRoutes : AddRoute(r) \/ RemoveRoute(r)

Spec == Init /\ [][Next]_fvars

----------------------------------------------------------------------------
(* fib_validate_source: "ok", or the error it returns. *)
fib_validate_source(src, dev, rpf, accept_local) ==
  LET i == fib_lookup(routes, src)
      LastResort == IF rpf THEN "EXDEV" ELSE "ok"
  IN IF i = 0 THEN LastResort
     ELSE IF routes[i].type # "unicast" /\ ~(routes[i].type = "local" /\ accept_local) THEN "EINVAL"
     ELSE IF routes[i].dev = dev THEN "ok"
     ELSE IF ifas[dev] = <<>> THEN LastResort
     ELSE IF rpf THEN "EXDEV" ELSE "ok"

----------------------------------------------------------------------------
\* What the addresses there are now ask for, and nothing else, is in the tables: the
\* deletion that "is more complicated than add" (line 763) takes neither too much nor
\* too little, whatever addresses share a host address, a net or a broadcast address.
\* Only the local subnet route of a loopback device outlives the device's going down.
AllWanted(Up) ==
  UNION {UNION {Range(Wanted(Up, dev, ifas[dev][i], Prim(ifas[dev], ifas[dev][i])[1])) :
                  i \in DOMAIN ifas[dev]} : dev \in Devices}
RoutesExact ==
  LET Kernel == {r \in Range(routes) : r.by = "kernel"} IN
  /\ AllWanted(up) \subseteq Kernel
  /\ \A r \in Kernel \ AllWanted(up) : r.type = "local" /\ r \in AllWanted(Devices)

\* Every route prefers a source address this host has.
SourcesLocal ==
  \A i \in DOMAIN routes : routes[i].src # 0 =>
    \E dev \in Devices : \E j \in DOMAIN ifas[dev] : ifas[dev][j].local = routes[i].src

\* An address of this host, or the network or broadcast address of a net a device that is
\* up is on, is refused as the source of a packet, on every device.
SourceValidated ==
  \A dev \in Devices, d \in Devices : \A j \in DOMAIN ifas[d] :
    LET ifa == ifas[d][j] IN
    /\ fib_validate_source(ifa.local, dev, FALSE, FALSE) = "EINVAL"
    /\ (d \in up /\ ifa.plen < W - 1 /\ Net(ifa) # 0) =>
         /\ fib_validate_source(Net(ifa), dev, FALSE, FALSE) = "EINVAL"
         /\ fib_validate_source(Brd(ifa), dev, FALSE, FALSE) = "EINVAL"

\* Both ways a source address can be wrong are closed: when the last use of an address is
\* gone, so are the stray routes that name it (line 844), and no packet is taken that
\* claims to come from this host or from a broadcast address.
SourcesChecked == SourcesLocal /\ SourceValidated

\* The kernel's routes and the check of source addresses follow the addresses there are.
FrontendExact == RoutesExact /\ SourcesChecked
=============================================================================
