------------------------------ MODULE MCKernel ------------------------------
(* The routes of one prefix, the forwarding trie under its writer and      *)
(* under a reader (MCFib), the routes of the addresses of two devices, and *)
(* the records of the kernel module share nothing here: a run checks one   *)
(* of them, chosen at the start.                                           *)
EXTENDS FibRoutes

CONSTANTS
  K, Nets, Addresses, MaxUpdates, Fails, WriterNets, ReaderNets,
  W, Loopbacks, Assignable, MaxIfas, UserRoutes, Promotions,
  ByteBits, Room, Values, MaxFields, MaxRecords

VARIABLES
  unit,
  mem, todo, doomed, routes, rd, span,
  ifas, up, table,
  buf, w, r, phase, sent, got

T == INSTANCE MCFib
F == INSTANCE FibFrontend WITH routes <- table
R == INSTANCE KernelRecord

trieVars == <<mem, todo, doomed, routes, rd, span>>
frontendVars == <<ifas, up, table>>
recordVars == <<buf, w, r, phase, sent, got>>
kvars == <<unit, trieVars, rvars, frontendVars, recordVars>>

\* Routes of five leaves on several levels for the writer, and of two for the reader.
FiveLeaves == {<<0, 0>>, <<2, 5>>, <<4, 4>>, <<8, 2>>, <<16, 1>>}
TwoLeaves == {<<0, 0>>, <<0, 2>>, <<8, 2>>}
AllNets == FiveLeaves \cup TwoLeaves

Hop(dev, gw, weight) == [dev |-> dev, gw |-> gw, weight |-> weight]
ThreeContents ==
  {[prio |-> 1, local |-> FALSE, hops |-> <<Hop("eth0", 1, 1)>>],
   [prio |-> 2, local |-> FALSE, hops |-> <<Hop("eth0", 1, 2), Hop("eth1", 2, 1)>>],
   [prio |-> 1, local |-> TRUE, hops |-> <<Hop("eth1", 0, 1)>>]}

\* Four addresses in two nets that share two host addresses and the broadcast address.
Addr(addr, plen, brd) == [local |-> addr, addr |-> addr, plen |-> plen, brd |-> brd]
Lan == [dev \in Devices |->
         IF dev = "eth0" THEN {Addr(9, 2, 15), Addr(10, 2, 15), Addr(9, 3, 11), Addr(10, 3, 11)}
         ELSE {Addr(9, 2, 15)}]
OneUserRoute ==
  {[type |-> "unicast", dst |-> 16, plen |-> 1, dev |-> "eth0", src |-> 9, by |-> "user"]}

\* Bytes of 3 bits: an int has 12, a number of eight bytes 24.
SixValues == [int8 |-> {-3}, int32 |-> {-2047}, int64 |-> {2047, -1}, string |-> {<<3>>}, struct |-> {<<5, 0>>}]

ASSUME KernelAssumption == T!FibTrieAssumption

KInit ==
  /\ unit \in {"writer", "reader", "routes", "addresses", "records"}
  /\ Init /\ T!Init /\ F!Init /\ R!Init

\* All but the variables of one of them stay.
OnlyTrie      == unit \in {"writer", "reader"} /\ UNCHANGED <<rvars, frontendVars, recordVars>>
OnlyRoutes    == unit = "routes" /\ UNCHANGED <<unit, trieVars, frontendVars, recordVars>>
OnlyAddresses == unit = "addresses" /\ UNCHANGED <<unit, trieVars, rvars, recordVars>>
OnlyRecords   == unit = "records" /\ UNCHANGED <<unit, trieVars, rvars, frontendVars>>

KNext ==
  \/ OnlyTrie /\ T!MCNext
  \/ OnlyRoutes /\ Next
  \/ OnlyAddresses /\ F!Next
  \/ OnlyRecords /\ R!Next

KSpec == KInit /\ [][KNext]_kvars

\* Look-ups are exact on a trie that is whole, after any sequence of updates.
TrieExact  == unit \in {"writer", "reader"} => T!LookupExact /\ T!HeapIsTrie
ReaderSafe == unit \in {"writer", "reader"} => T!ReaderSafe

FrontendExact == unit = "addresses" => F!FrontendExact
ReadBack      == unit = "records" => R!ReadBack
=============================================================================
