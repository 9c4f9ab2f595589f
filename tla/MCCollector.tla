----------------------------- MODULE MCCollector -----------------------------
(* What the collector reads off the wire and writes out, the two JSON      *)
(* libraries, the configuration of the engine and the containers of        *)
(* ce_util: the reassembly and the analysis of a captured TCP connection,  *)
(* the HTTP messages in it, cJSON and libjson, the modules, the            *)
(* configuration tree and the calls of commands, the hash map, the tree    *)
(* and the tables.  They share nothing here: a run checks one of them,     *)
(* chosen at the start.                                                    *)
EXTENDS Json, ConfigModules

CONSTANTS
  Streams, FixedLen, MaxSeg, MaxRepeats, Desegments, ResendsTails,
  SeqBits, Isns, MaxSend, Lens, Scales, Windows, MaxMissed, MaxDrops, MaxAcks, MaxProbes,
  ProbeAccepted, MeetsZero,
  Scripts, Sizes, MaxFrames, Raw,
  MaxItems, Leaves, Keys, Alike, MaxSteps,
  Content, Patterns, Included, AP_MAX_INCLUDE_DIR_DEPTH, Commands, MaxLines, MaxStack,
  Words, MaxWords, AP_MAX_ARGC, Htaccess, AccessNames, Overrides, MaxRequests,
  MapKeys, Entries, MaxUsed, DeleteAbsent, dummy,
  Order, Insertions,
  TableKeys, Vals, TableNames, MaxElts, MaxVal, EmptyBase

VARIABLES
  unit,
  stream, desegment, source, frames, flow, given, second,
  flows, snd, una, rcv, win, peerWin, net, seen, ackSeen, reported, reports, offered,
  missed, drops, acks, probes,
  script, pipelined, joins, sent, captured, kept, conv, revisited,
  heap, overrun, value, lent, steps,
  nodes, stack, eof, state, conftree, walk, parms, lines, calls,
  call, htaccess, answers,
  table, usable, used, resizing, dict,
  tree, inserted, cleaned,
  mem, tables, content

A == INSTANCE TcpReassembly WITH sent <- source, NULL <- None
T == INSTANCE TcpAnalysis WITH W <- SeqBits, flow <- flows
H == INSTANCE Http WITH desegment <- joins, frames <- captured, second <- revisited
C == INSTANCE CJson WITH wild <- overrun
G == INSTANCE Config WITH said <- lines
I == INSTANCE ConfigCalls
D == INSTANCE HashMap WITH Keys <- MapKeys, NULL <- None, phase <- resizing
E == INSTANCE MapTree WITH NULL <- None, Given <- Insertions, given <- inserted
B == INSTANCE Tables WITH Strings <- TableKeys, Names <- TableNames, table <- tables

jsonVars == vars
assemblyVars == <<stream, desegment, source, frames, flow, given, second>>
analysisVars == <<flows, snd, una, rcv, win, peerWin, net, seen, ackSeen, reported, reports,
                  offered, missed, drops, acks, probes>>
httpVars == <<script, pipelined, joins, sent, captured, kept, conv, revisited>>
cjsonVars == <<heap, overrun, value, lent, steps>>
configVars == <<nodes, stack, eof, state, conftree, walk, parms, lines, calls>>
callsVars == <<call, htaccess, answers>>
engineVars == <<modulesVars, configVars, callsVars>>
wireVars == <<assemblyVars, analysisVars, httpVars>>
hashVars == <<table, usable, used, resizing, dict>>
treeVars == <<tree, inserted, cleaned>>
tableVars == <<mem, tables, content>>
containerVars == <<hashVars, treeVars, tableVars>>
mcvars == <<unit, jsonVars, wireVars, cjsonVars, engineVars, containerVars>>

\* Streams whose PDUs end before, at and behind the ends of the segments.
FourStreams ==
  {[kind |-> "pdus", lens |-> <<2, 3, 2>>], [kind |-> "pdus", lens |-> <<5, 2>>],
   [kind |-> "pdus", lens |-> <<4>>], [kind |-> "fin", lens |-> <<4>>]}

\* Sequence numbers of 4 bits; those of the client pass 0.
IsnOf  == [h \in {"client", "server"} |-> IF h = "client" THEN 14 ELSE 5]
SendOf == [h \in {"client", "server"} |-> IF h = "client" THEN 4 ELSE 0]
NoneOrOne == {-1, 1}

\* Exchanges with bodies of every kind, an interim response, an upgrade and a tunnel.
Line(kind, name, n) == [kind |-> kind, name |-> name, n |-> n]
Plain(name) == Line("header", name, 0)
Length(n) == Line("header", "Content-Length", n)
Msg(start, code, headers, body) == [start |-> start, code |-> code, headers |-> headers, body |-> body]
Get == Msg("GET", 0, <<>>, <<>>)
Post == Msg("POST", 0, <<Length(2)>>, <<<<1, 2>>>>)
ChunkedPut == Msg("PUT", 0, <<Plain("Transfer-Encoding: chunked")>>, <<<<1, 2>>, <<3>>>>)
Continue == Msg("HTTP/", 100, <<>>, <<>>)
Switching == Msg("HTTP/", 101, <<Plain("Upgrade: websocket")>>, <<>>)
Nothing == Msg("HTTP/", 200, <<Length(0)>>, <<>>)
Zipped == Msg("HTTP/", 200, <<Length(3), Plain("Content-Encoding: gzip")>>, <<<<4, 5, 6>>>>)
ChunkedOk == Msg("HTTP/", 200, <<Length(9), Plain("Transfer-Encoding: chunked")>>, <<<<4>>, <<5, 6>>>>)
NotModified == Msg("HTTP/", 304, <<>>, <<>>)
FiveScripts ==
  {<<<<Post, <<Zipped>>>>, <<Get, <<NotModified>>>>>>, <<<<ChunkedPut, <<Continue, Nothing>>>>>>,
   <<<<Get, <<ChunkedOk>>>>, <<Get, <<Nothing>>>>>>, <<<<Get, <<Nothing>>>>, <<Get, <<Switching>>>>>>,
   <<<<Msg("CONNECT", 0, <<>>, <<>>), <<Nothing>>>>>>}
TwoUnits == <<Line("byte", "", 7), Line("byte", "", 8)>>

\* Empty and full values, a string with a quote and control characters, names with an escape
\* and with another case, and texts that spell numbers and strings in two ways.
FourLeaves ==
  {[type |-> t, data |-> <<>>] : t \in {"Array", "Object", "True"}}
    \cup {[type |-> "String", data |-> <<34, 10, 1, 65>>]}
ThreeKeys == {<<97>>, <<65, 92>>, <<65>>}
TwoAlike ==
  {<<<<91, 49, 46, 53, 48, 101, 50, 44, 34, 92, 117, 48, 48, 52, 49, 92, 47, 34, 93>>,
     <<91, 49, 53, 48, 44, 34, 65, 47, 34, 93>>>>,
   <<<<32, 123, 34, 107, 34, 32, 58, 34, 92, 117, 50, 48, 65, 67, 92, 117, 68, 56, 51, 68, 92, 117, 68, 69, 48, 48, 92, 110, 34, 44, 9, 34, 108, 34, 58, 32, 45, 53, 48, 69, 45, 49, 125>>,
     <<123, 34, 107, 34, 58, 34, 226, 130, 172, 240, 159, 152, 128, 92, 110, 34, 44, 34, 108, 34, 58, 45, 53, 125>>>>}

\* Pieces of text that end in the middle of strings, escapes, numbers, words and comments.
Same(t) == [text |-> t, canon |-> t]
SomePieces ==
  [comment |-> {Same(t) : t \in {<<42, 47>>, <<93, 42>>, <<10>>, <<47>>}},
   string |-> {Same(t) : t \in {<<34>>, <<47, 42>>, <<92, 34>>, <<32, 34, 44>>, <<9>>, <<34, 58>>}}
     \cup {[text |-> <<92, 117, 50, 48, 65, 99>>, canon |-> <<226, 130, 172>>],
           [text |-> <<92, 117, 100, 56, 51, 100>>, canon |-> <<>>], [text |-> <<92, 117, 48, 48>>, canon |-> <<>>]},
   unicode |-> {[text |-> <<92, 117, 100, 101, 48, 48>>, canon |-> <<240, 159, 152, 128>>],
                [text |-> <<52, 49>>, canon |-> <<65>>]},
   other |-> {Same(t) : t \in {<<123>>, <<125>>, <<91>>, <<93>>, <<44>>, <<34>>, <<49>>, <<45, 48>>, <<46, 53>>,
     <<101, 43, 50>>, <<116, 114, 117, 101>>, <<110, 117>>, <<108, 108>>, <<10>>, <<47, 42>>, <<35>>,
     <<34, 97, 34, 58>>}}]
Config(initial, nesting, data, comments) ==
  [buffer_initial_size |-> initial, max_nesting |-> nesting, max_data |-> data,
   allow_c_comments |-> comments, allow_yaml_comments |-> TRUE]
TwoConfigs == {Config(1, 0, 0, TRUE), Config(2, 2, 3, TRUE)}
TwoNumbers == {<<"INT", <<45, 48>>>>, <<"FLOAT", <<49, 46, 48, 101, 49>>>>}
ThreeTexts == {<<>>, <<34, 92>>, <<10, 1, 35>>}

\* A module compiled in and one that is not active, and two to be loaded.
TwoBuiltIn == <<"core", "idle">>
OnlyCore == <<"core">>

\* A file, a directory with two, one that holds itself, and an empty one; what Include may name.
Directories == (0 :> {1, 2, 3, 4}) @@ (2 :> {5, 6}) @@ (3 :> {3}) @@ (4 :> {})
Part(n) == [wild |-> FALSE, names |-> {n}]
Wild(names) == [wild |-> TRUE, names |-> names]
Name(optional, parts) == [optional |-> optional, parts |-> parts]
ManyNames ==
  {Name(o, <<a>>) : o \in BOOLEAN, a \in {Part(n) : n \in {1, 2, 3, 4, 9}} \cup {Wild({1, 2}), Wild({2, 3, 4}), Wild({9})}}
    \cup {Name(o, <<a, b>>) : o \in BOOLEAN, a \in {Part(2), Part(4), Part(1), Wild({1, 2, 4})},
                             b \in {Part(5), Part(9), Wild({5, 6}), Wild({9})}}
ThreeNames == {Name(FALSE, <<Part(1)>>), Name(TRUE, <<Part(4)>>), Name(FALSE, <<Wild({1, 2})>>)}
FewCommands ==
  [section |-> <<>>, unknown |-> <<>>,
   pair |-> <<[module |-> "x", places |-> {"top", "section"}], [module |-> "y", places |-> {"top"}]>>]
AccessFiles ==
  [d \in {"a", "b", "c", "d"} |->
     [first |-> IF d = "b" THEN "bad" ELSE IF d = "d" THEN "denied" ELSE "absent",
      second |-> IF d = "c" THEN "absent" ELSE "fine"]]
TwoNames == <<"first", "second">>

\* Five keys of which four begin their search at one slot of a table of eight, and two
\* values for one of them.
FiveKeys == {<<1>>, <<9>>, <<17>>, <<33>>, <<2, 8>>}
SixEntries == {<<key, 1>> : key \in FiveKeys} \cup {<<<<1>>, 2>>}

\* Every key once, and one of them with other pointers to the key and the value.
SevenKeys ==
  {[key |-> k, kp |-> 1, vp |-> 1] : k \in 1..7} \cup {[key |-> 3, kp |-> p, vp |-> q] : p, q \in 1..2}

\* Two strings that differ in case only, and one with another index.
TableStrings == {<<97>>, <<65>>, <<33>>}
EltsOf == [n \in TableNames |-> IF n = "base" THEN 3 ELSE 1]

ASSUME CollectorAssumption ==
  /\ A!TcpReassemblyAssumption /\ T!TcpAnalysisAssumption
  /\ D!HashMapAssumption /\ E!MapTreeAssumption /\ B!TablesAssumption

Units ==
  {"reassembly", "analysis", "http", "cjson", "json", "modules", "config", "calls", "htaccess",
   "map", "tree", "table"}
MCInit ==
  /\ unit \in Units
  /\ T!Init /\ C!Init /\ ModulesInit /\ G!Init /\ D!Init /\ E!Init /\ B!Init
  /\ A!Init /\ (unit # "reassembly" => desegment /\ stream.lens = <<5, 2>>)
  /\ H!Init /\ (unit # "http" => pipelined /\ joins /\ Len(script) = 1 /\ script[1][1].start = "PUT")
  /\ Init /\ (unit # "json" => way = "raw" /\ parser.config.buffer_initial_size = 1)
  /\ IF unit = "calls" THEN I!Init ELSE call = <<>> /\ htaccess = <<>> /\ answers = <<>>

\* All but the variables of one of them stay.
Stay(rest) == UNCHANGED <<unit, rest>>
OnlyReassembly == unit = "reassembly" /\ Stay(<<jsonVars, analysisVars, httpVars, cjsonVars, engineVars, containerVars>>)
OnlyAnalysis   == unit = "analysis" /\ Stay(<<jsonVars, assemblyVars, httpVars, cjsonVars, engineVars, containerVars>>)
OnlyHttp       == unit = "http" /\ Stay(<<jsonVars, assemblyVars, analysisVars, cjsonVars, engineVars, containerVars>>)
OnlyCJson      == unit = "cjson" /\ Stay(<<jsonVars, wireVars, engineVars, containerVars>>)
OnlyJson       == unit = "json" /\ Stay(<<wireVars, cjsonVars, engineVars, containerVars>>)
OnlyModules    == unit = "modules" /\ Stay(<<jsonVars, wireVars, cjsonVars, configVars, callsVars, containerVars>>)
OnlyConfig     == unit = "config" /\ Stay(<<jsonVars, wireVars, cjsonVars, modulesVars, callsVars, containerVars>>)
OnlyCalls      == unit = "calls" /\ Stay(<<jsonVars, wireVars, cjsonVars, modulesVars, configVars, containerVars>>)
OnlyHtaccess   == unit = "htaccess" /\ Stay(<<jsonVars, wireVars, cjsonVars, modulesVars, configVars, containerVars>>)
OnlyMap        == unit = "map" /\ Stay(<<jsonVars, wireVars, cjsonVars, engineVars, treeVars, tableVars>>)
OnlyTree       == unit = "tree" /\ Stay(<<jsonVars, wireVars, cjsonVars, engineVars, hashVars, tableVars>>)
OnlyTable      == unit = "table" /\ Stay(<<jsonVars, wireVars, cjsonVars, engineVars, hashVars, treeVars>>)

MCNext ==
  \/ OnlyReassembly /\ A!Next
  \/ OnlyAnalysis /\ T!Next
  \/ OnlyHttp /\ H!Next
  \/ OnlyCJson /\ C!Next
  \/ OnlyJson /\ Next
  \/ OnlyModules /\ ModulesNext
  \/ OnlyConfig /\ G!Next
  \/ OnlyCalls /\ I!Invoke
  \/ OnlyHtaccess /\ \E d \in DOMAIN Htaccess, override \in Overrides : I!ap_parse_htaccess(d, override)
  \/ OnlyMap /\ D!Next
  \/ OnlyTree /\ E!Next
  \/ OnlyTable /\ B!Next

MCSpec == MCInit /\ [][MCNext]_mcvars

PdusExact    == unit = "reassembly" => A!PdusExact
LossReported == unit = "analysis" => T!LossReported
UnackedExact == T!UnackedExact
HttpExact    == unit = "http" => H!HttpExact
CJsonExact   == unit = "cjson" => C!CJsonExact
ConfigExact  == CASE unit = "config" -> G!TreeExact /\ G!WalkExact /\ G!FilesExact
                  [] unit = "calls" -> I!CallsGiven
                  [] OTHER -> unit = "htaccess" => I!AnswersSame

\* A map, a tree and a table hold what was put into them, and nothing else.
ContainersExact ==
  CASE unit = "map" -> D!MapIsDict
    [] unit = "tree" -> E!TreeIsDict
    [] unit = "table" -> B!TablesExact
    [] OTHER -> TRUE
=============================================================================
