---------------------------- MODULE ConfigCalls ----------------------------
(***************************************************************************)
(* How a command of a module is called with the words of a line            *)
(* (invoke_cmd), and how a request gets the .htaccess configuration of a   *)
(* directory, which it keeps for the next time (ap_parse_htaccess), both   *)
(* in security_analyze_engine/config/config.c.                             *)
(***************************************************************************)
EXTENDS Integers, SequencesExt

CONSTANTS
  Words,           \* words of a line, "on" and "off" among them; none is empty
  MaxWords,        \* bound on the words of a line
  AP_MAX_ARGC,
  Htaccess,        \* of each directory and access name: "absent", "denied", "bad", "fine"
  AccessNames,     \* the names, in the order they are tried
  Overrides,       \* what AllowOverride may be; what else a parse depends on goes with it
  MaxRequests      \* bound on the directories asked for

VARIABLES
  call,            \* a call: [how, args, says, calls, err]
  htaccess,        \* r->htaccess: [dir, override, htaccess], the newest first
  answers          \* what was asked for and answered (history)

vars == <<call, htaccess, answers>>

NULL == "NULL"
Hows == {"RAW_ARGS", "TAKE_ARGV", "NO_ARGS", "TAKE1", "TAKE2", "TAKE12", "TAKE3", "TAKE23", "TAKE123",
         "TAKE13", "ITERATE", "ITERATE2", "FLAG"}

----------------------------------------------------------------------------
\* The words of a line one by one: ap_getword_conf gives "" behind the last.
getword(args, i) == IF i <= Len(args) THEN args[i] ELSE ""
IfAny(args, i) == IF i <= Len(args) THEN args[i] ELSE NULL

\* A mistaken variant: a command that declines ends the calls.
UntilDeclined(calls, says) ==
  LET bad == {i \in DOMAIN calls : says[i] # "ok"}
      upto == IF bad = {} THEN Len(calls) ELSE Min(bad)
  IN [calls |-> SubSeq(calls, 1, upto), err |-> IF upto = 0 THEN "ok" ELSE says[upto]]

\* Calls one after the other, up to one that returns an error other than DECLINE_CMD.
Until(calls, says) ==
  LET bad == {i \in DOMAIN calls : says[i] = "error"}
      upto == IF bad = {} THEN Len(calls) ELSE Min(bad)
  IN [calls |-> SubSeq(calls, 1, upto), err |-> IF upto = 0 THEN "ok" ELSE says[upto]]

Refused == [calls |-> <<>>, err |-> "count"]

\* What each call says is chosen; says[i] is for the i-th.
invoke_cmd(how, args, says) ==
  LET w == getword(args, 1)   w2 == getword(args, 2)   w3 == getword(args, 3)
      left == Len(args)
      Unless(wrong, call_) == IF wrong THEN Refused ELSE Until(<<call_>>, says)
  IN CASE how = "RAW_ARGS" -> Until(<<args>>, says)
       [] how = "TAKE_ARGV" -> Until(<<SubSeq(args, 1, IF left < AP_MAX_ARGC THEN left ELSE AP_MAX_ARGC)>>, says)
       [] how = "NO_ARGS" -> Unless(left # 0, <<>>)
       [] how = "TAKE1" -> Unless(w = "" \/ left > 1, <<w>>)
       [] how = "TAKE2" -> Unless(w = "" \/ w2 = "" \/ left > 2, <<w, w2>>)
       [] how = "TAKE12" -> Unless(w = "" \/ left > 2, <<w, IF w2 = "" THEN NULL ELSE w2>>)
       [] how = "TAKE3" -> Unless(w = "" \/ w2 = "" \/ w3 = "" \/ left > 3, <<w, w2, w3>>)
       [] how = "TAKE23" -> Unless(w = "" \/ w2 = "" \/ left > 3, <<w, w2, IfAny(args, 3)>>)
       [] how = "TAKE123" -> Unless(w = "" \/ left > 3, <<w, IfAny(args, 2), IfAny(args, 3)>>)
       [] how = "TAKE13" -> Unless(w = "" \/ (IfAny(args, 2) \notin {NULL, ""} /\ IfAny(args, 3) = NULL) \/ left > 3,
                                   <<w, IfAny(args, 2), IfAny(args, 3)>>)
       [] how = "ITERATE" -> IF w = "" THEN Refused ELSE Until([i \in 1..left |-> <<args[i]>>], says)
       [] how = "ITERATE2" -> IF w = "" \/ left < 2 THEN Refused
                              ELSE Until([i \in 1..left - 1 |-> <<w, args[i + 1]>>], says)
       [] how = "FLAG" -> Unless(w \notin {"on", "off"}, <<IF w = "off" THEN "off" ELSE "on">>)

Invoke ==
  /\ call.err = "none"
  /\ LET r == invoke_cmd(call.how, call.args, call.says) IN
     call' = [call EXCEPT !.calls = r.calls, !.err = r.err]
  /\ UNCHANGED <<htaccess, answers>>

----------------------------------------------------------------------------
(* .htaccess *)

OK(conf) == [status |-> "ok", conf |-> conf]
Failed(status) == [status |-> status, conf |-> <<>>]

\* The first access name whose file is there decides.
Opened(d) == SelectSeq(AccessNames, LAMBDA name : Htaccess[d][name] # "absent")
parsed(d, override) ==
  LET there == Opened(d) IN
  IF there = <<>> THEN OK(<<>>)
  ELSE CASE Htaccess[d][Head(there)] = "denied" -> Failed("forbidden")
         [] Htaccess[d][Head(there)] = "bad" -> Failed("error")
         [] OTHER -> OK(<<d, Head(there), override>>)

ap_parse_htaccess(d, override) ==
  LET kept == SelectSeq(htaccess, LAMBDA c : c.override = override /\ c.dir = d)
      fresh == parsed(d, override)
  IN /\ Len(answers) < MaxRequests
     /\ IF kept # <<>> THEN answers' = Append(answers, <<d, override, OK(kept[1].htaccess)>>) /\ UNCHANGED htaccess
        ELSE /\ answers' = Append(answers, <<d, override, fresh>>)
             /\ htaccess' = IF fresh.status = "ok"
                            THEN <<[dir |-> d, override |-> override, htaccess |-> fresh.conf]>> \o htaccess
                            ELSE htaccess
     /\ UNCHANGED call

Init ==
  /\ call \in [how : Hows, args : SeqOf(Words, MaxWords), says : [1..MaxWords -> {"ok", "decline", "error"}],
               calls : {<<>>}, err : {"none"}]
  /\ htaccess = <<>> /\ answers = <<>>

Next == Invoke \/ \E d \in DOMAIN Htaccess, override \in Overrides : ap_parse_htaccess(d, override)

Spec == Init /\ [][Next]_vars

----------------------------------------------------------------------------
\* How many words the ways of calling take, by their names.
Arity(how) ==
  CASE how = "NO_ARGS" -> {0} [] how = "TAKE1" -> {1} [] how = "TAKE2" -> {2} [] how = "TAKE12" -> {1, 2}
    [] how = "TAKE3" -> {3} [] how = "TAKE23" -> {2, 3} [] how = "TAKE123" -> {1, 2, 3} [] how = "TAKE13" -> {1, 3}
    [] how \in {"ITERATE", "FLAG"} -> 1..MaxWords [] how = "ITERATE2" -> 2..MaxWords [] OTHER -> 0..MaxWords

\* The words the calls were given, the first word of ITERATE2 once.
Given ==
  FlattenSeq([i \in DOMAIN call.calls |->
    LET words == SelectSeq(call.calls[i], LAMBDA w : w # NULL) IN
    IF call.how = "ITERATE2" /\ i > 1 THEN Tail(words) ELSE words])

\* A line with a number of words the command does not take is refused before anything is called;
\* else each word reaches the command, once and in order, or up to its first error; a flag reads
\* only its first word, and an argument vector has its limit (849-1038).
CallsGiven ==
  call.err # "none" =>
       LET args == call.args
           most  == IF call.how = "FLAG" THEN 1 ELSE IF call.how = "TAKE_ARGV" THEN AP_MAX_ARGC ELSE MaxWords
           first == IF Len(args) > most THEN SubSeq(args, 1, most) ELSE args
           wrong == call.how = "FLAG" /\ \E i \in DOMAIN first : first[i] \notin {"on", "off"}
       IN /\ (call.err = "count") = (Len(args) \notin Arity(call.how) \/ wrong)
          /\ IF call.err \in {"count", "error"} THEN IsPrefix(Given, first) ELSE Given = first
          /\ call.err = "count" => call.calls = <<>>

\* A directory asked for again is answered as if its files were read again (2092-2178).
AnswersSame == \A i \in DOMAIN answers : answers[i][3] = parsed(answers[i][1], answers[i][2])
=============================================================================
