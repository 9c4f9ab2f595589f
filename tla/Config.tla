------------------------------- MODULE Config -------------------------------
(***************************************************************************)
(* How the engine reads its configuration and acts on it                   *)
(* (security_analyze_engine/config: config.c, util_cfgtree.c).  The lines  *)
(* of the command line and of the files become a tree of directives, with  *)
(* the sections as its inner nodes; directives that are executed as they   *)
(* are read bring in other files, read a section in place, or skip one.    *)
(* Then the tree is walked and the modules' commands are called.           *)
(***************************************************************************)
EXTENDS Integers, SequencesExt

CONSTANTS
  Content,                   \* of each directory, by name: the names in it
  Patterns,                  \* what Include may name: [optional, parts], a part being [wild, names]
  Included,                  \* those of them the lines name
  AP_MAX_INCLUDE_DIR_DEPTH,
  Commands,                  \* ap_config_hash, by directive: a sequence of [module, places]
  MaxLines,                  \* bound on the lines read
  MaxStack                   \* bound on the functions reading within each other

VARIABLES
  nodes,     \* the ap_directive_ts: [name, parent, next, child, last], 0 for NULL
  stack,     \* the reading functions under way, the innermost last
  eof,       \* whether the file being read has ended
  state,     \* "reading", "walking", "done"; "failed" while reading
  conftree,  \* the tree, once read
  walk,      \* the walks under way: [at, ctx], the innermost last
  parms,     \* cmd_parms: [context, directive, err_directive, errmsg]
  said,      \* the lines that count, in order (history)
  calls      \* the commands called (history)

vars == <<nodes, stack, eof, state, conftree, walk, parms, said, calls>>

Root == 0            \* ap_server_root in the file system

----------------------------------------------------------------------------
(* The files an Include stands for: paths to be read one after the other,  *)
(* or <<>> where an error ends the reading.                                *)

Error == <<>>
IsDir(path) == Last(path) \in DOMAIN Content
Full(path, name) == Append(path, name)
Exists(path) == \A i \in 2..Len(path) : path[i - 1] \in DOMAIN Content /\ path[i] \in Content[path[i - 1]]
Sorted(names) == SetToSortSeq(names, <)

\* Those of each of a sequence of lists, up to the first error.
Joined(lists) ==
  FoldLeft(LAMBDA all, l : IF Contains(all, Error) THEN all ELSE all \o l, <<>>, lists)

\* A file, or all the files below a directory, at most so deep.
RECURSIVE process_resource_config_nofnmatch(_, _)
process_resource_config_nofnmatch(path, depth) ==
  IF ~Exists(path) THEN <<Error>>
  ELSE IF ~IsDir(path) THEN <<path>>
  ELSE IF depth + 1 > AP_MAX_INCLUDE_DIR_DEPTH THEN <<Error>>
  ELSE LET names == Sorted(Content[Last(path)]) IN
       Joined([i \in DOMAIN names |-> process_resource_config_nofnmatch(Full(path, names[i]), depth + 1)])

\* The parts of a path are matched from the first on; only directories match a part inside it.
RECURSIVE process_resource_config_fnmatch(_, _, _)
process_resource_config_fnmatch(path, parts, optional) ==
  LET rest == Tail(parts)
      found == {n \in Content[Last(path)] \cap Head(parts).names : rest # <<>> => n \in DOMAIN Content}
      next == Sorted(IF Head(parts).wild THEN found ELSE Head(parts).names)
  IN IF Head(parts).wild /\ (~Exists(path) \/ ~IsDir(path)) THEN <<Error>>
     ELSE IF next = <<>> THEN IF optional THEN <<>> ELSE <<Error>>
     ELSE Joined([i \in DOMAIN next |->
            IF rest = <<>> THEN process_resource_config_nofnmatch(Full(path, next[i]), 0)
            ELSE process_resource_config_fnmatch(Full(path, next[i]), rest, optional)])

\* A part without a wildcard has one name.
ap_process_fnmatch_configs(p) ==
  IF \A i \in DOMAIN p.parts : ~p.parts[i].wild
  THEN process_resource_config_nofnmatch(<<Root>> \o [i \in DOMAIN p.parts |-> CHOOSE n \in p.parts[i].names : TRUE], 0)
  ELSE process_resource_config_fnmatch(<<Root>>, p.parts, p.optional)

----------------------------------------------------------------------------
(* The tree. *)

NewNode(name) == [name |-> name, parent |-> 0, next |-> 0, child |-> 0, last |-> 0]
Top == Last(stack)

\* ap_add_node, for the innermost reading function f: [nodes, f].
ap_add_node(f, name, child) ==
  LET n == Len(nodes) + 1
      node == [NewNode(name) EXCEPT !.parent = f.parent]
      linked == IF f.current # 0 THEN [nodes EXCEPT ![f.current].next = n]
                ELSE IF f.parent # 0 THEN [nodes EXCEPT ![f.parent].child = n] ELSE nodes
  IN [nodes |-> Append(linked, node),
      f |-> IF child THEN [f EXCEPT !.parent = n, !.current = 0] ELSE [f EXCEPT !.current = n]]

\* The directives from n on.
Chain(ns, n) ==
  FoldLeft(LAMBDA s, x : IF ns[Last(s)].next = 0 THEN s ELSE Append(s, ns[Last(s)].next), <<n>>, ns)

\* After each line the head of the tree is the first node there is.
Headed(f) ==
  [f EXCEPT !.tree = IF @ # 0 THEN @ ELSE IF f.parent # 0 THEN f.parent ELSE f.current]

\* A mistaken variant: the current directive stays the first of what was read in place.
SplicedShort(ns, f, sub) ==
  LET linked == IF f.current # 0 THEN [ns EXCEPT ![f.current].next = sub]
                ELSE IF f.parent # 0 THEN [ns EXCEPT ![f.parent].child = sub] ELSE ns
      from == IF sub # 0 THEN sub ELSE f.current
  IN [nodes |-> IF sub = 0 THEN linked ELSE [linked EXCEPT ![sub].parent = f.parent],
      f |-> [f EXCEPT !.tree = IF @ = 0 THEN from ELSE @, !.current = from]]

\* What was read in place follows the current directive of f: the part of ap_build_config_sub
\* behind execute_now.
Spliced(ns, f, sub) ==
  LET linked == IF f.current # 0 THEN [ns EXCEPT ![f.current].next = sub]
                ELSE LET down == IF f.parent # 0 THEN [ns EXCEPT ![f.parent].child = sub] ELSE ns IN
                     IF sub # 0 THEN [down EXCEPT ![sub].parent = f.parent] ELSE down
      from == IF f.current # 0 THEN f.current ELSE sub
  IN IF from = 0 THEN [nodes |-> linked, f |-> f]
     ELSE [nodes |-> [n \in DOMAIN linked |->
                        IF Contains(Tail(Chain(linked, from)), n) THEN [linked[n] EXCEPT !.parent = f.parent] ELSE linked[n]],
           f |-> [f EXCEPT !.tree = IF @ = 0 THEN from ELSE @, !.current = Last(Chain(linked, from))]]

----------------------------------------------------------------------------
(* Reading. *)

Reading(fn, name, tree, files) ==
  [fn |-> fn, name |-> name, tree |-> tree, current |-> 0, parent |-> 0, files |-> files]

\* A mistaken variant: a second file begins at the head of the tree of the first.
BegunAtHead(ns, tree, files) == [nodes |-> ns, f |-> [Reading("file", "", tree, files) EXCEPT !.current = tree]]

\* ap_build_config begins behind what its tree holds, from where the head remembers its end.
Begun(ns, tree, files) ==
  IF tree = 0 THEN [nodes |-> ns, f |-> Reading("file", "", 0, files)]
  ELSE LET end == Last(Chain(ns, IF ns[tree].last # 0 THEN ns[tree].last ELSE tree)) IN
       [nodes |-> [ns EXCEPT ![tree].last = end],
        f |-> [Reading("file", "", tree, files) EXCEPT !.current = end]]

\* The lines of the command line, the file, and the lines of the command line for afterwards.
Init ==
  /\ nodes = <<>> /\ stack = <<Reading("file", "", 0, <<<<Root>>, <<Root>>>>)>>
  /\ eof = FALSE /\ state = "reading" /\ conftree = 0 /\ walk = <<>>
  /\ parms = [context |-> 0, directive |-> 0, err_directive |-> 0, errmsg |-> ""]
  /\ said = [lines |-> 0, tree |-> <<>>] /\ calls = <<>>

Heard(events) == said' = [said EXCEPT !.lines = @ + 1, !.tree = @ \o events]
Fail == state' = "failed" /\ stack' = <<>> /\ UNCHANGED <<nodes, eof, conftree, walk, parms, calls>>
Reads(ns, frames) ==
  /\ nodes' = ns /\ stack' = frames
  /\ UNCHANGED <<eof, state, conftree, walk, parms, calls>>
Replaced(f) == Append(Front(stack), f)

\* The innermost function returns a sub-tree to the one that executed a directive.
Return(ns, sub, frames) ==
  LET S == Spliced(ns, Last(frames), sub) IN
  nodes' = S.nodes /\ stack' = Append(Front(frames), Headed(S.f))

Line == state = "reading" /\ ~eof /\ said.lines < MaxLines
InTree == Line /\ Top.fn # "soak"

Directive(name) ==
  /\ InTree
  /\ LET S == ap_add_node(Top, name, FALSE) IN Reads(S.nodes, Replaced(Headed(S.f)))
  /\ Heard(<<"leaf">>)

Open(name) ==
  /\ InTree
  /\ LET S == ap_add_node(Top, name, TRUE) IN Reads(S.nodes, Replaced(Headed(S.f)))
  /\ Heard(<<"open">>)

\* A closing tag that is not the one of the section being read in place; "" lacks its bracket.
Close(name) ==
  LET f == Top   above == nodes[f.parent].parent IN
  /\ InTree /\ ~(f.fn = "block" /\ f.parent = 0 /\ name = f.name)
  /\ IF f.parent # 0 /\ name # "" /\ name = nodes[f.parent].name
     THEN Reads(nodes, Replaced(Headed([f EXCEPT !.current = f.parent, !.parent = above]))) /\ Heard(<<"close">>)
     ELSE Fail /\ Heard(<<>>)

\* A section whose condition holds is read in place, by ap_build_cont_config, ...
Block(name) ==
  /\ InTree /\ Len(stack) < MaxStack
  /\ Reads(nodes, Append(stack, Reading("block", name, 0, <<>>))) /\ Heard(<<>>)
CloseBlock(name) ==
  /\ InTree /\ Top.fn = "block" /\ Top.parent = 0 /\ name = Top.name
  /\ Return(nodes, Top.tree, Front(stack)) /\ Heard(<<>>)
  /\ UNCHANGED <<eof, state, conftree, walk, parms, calls>>

\* ... and one whose condition does not is skipped, by ap_soak_end_container.
SkipBlock(name) ==
  /\ InTree /\ Len(stack) < MaxStack
  /\ Reads(nodes, Append(stack, Reading("soak", name, 0, <<>>))) /\ Heard(<<>>)
Soak == Line /\ Top.fn = "soak"
SoakedDirective == Soak /\ Reads(nodes, stack) /\ Heard(<<>>)
SoakedOpen(name) ==
  /\ Soak /\ Len(stack) < MaxStack
  /\ Reads(nodes, Append(stack, Reading("soak", name, 0, <<>>))) /\ Heard(<<>>)
SoakedClose(name) ==
  /\ Soak /\ Heard(<<>>)
  /\ IF name # Top.name THEN Fail
     ELSE /\ IF stack[Len(stack) - 1].fn = "soak" THEN nodes' = nodes /\ stack' = Front(stack)
             ELSE Return(nodes, 0, Front(stack))
          /\ UNCHANGED <<eof, state, conftree, walk, parms, calls>>

\* The next of the files of an Include, or of the configuration, on frames.
Opened(ns, tree, files, frames) ==
  IF Head(files) = Error THEN state' = "failed" /\ stack' = <<>> /\ nodes' = ns
  ELSE LET S == Begun(ns, tree, Tail(files)) IN
       nodes' = S.nodes /\ stack' = Append(frames, S.f) /\ state' = state

Include(p) ==
  LET files == ap_process_fnmatch_configs(p) IN
  /\ InTree /\ Len(stack) < MaxStack
  /\ IF files = <<>> THEN Return(nodes, 0, stack) /\ state' = state ELSE Opened(nodes, 0, files, stack)
  /\ Heard(<<>>) /\ UNCHANGED <<eof, conftree, walk, parms, calls>>

EndOfFile ==
  /\ state = "reading" /\ ~eof /\ eof' = TRUE
  /\ UNCHANGED <<nodes, stack, state, conftree, walk, parms, said, calls>>

\* The sections open in f, the innermost first.
OpenIn(f) ==
  FoldLeft(LAMBDA s, x : IF Last(s) = 0 THEN s ELSE Append(s, nodes[Last(s)].parent), <<f.parent>>, nodes)

\* At the end of the file a section read in place counts as closed, and those open in it.
BlockEnds ==
  /\ state = "reading" /\ eof /\ Top.fn = "block"
  /\ Return(nodes, Top.tree, Front(stack))
  /\ said' = [said EXCEPT !.tree = @ \o [i \in 1..Len(OpenIn(Top)) - 1 |-> "close"]]
  /\ UNCHANGED <<eof, state, conftree, walk, parms, calls>>
SoakEnds == state = "reading" /\ eof /\ Top.fn = "soak" /\ Fail /\ UNCHANGED said

FileEnds ==
  /\ state = "reading" /\ eof /\ Top.fn = "file" /\ eof' = FALSE
  /\ IF Top.parent # 0 THEN state' = "failed" /\ stack' = <<>> /\ UNCHANGED <<nodes, conftree, walk>>
     ELSE IF Top.files # <<>> THEN Opened(nodes, Top.tree, Top.files, Front(stack)) /\ UNCHANGED <<conftree, walk>>
     ELSE IF Len(stack) > 1 THEN Return(nodes, Top.tree, Front(stack)) /\ UNCHANGED <<state, conftree, walk>>
     ELSE /\ state' = "walking" /\ conftree' = Top.tree /\ walk' = <<[at |-> Top.tree, ctx |-> 0]>>
          /\ stack' = <<>> /\ UNCHANGED nodes
  /\ UNCHANGED <<parms, said, calls>>

----------------------------------------------------------------------------
(* Walking. *)

Walker == Last(walk)
Place == IF parms.context = 0 THEN "top" ELSE "section"
Walks == UNCHANGED <<nodes, stack, eof, conftree, said>>

\* The commands of a directive are called until one fails; what each says is chosen.
ap_walk_config_sub(n, answers) ==
  LET ml == Commands[nodes[n].name]
      fails(i) == Place \notin ml[i].places \/ answers[i] = "error"
      failing == {i \in DOMAIN ml : fails(i)}
      called == {i \in DOMAIN ml : \A j \in failing : i <= j /\ (i = j => Place \in ml[i].places)}
  IN [failed |-> ml = <<>> \/ failing # {}, called |-> Sorted(called)]

WalkDirective(answers) ==
  LET n == Walker.at   r == ap_walk_config_sub(n, answers) IN
  /\ state = "walking" /\ parms.errmsg = "" /\ n # 0 /\ nodes[n].name # "section"
  /\ DOMAIN answers = DOMAIN Commands[nodes[n].name]
  /\ calls' = calls \o [i \in DOMAIN r.called |->
                          [node |-> n, module |-> Commands[nodes[n].name][r.called[i]].module, ctx |-> parms.context]]
  /\ parms' = [parms EXCEPT !.directive = n, !.errmsg = IF r.failed THEN "failed" ELSE "",
                            !.err_directive = IF r.failed /\ @ = 0 THEN n ELSE @]
  /\ walk' = Append(Front(walk), [Walker EXCEPT !.at = nodes[n].next])
  /\ Walks /\ state' = state

\* The command of a section walks what is in it, in a context of its own.
WalkSection ==
  LET n == Walker.at IN
  /\ state = "walking" /\ parms.errmsg = "" /\ n # 0 /\ nodes[n].name = "section"
  /\ calls' = Append(calls, [node |-> n, module |-> "core", ctx |-> parms.context])
  /\ parms' = [parms EXCEPT !.directive = n, !.context = n]
  /\ walk' = Append(Append(Front(walk), [Walker EXCEPT !.at = nodes[n].next]),
                    [at |-> nodes[n].child, ctx |-> parms.context])
  /\ Walks /\ state' = state

\* A mistaken variant: the outermost section with the error is reported.
ReturnsBlaming ==
  /\ state = "walking" /\ (Walker.at = 0 \/ parms.errmsg # "")
  /\ walk' = Front(walk)
  /\ parms' = [parms EXCEPT !.context = Walker.ctx,
                            !.err_directive = IF parms.errmsg # "" /\ parms.context # 0 THEN parms.context ELSE @]
  /\ state' = IF Len(walk) = 1 THEN "done" ELSE state
  /\ Walks /\ UNCHANGED calls

\* ap_walk_config returns, with an error or behind its last directive: the context is restored,
\* and an error counts for the innermost directive that has it.
WalkReturns ==
  /\ state = "walking" /\ (Walker.at = 0 \/ parms.errmsg # "")
  /\ walk' = Front(walk)
  /\ parms' = [parms EXCEPT !.context = Walker.ctx,
                            !.err_directive = IF parms.errmsg # "" /\ @ = 0 THEN parms.context ELSE @]
  /\ state' = IF Len(walk) = 1 THEN "done" ELSE state
  /\ Walks /\ UNCHANGED calls

Answers == {"ok", "decline", "error"}
Next ==
  \/ \E name \in DOMAIN Commands \ {"section"} : Directive(name)
  \/ Open("section") \/ \E name \in {"section", "if", ""} : Close(name) \/ SoakedClose(name)
  \/ Block("if") \/ CloseBlock("if") \/ SkipBlock("if")
  \/ SoakedDirective \/ \E name \in {"section", "if"} : SoakedOpen(name)
  \/ \E p \in Included : Include(p)
  \/ EndOfFile \/ BlockEnds \/ SoakEnds \/ FileEnds
  \/ \E n \in 0..2 : \E answers \in [1..n -> Answers] : WalkDirective(answers)
  \/ WalkSection \/ WalkReturns

Spec == Init /\ [][Next]_vars

----------------------------------------------------------------------------
\* The parent of each directive by the order of the lines.
Parents ==
  FoldLeft(LAMBDA s, e :
             IF e = "close" THEN [s EXCEPT !.open = Front(@)]
             ELSE [parents |-> Append(s.parents, Last(s.open)),
                   open |-> IF e = "open" THEN Append(s.open, Len(s.parents) + 1) ELSE s.open],
           [parents |-> <<>>, open |-> <<0>>], said.tree).parents

\* The tree is that of the lines, those of included files and of sections read in place where
\* they stand: each directive in the section it was written in, in the order of the lines, and
\* reached from the head (1097-1437, ap_add_node).
TreeExact ==
  state \in {"walking", "done"} =>
    LET parents == Parents
        under(n) == SelectSeq([i \in DOMAIN nodes |-> i], LAMBDA m : parents[m] = n)
        chain(first) == IF first = 0 THEN <<>> ELSE Chain(nodes, first)
    IN /\ Len(parents) = Len(nodes) /\ chain(conftree) = under(0)
       /\ \A n \in DOMAIN nodes : nodes[n].parent = parents[n] /\ chain(nodes[n].child) = under(n)

\* The commands are called in the order of the lines, each in the section it was written in, a
\* section's own command before them; the first directive with an error ends it, is not passed
\* over, and is the one reported (1271-1358).
WalkExact ==
  state = "done" =>
    LET parents == Parents
        bad == parms.err_directive
        reached == IF bad = 0 THEN DOMAIN nodes ELSE 1..bad
        modules(n) == IF nodes[n].name = "section" THEN <<"core">>
                      ELSE [i \in DOMAIN Commands[nodes[n].name] |-> Commands[nodes[n].name][i].module]
        of(n) == SelectSeq(calls, LAMBDA c : c.node = n)
    IN /\ (bad = 0) = (parms.errmsg = "") /\ parms.context = 0
       /\ \A i \in 1..Len(calls) - 1 : calls[i].node <= calls[i + 1].node
       /\ \A i \in DOMAIN calls : calls[i].node \in reached /\ calls[i].ctx = parents[calls[i].node]
       /\ \A n \in reached :
            LET did == [i \in DOMAIN of(n) |-> of(n)[i].module] IN
            IF n = bad THEN IsPrefix(did, modules(n)) ELSE did = modules(n)

\* The paths below path down to so many names.
Below(path, depth) ==
  LET level[d \in 0..depth] ==
        IF d = 0 THEN {path}
        ELSE UNION {IF IsDir(p) THEN {Full(p, n) : n \in Content[Last(p)]} ELSE {} : p \in level[d - 1]}
  IN UNION {level[d] : d \in 0..depth}
Before(p, q) ==
  \E i \in 0..Len(p) : /\ i < Len(q) /\ SubSeq(p, 1, i) = SubSeq(q, 1, i)
                       /\ (i = Len(p) \/ p[i + 1] < q[i + 1])

\* An Include reads each file it matches, and each below a directory it matches, once, in the
\* order of their names; where it fails it has read those in front (1788-2051).
FilesExact ==
  said.lines = 0 => \A p \in Patterns :
    LET files == ap_process_fnmatch_configs(p)
        limit == Len(p.parts) + AP_MAX_INCLUDE_DIR_DEPTH
        fits(path) == Len(path) > Len(p.parts) /\ \A i \in DOMAIN p.parts : path[i + 1] \in p.parts[i].names
        wanted == SetToSortSeq({f \in Below(<<Root>>, limit) : ~IsDir(f) /\ fits(f)}, Before)
    IN IF Contains(files, Error)
       THEN IsPrefix(Front(files), wanted)
       ELSE files = wanted
=============================================================================
