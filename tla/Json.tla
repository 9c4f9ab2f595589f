-------------------------------- MODULE Json --------------------------------
(***************************************************************************)
(* libjson (lib_src/libjson-0.8/json.c): the interruptible parser that     *)
(* turns pieces of text into events, the printer that turns events into    *)
(* text, the callback that builds a tree, and the loop of jsonlint that    *)
(* feeds a file.  Characters are their codes.  A parser is either fed by a *)
(* user who types pieces of text ("type") or by the printer, which prints  *)
(* the events a program says one by one ("raw", "pretty").                 *)
(*                                                                         *)
(* An allocation fails when the budget `mem' of the parser is used up.     *)
(* The DOM stack's growth at 1024 levels is out of the bounds.             *)
(***************************************************************************)
EXTENDS Integers, Sequences, SequencesExt

CONSTANTS
    Configs,        \* the json_config records a parser is given
    Budgets,        \* how many allocations succeed
    Pieces,         \* what is typed in a comment, a string, an escape and elsewhere: [text, canon], the
                    \* text and how the printer would write it
    Numbers,        \* <<type, digits>> of the numbers a program prints
    Strings,        \* the strings and keys a program prints
    MaxPieces, MaxSaid, MaxOpen,
    DefaultStack, DefaultBuffer     \* LIBJSON_DEFAULT_*_SIZE

VARIABLES
    way,            \* "type", "raw" or "pretty"
    parser,
    printer,
    typed,          \* how many pieces were typed, and their canonical text
    said,           \* the events the program printed
    at              \* lines and columns counted by jsonlint

vars == <<way, parser, printer, typed, said, at>>

(***************************************************************************)
(* Characters                                                              *)
(***************************************************************************)
NL == 10
Quote == 34
Slash == 47
Backslash == 92
Star == 42

(* character_class: -1 stands for C_ERROR *)
SpecialClass == 32 :> "SPACE" @@ 10 :> "NL" @@ 9 :> "WHITE" @@ 13 :> "WHITE"
    @@ 123 :> "LCURB" @@ 125 :> "RCURB" @@ 91 :> "LSQRB" @@ 93 :> "RSQRB"
    @@ 58 :> "COLON" @@ 44 :> "COMMA" @@ 34 :> "QUOTE" @@ 92 :> "BACKS"
    @@ 47 :> "SLASH" @@ 43 :> "PLUS" @@ 45 :> "MINUS" @@ 46 :> "DOT" @@ 48 :> "ZERO"
    @@ 97 :> "a" @@ 98 :> "b" @@ 99 :> "c" @@ 100 :> "d" @@ 101 :> "e" @@ 102 :> "f"
    @@ 108 :> "l" @@ 110 :> "n" @@ 114 :> "r" @@ 115 :> "s" @@ 116 :> "t" @@ 117 :> "u"
    @@ 69 :> "E" @@ 42 :> "STAR" @@ 35 :> "HASH"

character_class == [ch \in 0..255 |->
    IF ch \in DOMAIN SpecialClass THEN SpecialClass[ch]
    ELSE IF ch \in 49..57 THEN "DIGIT"
    ELSE IF ch \in {65, 66, 67, 68, 70} THEN "ABCDF"
    ELSE IF ch < 32 THEN "ERROR" ELSE "OTHER"]

Classes == {character_class[ch] : ch \in 0..255} \ {"ERROR"}

(***************************************************************************)
(* The transition table, one row of <<classes, next>> per state            *)
(***************************************************************************)
Blanks == {"SPACE", "NL", "WHITE"}
Digits == {"ZERO", "DIGIT"}
HexDigits == Digits \cup {"a", "b", "c", "d", "e", "f", "ABCDF", "E"}
Comments == {<<{"SLASH"}, "CB">>, <<{"HASH"}, "YB">>}
Ends == {<<Blanks, "OK">>, <<{"RCURB"}, "OE">>, <<{"RSQRB"}, "AE">>, <<{"COMMA"}, "SP">>}
Values == {<<{"LCURB"}, "OB">>, <<{"LSQRB"}, "AB">>, <<{"QUOTE"}, "_S">>,
           <<{"MINUS"}, "MX">>, <<{"ZERO"}, "ZX">>, <<{"DIGIT"}, "IX">>,
           <<{"f"}, "F1">>, <<{"n"}, "N1">>, <<{"t"}, "T1">>}
Waits(s) == {<<Blanks, s>>} \cup Comments
Letter(c, s) == {<<{c}, s>>}

Rows ==
    [GO |-> Waits("GO") \cup {<<{"LCURB"}, "OB">>, <<{"LSQRB"}, "AB">>},
     OK |-> Ends \cup Comments,
     _O |-> Waits("_O") \cup {<<{"RCURB"}, "OE">>, <<{"QUOTE"}, "_S">>},
     _K |-> Waits("_K") \cup {<<{"QUOTE"}, "_S">>},
     CO |-> Waits("CO") \cup {<<{"COLON"}, "KS">>},
     _V |-> Waits("_V") \cup Values,
     _A |-> Waits("_A") \cup Values \cup {<<{"RSQRB"}, "AE">>},
     _S |-> {<<{"QUOTE"}, "SE">>, <<{"BACKS"}, "E0">>,
             <<Classes \ {"NL", "WHITE", "QUOTE", "BACKS"}, "_S">>},
     E0 |-> {<<{"QUOTE", "BACKS", "SLASH", "b", "f", "n", "r", "t"}, "_S">>, <<{"u"}, "U1">>},
     U1 |-> {<<HexDigits, "U2">>}, U2 |-> {<<HexDigits, "U3">>},
     U3 |-> {<<HexDigits, "U4">>}, U4 |-> {<<HexDigits, "UC">>},
     M0 |-> {<<{"ZERO"}, "Z0">>, <<{"DIGIT"}, "I0">>},
     Z0 |-> Ends \cup Comments \cup {<<{"DOT"}, "DF">>},
     I0 |-> Ends \cup Comments \cup {<<{"DOT"}, "DF">>, <<Digits, "I0">>, <<{"e", "E"}, "DE">>},
     R1 |-> {<<Digits, "R2">>},
     R2 |-> Ends \cup Comments \cup {<<Digits, "R2">>, <<{"e", "E"}, "X1">>},
     X1 |-> {<<{"PLUS", "MINUS"}, "X2">>, <<Digits, "X3">>},
     X2 |-> {<<Digits, "X3">>},
     X3 |-> Ends \cup {<<Digits, "X3">>},
     T1 |-> Letter("r", "T2"), T2 |-> Letter("u", "T3"), T3 |-> Letter("e", "TR"),
     F1 |-> Letter("a", "F2"), F2 |-> Letter("l", "F3"), F3 |-> Letter("s", "F4"),
     F4 |-> Letter("e", "FA"),
     N1 |-> Letter("u", "N2"), N2 |-> Letter("l", "N3"), N3 |-> Letter("l", "NU"),
     C1 |-> Letter("STAR", "C2"),
     C2 |-> {<<{"STAR"}, "C3">>, <<Classes \ {"STAR"}, "C2">>},
     C3 |-> {<<{"STAR"}, "C3">>, <<{"SLASH"}, "CE">>, <<Classes \ {"STAR", "SLASH"}, "C2">>},
     Y1 |-> {<<{"NL"}, "CE">>, <<Classes \ {"NL"}, "Y1">>},
     D1 |-> Letter("BACKS", "D2"), D2 |-> Letter("u", "U1")]

state_transition_table == [s \in DOMAIN Rows |-> [c \in Classes |->
    IF \E r \in Rows[s] : c \in r[1] THEN (CHOOSE r \in Rows[s] : c \in r[1])[2] ELSE "__"]]

(* what is done with the character before the transition (only asked of those that have one) *)
buffer_policy_table == [s \in DOMAIN Rows |-> [c \in Classes |->
    CASE s = "E0" /\ c # "u" -> "escape"
      [] \/ s = "_S" /\ c \notin {"QUOTE", "BACKS"}
         \/ s \in {"U1", "U2", "U3", "U4", "M0", "R1", "X1", "X2"}
         \/ s \in {"_V", "_A", "Z0", "I0", "R2", "X3"}
            /\ c \in Digits \cup {"MINUS", "DOT", "e", "E"} -> "append"
      [] OTHER -> "ignore"]]

Row(type, state, dobuffer) == [type |-> type, state |-> state, dobuffer |-> dobuffer]

actions_map ==
    [MX |-> Row("INT", "M0", FALSE),   ZX |-> Row("INT", "Z0", FALSE),
     IX |-> Row("INT", "I0", FALSE),   DE |-> Row("FLOAT", "X1", FALSE),
     DF |-> Row("FLOAT", "R1", FALSE), NU |-> Row("NULL", "OK", FALSE),
     FA |-> Row("FALSE", "OK", FALSE), TR |-> Row("TRUE", "OK", FALSE),
     KS |-> Row("NONE", "_V", FALSE),  UC |-> Row("NONE", "", FALSE),
     YB |-> Row("NONE", "Y1", TRUE),   CB |-> Row("NONE", "C1", TRUE),
     CE |-> Row("NONE", "", FALSE),    OB |-> Row("NONE", "_O", FALSE),
     OE |-> Row("NONE", "OK", TRUE),   AB |-> Row("NONE", "_A", FALSE),
     AE |-> Row("NONE", "OK", TRUE),   SE |-> Row("NONE", "", FALSE),
     SP |-> Row("NONE", "", TRUE)]

(***************************************************************************)
(* The callback that builds a tree.  The node of a structure is kept on    *)
(* the stack with the key that waits for its value.                        *)
(***************************************************************************)
NoKey == << >>
Structure(type) == [type |-> type, data |-> << >>, kids |-> << >>]
NoDom == [stack |-> << >>, root |-> Structure("NONE"), wild |-> FALSE]

dom_append(d, v) ==
    LET n == Len(d.stack)
        top == d.stack[n]
    IN  [d EXCEPT !.stack[n] = [val |-> [top.val EXCEPT !.kids = Append(@, [key |-> top.key, val |-> v])],
                                key |-> NoKey]]

dom_pop(d) ==
    LET v == d.stack[Len(d.stack)].val
        rest == [d EXCEPT !.stack = Front(@)]
    IN  IF rest.stack = << >> THEN [rest EXCEPT !.root = v] ELSE dom_append(rest, v)

(* popping the empty stack reads the element below the first one *)
json_parser_dom_callback(d, type, data) ==
    CASE type \in {"ARRAY_BEGIN", "OBJECT_BEGIN"} ->
            [d EXCEPT !.stack = Append(@, [val |-> Structure(type), key |-> NoKey])]
      [] type \in {"ARRAY_END", "OBJECT_END"} ->
            IF d.stack = << >> THEN [d EXCEPT !.wild = TRUE] ELSE dom_pop(d)
      [] type = "KEY" -> [d EXCEPT !.stack[Len(d.stack)].key = <<data>>]
      [] OTHER -> dom_append(d, [type |-> type, data |-> data, kids |-> << >>])

(***************************************************************************)
(* The parser                                                              *)
(***************************************************************************)
Failed(p, error) == [p EXCEPT !.ret = error]
Allocated(p) == [p EXCEPT !.mem = @ - 1]

json_parser_init(cfg, mem) ==
    LET buffer == IF cfg.buffer_initial_size > 0 THEN cfg.buffer_initial_size ELSE DefaultBuffer
    IN  [config |-> cfg, state |-> "GO", save_state |-> "GO", expecting_key |-> FALSE,
         unicode_multi |-> 0, type |-> "NONE", mem |-> mem,
         stack |-> << >>,
         stack_size |-> IF cfg.max_nesting > 0 THEN cfg.max_nesting ELSE DefaultStack,
         buffer |-> << >>,
         buffer_size |-> IF cfg.max_data > 0 /\ buffer > cfg.max_data THEN cfg.max_data ELSE buffer,
         ret |-> "", processed |-> 0, heard |-> << >>, dom |-> NoDom]

state_grow(p) ==
    IF p.config.max_nesting # 0 THEN Failed(p, "NESTING_LIMIT")
    ELSE IF p.mem = 0 THEN Failed(p, "NO_MEMORY")
    ELSE Allocated([p EXCEPT !.stack_size = 2 * @])

Pushed(g, mode) == IF g.ret # "" THEN g ELSE [g EXCEPT !.stack = Append(@, mode)]
state_push(p, mode) ==
    Pushed(IF Len(p.stack) >= p.stack_size THEN state_grow(p) ELSE p, mode)

state_pop(p, mode) ==
    IF p.stack = << >> THEN Failed(p, "POP_EMPTY")
    ELSE [p EXCEPT !.stack = Front(@),
                   !.ret = IF Last(p.stack) = mode THEN "" ELSE "POP_UNEXPECTED_MODE"]

buffer_grow(p) ==
    LET max == p.config.max_data
        size == 2 * p.buffer_size
    IN  IF max > 0 /\ p.buffer_size = max THEN Failed(p, "DATA_LIMIT")
        ELSE IF p.mem = 0 THEN Failed(p, "NO_MEMORY")
        ELSE Allocated([p EXCEPT !.buffer_size = IF max > 0 /\ size > max THEN max ELSE size])

Written(g, c) == IF g.ret # "" THEN g ELSE [g EXCEPT !.buffer = Append(@, c)]
BufferPushLate(p, c) == Written(IF Len(p.buffer) >= p.buffer_size THEN buffer_grow(p) ELSE p, c)
buffer_push(p, c) == Written(IF Len(p.buffer) + 1 >= p.buffer_size THEN buffer_grow(p) ELSE p, c)

Escaped == 98 :> 8 @@ 102 :> 12 @@ 110 :> 10 @@ 114 :> 13 @@ 116 :> 9
           @@ 34 :> 34 @@ 47 :> 47 @@ 92 :> 92
buffer_push_escape(p, next) == buffer_push(p, Escaped[next])

(* the user's callback records the event and builds the tree, one allocation a structure *)
do_callback(p, type, data) ==
    IF type \in {"ARRAY_BEGIN", "OBJECT_BEGIN"} /\ p.mem = 0 THEN Failed(p, "CALLBACK")
    ELSE [p EXCEPT !.heard = Append(@, <<type, data>>),
                   !.dom = json_parser_dom_callback(@, type, data),
                   !.mem = IF type \in {"ARRAY_BEGIN", "OBJECT_BEGIN"} THEN @ - 1 ELSE @]

do_buffer(p) ==
    IF p.type \in {"INT", "FLOAT", "NULL", "TRUE", "FALSE"}
    THEN [do_callback(p, p.type, p.buffer) EXCEPT !.buffer = << >>]
    ELSE [p EXCEPT !.buffer = << >>]

hex(c) == IF c < 58 THEN c - 48 ELSE IF c < 71 THEN c - 55 ELSE c - 87
Tail6(u) == 128 + (u % 64)
Utf8(u) ==
    IF u < 128 THEN <<u>>
    ELSE IF u < 2048 THEN <<192 + (u \div 64), Tail6(u)>>
    ELSE IF u < 65536 THEN <<224 + (u \div 4096), Tail6(u \div 64), Tail6(u)>>
    ELSE <<240 + (u \div 262144), Tail6(u \div 4096), Tail6(u \div 64), Tail6(u)>>

(* the four digits at the end of the buffer become the bytes of the character *)
decode_unicode_char(p) ==
    LET n == Len(p.buffer)
        digit(i) == hex(p.buffer[n - i])
        uval == 4096 * digit(3) + 256 * digit(2) + 16 * digit(1) + digit(0)
        Put(bytes) == [p EXCEPT !.buffer = SubSeq(@, 1, n - 4) \o bytes, !.unicode_multi = 0]
        low == uval \in 56320..57343
    IN  IF p.unicode_multi # 0
        THEN IF low THEN Put(Utf8(65536 + 1024 * (p.unicode_multi % 1024) + (uval % 1024)))
             ELSE Failed(p, "UNICODE_MISSING_LOW_SURROGATE")
        ELSE IF low THEN Failed(p, "UNICODE_UNEXPECTED_LOW_SURROGATE")
        ELSE IF uval \in 55296..56319 THEN [Put(<< >>) EXCEPT !.unicode_multi = uval]
        ELSE Put(Utf8(uval))

AfterUnicode(d) == [d EXCEPT !.state = IF d.ret # "" THEN @ ELSE IF d.unicode_multi # 0 THEN "D1" ELSE "_S"]
act_uc(p) ==
    AfterUnicode(decode_unicode_char(p))

ActCommentForgets(p, allowed) == IF allowed THEN p ELSE Failed(p, "COMMENT_NOT_ALLOWED")
act_comment(p, allowed) ==
    IF allowed THEN [p EXCEPT !.save_state = p.state] ELSE Failed(p, "COMMENT_NOT_ALLOWED")

act_ce(p) ==
    [p EXCEPT !.state = IF p.save_state \in {"GO", "OK", "_O", "_K", "CO", "_V", "_A"}
                        THEN p.save_state ELSE "OK"]

(* the callback comes first: what ends a structure is told before it is found to match *)
ExpectsKey(s, mode, expects) ==
    IF s.ret # "" \/ mode = "ARRAY" THEN s ELSE [s EXCEPT !.expecting_key = expects]
Opened(c, mode) == IF c.ret # "" THEN c ELSE state_push(c, mode)
Closed(c, mode) == IF c.ret # "" THEN c ELSE state_pop(c, mode)
act_begin(p, type, mode) == ExpectsKey(Opened(do_callback(p, type, << >>), mode), mode, TRUE)
ActEndExpectsKey(p, type, mode) == ExpectsKey(Closed(do_callback(p, type, << >>), mode), mode, TRUE)
act_end(p, type, mode) == ExpectsKey(Closed(do_callback(p, type, << >>), mode), mode, FALSE)

AfterString(c) ==
    IF c.ret # "" THEN c
    ELSE [c EXCEPT !.buffer = << >>, !.expecting_key = FALSE, !.state = IF c.expecting_key THEN "CO" ELSE "OK"]
act_se(p) == AfterString(do_callback(p, IF p.expecting_key THEN "KEY" ELSE "STRING", p.buffer))

act_sp(p) ==
    IF p.stack = << >> THEN Failed(p, "COMMA_OUT_OF_STRUCTURE")
    ELSE IF Last(p.stack) = "OBJECT" THEN [p EXCEPT !.expecting_key = TRUE, !.state = "_K"]
    ELSE [p EXCEPT !.state = "_V"]

Call(p, action) ==
    CASE action = "UC" -> act_uc(p)
      [] action = "YB" -> act_comment(p, p.config.allow_yaml_comments)
      [] action = "CB" -> act_comment(p, p.config.allow_c_comments)
      [] action = "CE" -> act_ce(p)
      [] action = "OB" -> act_begin(p, "OBJECT_BEGIN", "OBJECT")
      [] action = "AB" -> act_begin(p, "ARRAY_BEGIN", "ARRAY")
      [] action = "OE" -> act_end(p, "OBJECT_END", "OBJECT")
      [] action = "AE" -> act_end(p, "ARRAY_END", "ARRAY")
      [] action = "SE" -> act_se(p)
      [] action = "SP" -> act_sp(p)
      [] OTHER -> p

Called(b, action) == IF b.ret # "" THEN b ELSE Call(b, action)
Moved(c, row) ==
    IF c.ret # "" THEN c
    ELSE [c EXCEPT !.state = IF row.state = "" THEN @ ELSE row.state, !.type = row.type]
DoActionUnflushed(p, action) == Moved(Called(p, action), actions_map[action])
do_action(p, action) ==
    Moved(Called(IF actions_map[action].dobuffer THEN do_buffer(p) ELSE p, action), actions_map[action])

(* one character of json_parser_string; an error leaves it unprocessed *)
Buffered(p, ch, policy) ==
    IF policy = "append" THEN buffer_push(p, ch)
    ELSE IF policy = "escape" THEN buffer_push_escape(p, ch) ELSE p
Reached(b, next) ==
    IF b.ret # "" THEN b
    ELSE IF next \in DOMAIN actions_map THEN do_action(b, next)
    ELSE [b EXCEPT !.state = next]
Processed(q) == IF q.ret # "" THEN q ELSE [q EXCEPT !.processed = @ + 1]
Step(p, ch, class, next) ==
    Processed(Reached(Buffered(p, ch, buffer_policy_table[p.state][class]), next))

json_parser_string(parser0, s) ==
    FoldLeft(LAMBDA p, ch :
                IF p.ret # "" THEN p
                ELSE IF character_class[ch] = "ERROR" THEN Failed(p, "BAD_CHAR")
                ELSE IF state_transition_table[p.state][character_class[ch]] = "__"
                     THEN Failed(p, "UNEXPECTED_CHAR")
                ELSE Step(p, ch, character_class[ch],
                          state_transition_table[p.state][character_class[ch]]),
             [parser0 EXCEPT !.processed = 0], s)

(* true also inside an unfinished comment of a document that holds nothing else *)
json_parser_is_done(p) == p.stack = << >> /\ p.state # "GO"

(***************************************************************************)
(* The printer                                                             *)
(***************************************************************************)
json_print_init == [indentlevel |-> 0, enter_object |-> TRUE, first |-> TRUE,
                    afterkey |-> FALSE, out |-> << >>]

HexDigit(d) == IF d < 10 THEN 48 + d ELSE 87 + d
character_escape(c) ==
    CASE c \in {8, 9, 10, 12, 13} -> <<Backslash, CHOOSE e \in DOMAIN Escaped : Escaped[e] = c>>
      [] c = Quote -> <<Backslash, Quote>>
      [] c < 32 /\ c \notin {8, 9, 10, 12, 13} -> <<Backslash, 117, 48, 48, 48 + (c \div 16), HexDigit(c % 16)>>
      [] OTHER -> <<c>>

print_string(data) ==
    <<Quote>> \o FlattenSeq([i \in 1..Len(data) |->
                    IF data[i] < 36 THEN character_escape(data[i])
                    ELSE IF data[i] = Backslash THEN <<Backslash, Backslash>> ELSE <<data[i]>>])
              \o <<Quote>>

print_indent(level) == <<NL>> \o [i \in 1..level |-> 9]

Begins == {"ARRAY_BEGIN", "OBJECT_BEGIN"}
Closes == {"ARRAY_END", "OBJECT_END"}

json_print_mode(pr, type, data, pretty) ==
    LET indent == IF pretty THEN print_indent(pr.indentlevel) ELSE << >>
        before == IF ~pr.enter_object /\ ~pr.afterkey /\ type \notin Closes THEN <<44>> \o indent
                  ELSE IF pr.enter_object /\ ~pr.first /\ type \notin Closes THEN indent
                  ELSE << >>
        text == CASE type = "ARRAY_BEGIN" -> <<91>>
                  [] type = "OBJECT_BEGIN" -> <<123>>
                  [] type \in Closes ->
                        (IF pretty /\ ~pr.enter_object THEN print_indent(pr.indentlevel - 1) ELSE << >>)
                        \o <<IF type = "OBJECT_END" THEN 125 ELSE 93>>
                  [] type \in {"INT", "FLOAT"} -> data
                  [] type = "NULL" -> <<110, 117, 108, 108>>
                  [] type = "TRUE" -> <<116, 114, 117, 101>>
                  [] type = "FALSE" -> <<102, 97, 108, 115, 101>>
                  [] type = "KEY" -> print_string(data) \o (IF pretty THEN <<58, 32>> ELSE <<58>>)
                  [] OTHER -> print_string(data)
    IN  [indentlevel |-> pr.indentlevel + (IF type \in Begins THEN 1 ELSE IF type \in Closes THEN -1 ELSE 0),
         enter_object |-> type \in Begins, first |-> FALSE, afterkey |-> type = "KEY",
         out |-> pr.out \o before \o text]

(* several events in one call *)
json_print_args(pr, events, pretty) ==
    FoldLeft(LAMBDA q, e : json_print_mode(q, e[1], e[2], pretty), pr, events)

(***************************************************************************)
(* Actions                                                                 *)
(***************************************************************************)
Init ==
    /\ way \in {"type", "raw", "pretty"}
    /\ \E cfg \in Configs, mem \in Budgets :
          /\ way # "type" => mem > MaxSaid /\ cfg.max_data = 0 /\ cfg.max_nesting = 0
          /\ parser = json_parser_init(cfg, mem)
    /\ printer = json_print_init
    /\ typed = [count |-> 0, canon |-> << >>]
    /\ said = << >>
    /\ at = [lines |-> 1, col |-> 0]

(* what jsonlint counts while it feeds what it read *)
Counted(a, s) == FoldLeft(LAMBDA c, ch : IF ch = NL THEN [lines |-> c.lines + 1, col |-> 0]
                                         ELSE [c EXCEPT !.col = @ + 1], a, s)

Place == IF parser.state \in {"C1", "C2", "C3", "Y1"} THEN "comment"
         ELSE IF parser.state \in {"_S", "E0"} THEN "string"
         ELSE IF parser.state \in {"U1", "U2", "U3", "U4", "D1", "D2"} THEN "unicode"
         ELSE "other"

(* process_file: the next piece of the text *)
process_file(piece) ==
    /\ way = "type" /\ parser.ret = "" /\ typed.count < MaxPieces
    /\ parser' = json_parser_string(parser, piece.text)
    /\ typed' = [count |-> typed.count + 1, canon |-> typed.canon \o piece.canon]
    /\ at' = Counted(at, SubSeq(piece.text, 1, parser'.processed))
    /\ UNCHANGED <<way, printer, said>>

(* a program prints one event; its printer's callback feeds the parser *)
Prints(type, data) ==
    /\ way # "type" /\ Len(said) < MaxSaid
    /\ said' = Append(said, <<type, data>>)
    /\ printer' = json_print_mode([printer EXCEPT !.out = << >>], type, data, way = "pretty")
    /\ parser' = json_parser_string(parser, printer'.out)
    /\ UNCHANGED <<way, typed, at>>

(* the structures that are open after some events, innermost last *)
Open(events) == FoldLeft(LAMBDA o, e : IF e[1] \in Begins THEN Append(o, e[1])
                                       ELSE IF e[1] \in Closes THEN Front(o) ELSE o, << >>, events)
AfterKey == said # << >> /\ Last(said)[1] = "KEY"

(* what a program may print next to stay well-formed *)
Sayable(open) ==
    LET inside == open # << >>
        key == inside /\ Last(open) = "OBJECT_BEGIN" /\ ~AfterKey
        atoms == Numbers \cup {<<"STRING", s>> : s \in Strings} \cup {<<type, << >>>> : type \in {"TRUE", "FALSE", "NULL"}}
    IN  (IF (said = << >> \/ (inside /\ ~key)) /\ Len(open) < MaxOpen THEN {<<type, << >>>> : type \in Begins} ELSE {})
        \cup (IF inside /\ ~key THEN atoms ELSE {})
        \cup (IF key THEN {<<"KEY", s>> : s \in Strings} ELSE {})
        \cup (IF inside /\ ~AfterKey
              THEN {<<IF Last(open) = "OBJECT_BEGIN" THEN "OBJECT_END" ELSE "ARRAY_END", << >>>>} ELSE {})

Say == \E e \in Sayable(Open(said)) : Prints(e[1], e[2])

Next == Say \/ \E piece \in Pieces[Place] : process_file(piece)

Spec == Init /\ [][Next]_vars

(***************************************************************************)
(* Properties                                                              *)
(***************************************************************************)
(* The text without blanks and comments; `m' is where the scan stands *)
Skimmed(text) ==
    FoldLeft(LAMBDA z, c :
        CASE z.m = "string" -> [out |-> Append(z.out, c), m |-> IF c = Quote THEN "out"
                                      ELSE IF c = Backslash THEN "escape" ELSE "string"]
          [] z.m = "escape" -> [out |-> Append(z.out, c), m |-> "string"]
          [] z.m = "line" -> [z EXCEPT !.m = IF c = NL THEN "out" ELSE "line"]
          [] z.m = "comment" -> [z EXCEPT !.m = IF c = Star THEN "star" ELSE "comment"]
          [] z.m = "star" -> [z EXCEPT !.m = IF c = Star THEN "star" ELSE IF c = Slash THEN "out" ELSE "comment"]
          [] z.m = "slash" -> [z EXCEPT !.m = "comment"]
          [] OTHER -> IF c = Slash THEN [z EXCEPT !.m = "slash"]
                      ELSE IF c = 35 THEN [z EXCEPT !.m = "line"]
                      ELSE IF c \in {9, 10, 13, 32} THEN z
                      ELSE [out |-> Append(z.out, c), m |-> IF c = Quote THEN "string" ELSE "out"],
        [out |-> << >>, m |-> "out"], text).out

(* the events of a tree, in order *)
RECURSIVE EventsOf(_)
EventsOf(v) ==
    IF v.type \notin Begins THEN <<<<v.type, v.data>>>>
    ELSE <<<<v.type, << >>>>>>
         \o FlattenSeq([i \in 1..Len(v.kids) |->
                (IF v.kids[i].key = NoKey THEN << >> ELSE <<<<"KEY", v.kids[i].key[1]>>>>)
                \o EventsOf(v.kids[i].val)])
         \o <<<<IF v.type = "ARRAY_BEGIN" THEN "ARRAY_END" ELSE "OBJECT_END", << >>>>>>

Rendered(events) == json_print_args(json_print_init, events, FALSE).out
Complete == parser.stack = << >> /\ parser.state = "OK"

(* ReadsWhatIsWritten: however a text is cut into pieces, what the callback has heard of an
   accepted text is that text - printed without blanks it is the text's beginning, and once the
   document is complete it is the whole text, and the tree the DOM callback built has exactly
   these events.  A comment, an escape or a number that ends at a bracket loses or adds nothing;
   the buffer always has room for the terminating NUL, and the limits of the configuration
   hold. *)
ReadsWhatIsWritten ==
    way = "type" /\ parser.ret = "" =>
        /\ IsPrefix(Rendered(parser.heard), Append(Skimmed(typed.canon), 58))
        /\ Complete => /\ Rendered(parser.heard) = Skimmed(typed.canon)
                       /\ EventsOf(parser.dom.root) = parser.heard
                       /\ parser.dom.stack = << >>
        /\ Len(parser.dom.stack) = Len(parser.stack) /\ ~parser.dom.wild
        /\ Len(parser.buffer) < parser.buffer_size
        /\ parser.config.max_nesting > 0 => Len(parser.stack) <= parser.config.max_nesting
        /\ parser.config.max_data > 0 => Len(parser.buffer) <= parser.config.max_data

(* ParsesWhatItPrints: the parser accepts whatever the printer prints of a well-formed sequence
   of events, raw or indented, and reports the same events, at most the last one late (a number
   or a constant is reported at the character after it); the document is done exactly when
   the outermost structure is closed. *)
ParsesWhatItPrints ==
    way # "type" =>
        /\ parser.ret = ""
        /\ \/ parser.heard = said
           \/ /\ Last(said)[1] \in {"INT", "FLOAT", "TRUE", "FALSE", "NULL"}
              /\ parser.heard = Front(said)
              /\ <<parser.type, parser.buffer>> = Last(said)
        /\ json_parser_is_done(parser) <=> said # << >> /\ Open(said) = << >>
        /\ printer.indentlevel = Len(Open(said))

JsonExact == ReadsWhatIsWritten /\ ParsesWhatItPrints
=============================================================================
