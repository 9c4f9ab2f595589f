-------------------------------- MODULE Http --------------------------------
(***************************************************************************)
(* The HTTP dissector of the collector (collectors/wireshark/src/          *)
(* packet-http.c): the messages of one TCP connection, dissected as TCP    *)
(* hands their bytes over, and the conversation data that link requests    *)
(* with responses and remember a proxied or upgraded connection.           *)
(*                                                                         *)
(* A message is a start line of two units (a segment may end inside it),   *)
(* a unit for each other line, and a unit for each byte of the body.  TCP  *)
(* is what the dissector sees of it: the data of a direction in order, a   *)
(* tail the dissector asked to keep is handed over again with more.        *)
(* After the capture the second pass dissects every frame again, in order. *)
(***************************************************************************)
EXTENDS Integers, Sequences, FiniteSets, SequencesExt

CONSTANTS
    Scripts,        \* sequences of exchanges <<request, responses>>; all responses but the last are interim
    Sizes,          \* how many units a segment may carry
    MaxFrames,
    Raw             \* the units each side sends after a connection was upgraded or proxied

VARIABLES
    script, pipelined, desegment,
    sent,           \* how many units each side has sent
    frames,         \* the captured frames: [dir, tvb, first, again], again once the second pass was there
    kept,           \* what TCP keeps of each direction until more arrives
    conv,           \* http_conv_t
    second          \* how many frames the second pass has dissected

vars == <<script, pipelined, desegment, sent, frames, kept, conv, second>>

(***************************************************************************)
(* Messages on the wire                                                    *)
(***************************************************************************)
Line(kind, name, n) == [kind |-> kind, name |-> name, n |-> n]
Half(line) == [line EXCEPT !.kind = "half"]
Byte(b) == Line("byte", "", b)
BlankLine == Line("blank", "", 0)
LineEnds == {"start", "header", "blank", "chunk"}

Bytes(body) == [i \in 1..Len(body) |-> Byte(body[i])]
Chunk(body) == <<Line("chunk", "", Len(body))>> \o Bytes(body) \o <<BlankLine>>

(* [start, code, headers, body]: the body is a sequence of chunks, only one unless it is chunked *)
Chunked(m) == \E i \in 1..Len(m.headers) : m.headers[i].name = "Transfer-Encoding: chunked"
Wire(m) ==
    <<Half(Line("start", m.start, m.code)), Line("start", m.start, m.code)>> \o m.headers \o <<BlankLine>>
    \o (IF Chunked(m) THEN FlattenSeq([i \in 1..Len(m.body) |-> Chunk(m.body[i])]) \o Chunk(<< >>)
        ELSE Bytes(FlattenSeq(m.body)))

(***************************************************************************)
(* Start lines and headers                                                 *)
(***************************************************************************)
Requests == {"GET", "PUT", "COPY", "HEAD", "LOCK", "MOVE", "POLL", "POST", "BCOPY", "BMOVE", "MKCOL",
             "TRACE", "LABEL", "MERGE", "DELETE", "SEARCH", "UNLOCK", "REPORT", "UPDATE", "BDELETE",
             "CONNECT", "OPTIONS", "CHECKIN", "PROPFIND", "CHECKOUT", "CCM_POST", "PROPPATCH",
             "BPROPFIND", "BPROPPATCH", "UNCHECKOUT", "MKACTIVITY", "MKWORKSPACE", "RPC_CONNECT",
             "RPC_IN_DATA", "RPC_OUT_DATA", "VERSION-CONTROL", "BASELINE-CONTROL"}
Notifications == {"NOTIFY", "SUBSCRIBE", "UNSUBSCRIBE"}

is_http_request_or_reply(line) ==
    IF line.kind # "start" THEN "OTHERS"
    ELSE IF line.name \in {"HTTP/", "ICY"} THEN "RESPONSE"
    ELSE IF line.name \in Requests THEN "REQUEST"
    ELSE IF line.name \in Notifications THEN "NOTIFICATION" ELSE "OTHERS"

NoHeaders == [length |-> -1, transfer |-> "", content |-> "", upgrade |-> FALSE]

(* the headers that change how the body is read; a bad length is as good as none *)
process_header(h, line) ==
    CASE line.name = "Content-Length" -> [h EXCEPT !.length = IF line.n < 0 THEN -1 ELSE line.n]
      [] line.name = "Transfer-Encoding: chunked" -> [h EXCEPT !.transfer = "chunked"]
      [] line.name = "Transfer-Encoding: gzip" -> [h EXCEPT !.transfer = "gzip"]
      [] line.name = "Transfer-Encoding: identity" -> [h EXCEPT !.transfer = "identity"]
      [] line.name = "Content-Encoding: gzip" -> [h EXCEPT !.content = "gzip"]
      [] line.name = "Content-Encoding: compress" -> [h EXCEPT !.content = "compress"]
      [] line.name = "Upgrade: websocket" -> [h EXCEPT !.upgrade = TRUE]
      [] OTHER -> h

(***************************************************************************)
(* tvbuffs: a sequence of units and an offset                              *)
(***************************************************************************)
Rest(t, p) == SubSeq(t, p, Len(t))

(* the offset after the line that begins at p; 0 if it does not end in the data *)
FindAnyEnd(t, p) == IF p <= Len(t) THEN p + 1 ELSE 0
tvb_find_line_end(t, p) ==
    LET ends == {q \in p..Len(t) : t[q].kind \in LineEnds}
    IN  IF ends = {} THEN 0 ELSE 1 + (CHOOSE q \in ends : \A r \in ends : q <= r)

(* the line in the units p..q-1; what is not whole or not text is no line HTTP knows *)
LineAt(t, p, q) ==
    IF q = p + 1 /\ t[p].kind # "start" THEN t[p]
    ELSE IF q = p + 2 /\ t[p] = Half(t[p + 1]) THEN t[p + 1] ELSE Line("junk", "", 0)

(***************************************************************************)
(* Desegmentation (epan/req_resp_hdrs.c, not in this repository): whether  *)
(* the headers and the body they announce are all there                    *)
(***************************************************************************)
RECURSIVE ChunksThere(_, _)
ChunksThere(t, p) ==
    LET q == tvb_find_line_end(t, p)
        next == q + t[p].n + 1
    IN  p <= Len(t) /\ q # 0 /\ Len(t) >= next - 1 /\ (t[p].n = 0 \/ ChunksThere(t, next))

Announced(t, p, blank) == FoldLeft(LAMBDA h, u : IF u.kind = "header" THEN process_header(h, u) ELSE h,
                                   NoHeaders, SubSeq(t, p, blank))

req_resp_hdrs_do_reassembly(t, p) ==
    LET blanks == {q \in p..Len(t) : t[q].kind = "blank"}
        blank == CHOOSE q \in blanks : \A r \in blanks : q <= r
        h == Announced(t, p, blank)
    IN  ~desegment \/
        /\ blanks # {}
        /\ IF h.transfer = "chunked" THEN ChunksThere(t, blank + 1)
           ELSE h.length >= 0 => Len(t) - blank >= h.length

(***************************************************************************)
(* The conversation: requests and responses in the order they were seen    *)
(***************************************************************************)
NewConversation == [list |-> << >>, upgrade |-> FALSE, startframe |-> 0, code |-> 0, method |-> ""]

push_req_res(c, req, res) == [c EXCEPT !.list = Append(@, [req |-> req, res |-> res])]
push_req(c, frame) == push_req_res(c, frame, 0)
PushResNew(c, frame) == push_req_res(c, 0, frame)
push_res(c, frame) ==
    IF c.list = << >> \/ Last(c.list).res > 0 THEN push_req_res(c, 0, frame)
    ELSE [c EXCEPT !.list[Len(c.list)].res = frame]

(* basic_request_dissector and basic_response_dissector, as far as the conversation keeps it *)
Remembered(c, type, line) ==
    IF type = "RESPONSE" THEN [c EXCEPT !.code = line.n]
    ELSE [c EXCEPT !.method = line.name]

(***************************************************************************)
(* The body                                                                *)
(***************************************************************************)
(* the data of the chunks in t from p, up to a line that is empty or not there; of a chunk *)
(* cut short what is there is copied                                                       *)
RECURSIVE chunked_encoding_dissector(_, _, _)
NextChunk(t, q, size, data) ==
    chunked_encoding_dissector(t, q + size + 1, data \o SubSeq(t, q, q + size - 1))
AtMost(a, b) == IF a > b THEN b ELSE a
chunked_encoding_dissector(t, p, data) ==
    LET q == tvb_find_line_end(t, p)
    IN  IF p > Len(t) \/ q = 0 \/ t[p].kind = "blank" THEN data
        ELSE NextChunk(t, q, AtMost(LineAt(t, p, q).n, Len(t) - q + 1), data)

(* what is handed on as the entity body, and what kind of dissector takes it *)
Decoded(body, h) ==
    IF h.content = "" THEN [body |-> body, as |-> "entity"]
    ELSE [body |-> body, as |-> IF h.content = "gzip" THEN "uncompressed" ELSE "data"]
Entity(t, h, chunks) ==
    IF t = << >> THEN [body |-> << >>, as |-> "none"]
    ELSE IF h.transfer \in {"", "identity"} THEN Decoded(t, h)
    ELSE IF h.transfer # "chunked" THEN [body |-> t, as |-> "data"]
    ELSE IF chunks = << >> THEN [body |-> << >>, as |-> "none"] ELSE Decoded(chunks, h)

(* how much of the rest of the data belongs to the message *)
datalen(type, code, h, rest) ==
    IF h.length >= 0 /\ h.transfer = "" THEN IF rest > h.length THEN h.length ELSE rest
    ELSE IF type = "REQUEST" /\ h.transfer = "" THEN 0
    ELSE IF type = "RESPONSE" /\ (code \div 100 = 1 \/ code \in {204, 304}) THEN 0
    ELSE rest

(***************************************************************************)
(* One message.  The loop over its lines yields [p, type, code, headers,   *)
(* conv, seen]; p is where the body begins.                                *)
(***************************************************************************)
RECURSIVE Lines(_, _)
OneLine(t, z, line, next, type) ==
    IF line.kind = "blank" THEN [z EXCEPT !.p = next]
    ELSE IF type # "OTHERS"
         THEN Lines(t, [z EXCEPT !.p = next, !.type = type, !.code = line.n,
                                 !.conv = Remembered(@, type, line)])
    ELSE IF line.kind = "header"
         THEN Lines(t, [z EXCEPT !.p = next, !.headers = process_header(@, line)])
    ELSE z
Lines(t, z) ==
    IF z.p > Len(t) THEN z
    ELSE IF tvb_find_line_end(t, z.p) = 0 THEN z        \* what is left is one line that is no header
    ELSE OneLine(t, z, LineAt(t, z.p, tvb_find_line_end(t, z.p)), tvb_find_line_end(t, z.p),
                 is_http_request_or_reply(LineAt(t, z.p, tvb_find_line_end(t, z.p))))

LinkedAgain(c, type, frame, visited) ==
    IF type = "REQUEST" THEN push_req(c, frame)
    ELSE IF type = "RESPONSE" THEN push_res(c, frame) ELSE c
Linked(c, type, frame, visited) ==
    IF visited THEN c
    ELSE IF type = "REQUEST" THEN push_req(c, frame)
    ELSE IF type = "RESPONSE" THEN push_res(c, frame) ELSE c

(* [conv, next, message]; next = 0 asks TCP for more data *)
Dissected(t, z, c, frame, len) ==
    LET data == SubSeq(t, z.p, z.p + len - 1)
        e == Entity(data, z.headers,
                    IF z.headers.transfer = "chunked" THEN chunked_encoding_dissector(data, 1, << >>) ELSE << >>)
    IN  [conv |-> IF z.type = "RESPONSE"
                  THEN [c EXCEPT !.upgrade = z.headers.upgrade, !.startframe = frame + 1] ELSE c,
         next |-> z.p + len,
         message |-> [type |-> z.type, code |-> z.code, body |-> e.body, as |-> e.as]]

dissect_http_message(t, p, c, frame, visited) ==
    LET end == tvb_find_line_end(t, p)
        more == \/ end = 0
                \/ is_http_request_or_reply(LineAt(t, p, end)) # "OTHERS"
        z == Lines(t, [p |-> p, type |-> "OTHERS", code |-> 0, headers |-> NoHeaders, conv |-> c])
    IN  IF more /\ ~req_resp_hdrs_do_reassembly(t, p) THEN [conv |-> c, next |-> 0]
        ELSE Dissected(t, z, Linked(z.conv, z.type, frame, visited), frame,
                       datalen(z.type, z.code, z.headers, Len(t) - z.p + 1))

(* dissect_http: the messages in the data, and the tail TCP is asked to keep *)
Whole(type, t) == [type |-> type, code |-> 0, body |-> t, as |-> "data"]

RECURSIVE Messages(_, _, _, _)
Advanced(t, d, z, frame, visited) ==
    IF d.next = 0 THEN [z EXCEPT !.left = Rest(t, z.p)]
    ELSE Messages(t, [z EXCEPT !.p = d.next, !.conv = d.conv, !.out = Append(@, d.message)], frame, visited)
Messages(t, z, frame, visited) ==
    IF z.p > Len(t) THEN z
    ELSE IF z.conv.upgrade /\ frame >= z.conv.startframe
         THEN [z EXCEPT !.out = Append(@, Whole("WEBSOCKET", Rest(t, z.p)))]
    ELSE Advanced(t, dissect_http_message(t, z.p, z.conv, frame, visited), z, frame, visited)

ProxiedEver(c, frame) == c.code = 200 /\ c.method = "CONNECT"
Proxied(c, frame) == frame >= c.startframe /\ c.code = 200 /\ c.method = "CONNECT"

dissect_http(t, c, frame, visited) ==
    IF Proxied(c, frame)
    THEN [conv |-> IF c.startframe = 0 /\ ~visited THEN [c EXCEPT !.startframe = frame] ELSE c,
          p |-> 1, out |-> <<Whole("PAYLOAD", t)>>, left |-> << >>]
    ELSE Messages(t, [conv |-> c, p |-> 1, out |-> << >>, left |-> << >>], frame, visited)

(***************************************************************************)
(* The two sides.  A response begins when its request is complete, and     *)
(* unless requests are pipelined the next request when the response is.    *)
(***************************************************************************)
Sides == {"client", "server"}
Said(dir) == IF dir = "client" THEN [i \in 1..Len(script) |-> script[i][1]]
             ELSE FlattenSeq([i \in 1..Len(script) |-> script[i][2]])
Wires(msgs) == FlattenSeq([i \in 1..Len(msgs) |-> Wire(msgs[i])])
Answers(i) == FlattenSeq([k \in 1..i |-> script[k][2]])
EndOf(dir, i) == Len(Wires(IF dir = "client" THEN SubSeq(Said(dir), 1, i) ELSE Answers(i)))

(* whether the connection is something else after the last exchange *)
Upgrades == \/ \E i \in 1..Len(Last(Said("server")).headers) :
                  Last(Said("server")).headers[i].name = "Upgrade: websocket"
            \/ Last(Said("client")).start = "CONNECT" /\ Last(Said("server")).code = 200

Stream(dir) == Wires(Said(dir)) \o IF Upgrades THEN Raw ELSE << >>
Complete(dir, i) == sent[dir] >= EndOf(dir, i)
MayBegin(dir, i) ==
    IF dir = "server" THEN Complete("client", AtMost(i, Len(script)))
    ELSE i = 1 \/ (pipelined /\ i <= Len(script)) \/ Complete("server", i - 1)
Exchange(dir, u) ==
    CHOOSE i \in 1..(Len(script) + 1) :
        /\ i <= Len(script) => u <= EndOf(dir, i)
        /\ i > 1 => u > EndOf(dir, i - 1)

(* a segment never holds the end of a chunked message and what follows it, nor, where *)
(* nothing is reassembled, a part of a line                                           *)
ChunkedEnds(dir) == {Len(Wires(SubSeq(Said(dir), 1, i))) : i \in {k \in 1..Len(Said(dir)) : Chunked(Said(dir)[k])}}
Segments(dir) ==
    {n \in Sizes :
        /\ sent[dir] + n <= Len(Stream(dir))
        /\ \A u \in (sent[dir] + 1)..(sent[dir] + n) : MayBegin(dir, Exchange(dir, u))
        /\ \A e \in ChunkedEnds(dir) : ~(sent[dir] < e /\ e < sent[dir] + n)
        /\ desegment \/ Stream(dir)[sent[dir] + n].kind # "half"}

Init ==
    /\ script \in Scripts
    /\ pipelined \in BOOLEAN /\ desegment \in BOOLEAN
    /\ sent = [dir \in Sides |-> 0]
    /\ frames = << >>
    /\ kept = [dir \in Sides |-> << >>]
    /\ conv = NewConversation
    /\ second = 0

Captured(dir, tvb, d) ==
    /\ frames' = Append(frames, [dir |-> dir, tvb |-> tvb, first |-> d.out, again |-> << >>])
    /\ kept' = [kept EXCEPT ![dir] = d.left]
    /\ conv' = d.conv

Send(dir, n) ==
    /\ second = 0 /\ Len(frames) < MaxFrames
    /\ sent' = [sent EXCEPT ![dir] = @ + n]
    /\ LET tvb == kept[dir] \o SubSeq(Stream(dir), sent[dir] + 1, sent[dir] + n)
       IN  Captured(dir, tvb, dissect_http(tvb, conv, Len(frames) + 1, FALSE))
    /\ UNCHANGED <<script, pipelined, desegment, second>>

Revisited(d) ==
    /\ frames' = [frames EXCEPT ![second + 1].again = d.out]
    /\ conv' = d.conv
Revisit ==
    /\ second < Len(frames)
    /\ second' = second + 1
    /\ Revisited(dissect_http(frames[second + 1].tvb, conv, second + 1, TRUE))
    /\ UNCHANGED <<script, pipelined, desegment, sent, kept>>

Next == Revisit \/ \E dir \in Sides : \E n \in Segments(dir) : Send(dir, n)

Spec == Init /\ [][Next]_vars

-----------------------------------------------------------------------------
(* what a complete message is to be reported as *)
Header(m, name) == \E i \in 1..Len(m.headers) : m.headers[i].name = name
Expected(m) ==
    LET body == FlattenSeq(m.body)
    IN  [type |-> IF m.start \in Requests THEN "REQUEST"
                  ELSE IF m.start \in Notifications THEN "NOTIFICATION" ELSE "RESPONSE",
         code |-> m.code,
         body |-> Bytes(body),
         as |-> IF body = << >> THEN "none"
                ELSE IF Header(m, "Content-Encoding: gzip") THEN "uncompressed"
                ELSE IF Header(m, "Content-Encoding: compress") THEN "data" ELSE "entity"]

Reported(dir) == FlattenSeq([f \in 1..Len(frames) |-> IF frames[f].dir = dir THEN frames[f].first ELSE << >>])
IsMessage(x) == x.type \notin {"WEBSOCKET", "PAYLOAD"}
IsRaw(x) == ~IsMessage(x)
AllSaid(dir) == Len(Wires(Said(dir)))

(* With reassembly every message of a direction is reported once, when it  *)
(* is complete and in order, with its own body however it was cut, chunked *)
(* and encoded, and what follows an upgrade or a CONNECT goes whole to the *)
(* protocol that took over (dissect_http, dissect_http_message,            *)
(* chunked_encoding_dissector).                                            *)
MessagesExact ==
    desegment => \A dir \in Sides :
        LET done == {i \in 1..Len(Said(dir)) : sent[dir] >= Len(Wires(SubSeq(Said(dir), 1, i)))}
            raw == SelectSeq(Reported(dir), IsRaw)
        IN  /\ SelectSeq(Reported(dir), IsMessage) = [i \in 1..Cardinality(done) |-> Expected(Said(dir)[i])]
            /\ sent[dir] >= AllSaid(dir) =>
                  FlattenSeq([i \in 1..Len(raw) |-> raw[i].body]) \o kept[dir]
                      = SubSeq(Stream(dir), AllSaid(dir) + 1, sent[dir])

FramesWith(type) ==
    SelectSeq([f \in 1..Len(frames) |-> f],
              LAMBDA f : \E i \in 1..Len(frames[f].first) : frames[f].first[i].type = type)

(* Without pipelining and interim responses the n-th response found is     *)
(* linked to the n-th request found and to no other (push_req, push_res),  *)
(* whatever the second pass does.                                          *)
ExchangesLinked ==
    (~pipelined /\ \A i \in 1..Len(script) : script[i][1].start \in Requests /\ Len(script[i][2]) = 1) =>
        LET reqs == FramesWith("REQUEST")
            ress == FramesWith("RESPONSE")
        IN  conv.list = [i \in 1..Len(reqs) |->
                            [req |-> reqs[i], res |-> IF i <= Len(ress) THEN ress[i] ELSE 0]]

(* The second pass makes of every frame what the first made of it, though  *)
(* the conversation already knows how the connection ended (startframe).   *)
RevisitAgrees == \A f \in 1..second : frames[f].again = frames[f].first

HttpExact == MessagesExact /\ ExchangesLinked /\ RevisitAgrees
=============================================================================
