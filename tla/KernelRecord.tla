---------------------------- MODULE KernelRecord ----------------------------
(***************************************************************************)
(* The record codec between the kernel module and user space               *)
(* (csp_kernel_record.c): one side appends typed fields between            *)
(* record_append_start and record_append_end, the other gets fields of the *)
(* same types in the same order.  A byte has ByteBits bits (8 in the code);*)
(* an int has 4 bytes.                                                     *)
(***************************************************************************)
EXTENDS Integers, SequencesExt

CONSTANTS
  ByteBits,    \* bits of a byte
  Room,        \* bytes of the buffer, a __u16
  Values,      \* what may be written, by kind: [kinds -> sets]
  MaxFields,   \* bound on the fields of a record
  MaxRecords   \* bound on the records of a message

VARIABLES
  buf,         \* the bytes of the buffer
  w,           \* the appending csp_record: [pos, hdr, size]
  r,           \* the getting csp_record: [pos, end, hdr, size]
  phase,       \* "append", "get", or "failed" once record_get_start refused
  sent,        \* the fields of each record (history)
  got          \* what was got of each record, and whether record_get_end took it (history)

recordVars == <<buf, w, r, phase, sent, got>>

NoHdr == -1
HdrLen == 4                      \* sizeof(struct csp_msg_hdr): mark, padding, size
Mark == 2^ByteBits - 3           \* RECORD_START_MARK

Init ==
  /\ buf = [i \in 0..Room - 1 |-> 0]
  /\ w = [pos |-> 0, hdr |-> NoHdr, size |-> 0]
  /\ r = [pos |-> 0, end |-> 0, hdr |-> NoHdr, size |-> 0]
  /\ phase = "append" /\ sent = <<>> /\ got = <<>>

----------------------------------------------------------------------------
(* Numbers. *)

Numbers ==
  [bool   |-> [size |-> 1, signed |-> FALSE],
   int8   |-> [size |-> 1, signed |-> TRUE],  uint8  |-> [size |-> 1, signed |-> FALSE],
   int16  |-> [size |-> 2, signed |-> TRUE],  uint16 |-> [size |-> 2, signed |-> FALSE],
   int32  |-> [size |-> 4, signed |-> TRUE],  uint32 |-> [size |-> 4, signed |-> FALSE],
   int64  |-> [size |-> 8, signed |-> TRUE],  uint64 |-> [size |-> 8, signed |-> FALSE]]

\* x in a type of n bytes.
Wrap(x, n, signed) ==
  LET bits == ByteBits * n   u == x % 2^bits IN
  IF signed /\ u >= 2^(bits - 1) THEN u - 2^bits ELSE u

\* Most significant byte first.
VALUE_APPEND(v, n) == [i \in 1..n |-> (v \div 2^(ByteBits * (n - i))) % 2^ByteBits]

\* A byte is shifted as an int: a shift by the width of an int or more is undefined, and
\* the build masks it or yields 0.
Shifted(b, s, build) ==
  IF s < 4 * ByteBits THEN Wrap(b * 2^s, 4, TRUE)
  ELSE IF build = "masked" THEN Wrap(b * 2^(s % (4 * ByteBits)), 4, TRUE) ELSE 0
GetLittleEndian(bytes, k, build) ==
  Wrap(FoldLeftDomain(LAMBDA sum, i : sum + Shifted(bytes[i], ByteBits * (i - 1), build), 0, bytes),
       k.size, k.signed)
VALUE_GET(bytes, k, build) ==
  Wrap(FoldLeftDomain(LAMBDA sum, i : sum + Shifted(bytes[i], ByteBits * (k.size - i), build), 0, bytes),
       k.size, k.signed)

----------------------------------------------------------------------------
(* Appending. *)

Bytes(m, pos, n) == [i \in 1..n |-> IF pos + i - 1 < Room THEN m[pos + i - 1] ELSE 0]
Write(m, pos, bytes) ==
  [i \in DOMAIN m |-> IF i \in pos..pos + Len(bytes) - 1 THEN bytes[i - pos + 1] ELSE m[i]]
BUF_FULL(n) == w.pos + n > Room

record_append_start ==
  /\ phase = "append" /\ w.hdr = NoHdr /\ Len(sent) < MaxRecords /\ ~BUF_FULL(HdrLen)
  /\ buf' = Write(buf, w.pos, <<Mark, buf[w.pos + 1], 0, 0>>)
  /\ w' = [pos |-> w.pos + HdrLen, hdr |-> w.pos, size |-> HdrLen]
  /\ sent' = Append(sent, <<>>)
  /\ UNCHANGED <<r, phase, got>>

AppendUncounted(bytes, counted) ==
  /\ ~BUF_FULL(Len(bytes))
  /\ buf' = Write(buf, w.pos, bytes)
  /\ w' = [w EXCEPT !.pos = @ + Len(bytes)]
append_bytes_buf(bytes, counted) ==
  /\ ~BUF_FULL(Len(bytes))
  /\ buf' = Write(buf, w.pos, bytes)
  /\ w' = [w EXCEPT !.pos = @ + Len(bytes), !.size = @ + counted]

\* A string goes with its terminator; the length of a struct is counted twice
\* (record_append_uint32 counts it, and sz).
AppendField(f) ==
  LET n == Len(f.v) IN
  CASE f.kind = "string" -> append_bytes_buf(f.v \o <<0>>, n + 1)
    [] f.kind = "struct" -> append_bytes_buf(VALUE_APPEND(n, 4) \o f.v, n + 4 + 4)
    [] OTHER -> append_bytes_buf(VALUE_APPEND(f.v, Numbers[f.kind].size), Numbers[f.kind].size)

record_append(f) ==
  /\ phase = "append" /\ w.hdr # NoHdr /\ Len(Last(sent)) < MaxFields
  /\ AppendField(f)
  /\ sent' = [sent EXCEPT ![Len(sent)] = Append(@, f)]
  /\ UNCHANGED <<r, phase, got>>

\* record_size is a __u16.
record_append_end ==
  /\ phase = "append" /\ w.hdr # NoHdr
  /\ LET size == w.size % 2^(2 * ByteBits) IN
       /\ buf' = Write(buf, w.hdr + 2, <<size % 2^ByteBits, size \div 2^ByteBits>>)
       /\ r' = [r EXCEPT !.end = @ + size]
  /\ w' = [w EXCEPT !.hdr = NoHdr]
  /\ UNCHANGED <<phase, sent, got>>

\* The message goes over netlink, as long as the sizes of its records say.
Send ==
  /\ phase = "append" /\ w.hdr = NoHdr /\ sent # <<>>
  /\ phase' = "get"
  /\ UNCHANGED <<buf, w, r, sent, got>>

----------------------------------------------------------------------------
(* Getting. *)

SizeAt(hdr) == buf[hdr + 2] + 2^ByteBits * buf[hdr + 3]

record_get_start ==
  /\ phase = "get" /\ r.hdr = NoHdr /\ Len(got) < Len(sent) /\ r.pos + HdrLen <= Room
  /\ IF buf[r.pos] = Mark /\ SizeAt(r.pos) > 0
     THEN /\ r' = [r EXCEPT !.hdr = r.pos, !.size = HdrLen, !.pos = @ + HdrLen]
          /\ got' = Append(got, [fields |-> <<>>, ended |-> FALSE])
          /\ UNCHANGED phase
     ELSE phase' = "failed" /\ UNCHANGED <<r, got>>
  /\ UNCHANGED <<buf, w, sent>>

GET_CHECK(n) == r.size + n <= SizeAt(r.hdr) /\ r.pos + n <= r.end

strlen(pos) ==
  LET Nul == {i \in pos..Room - 1 : buf[i] = 0} IN
  IF Nul = {} THEN Room - pos + 1 ELSE Min(Nul) - pos

\* What a get of this kind takes in all, and what it returns; a struct is checked for
\* its length and then for its content.
Taken(kind) ==
  CASE kind = "string" -> strlen(r.pos)
    [] kind = "struct" -> 4 + VALUE_GET(Bytes(buf, r.pos, 4), Numbers.uint32, "masked")
    [] OTHER -> Numbers[kind].size
Returned(kind, build) ==
  CASE kind = "string" -> Bytes(buf, r.pos, Taken(kind))
    [] kind = "struct" -> Bytes(buf, r.pos + 4, Taken(kind) - 4)
    [] OTHER -> VALUE_GET(Bytes(buf, r.pos, Taken(kind)), Numbers[kind], build)

Take(n, v) ==
  /\ r' = [r EXCEPT !.pos = @ + n, !.size = @ + n]
  /\ got' = [got EXCEPT ![Len(got)].fields = Append(@, v)]
  /\ UNCHANGED <<buf, w, phase, sent>>

Wanted == sent[Len(got)][Len(got[Len(got)].fields) + 1].kind
Remaining == r.hdr # NoHdr /\ Len(got[Len(got)].fields) < Len(sent[Len(got)])

\* A get that GET_CHECK refuses returns -1 and changes nothing, but for the length of a
\* struct, which is taken by then.
record_get(build) ==
  /\ phase = "get" /\ Remaining
  /\ LET n == Taken(Wanted) IN
     IF GET_CHECK(n) THEN Take(n, [ok |-> TRUE, v |-> Returned(Wanted, build)])
     ELSE Take(IF Wanted = "struct" /\ GET_CHECK(4) THEN 4 ELSE 0, [ok |-> FALSE])

\* record_get_skip_bytes over a number.
record_get_skip ==
  /\ phase = "get" /\ Remaining /\ Wanted \in DOMAIN Numbers
  /\ LET n == Numbers[Wanted].size IN Take(IF GET_CHECK(n) THEN n ELSE 0, [ok |-> GET_CHECK(n)])

\* record_get_string_copy into a buffer too short: -1, and the string is passed over.
record_get_string_copy ==
  /\ phase = "get" /\ Remaining /\ Wanted = "string" /\ strlen(r.pos) > 0
  /\ Take(IF GET_CHECK(strlen(r.pos)) THEN strlen(r.pos) ELSE 0, [ok |-> FALSE])

\* When it returns -1 the caller goes on all the same.
record_get_end ==
  /\ phase = "get" /\ r.hdr # NoHdr /\ ~Remaining
  /\ got' = [got EXCEPT ![Len(got)].ended = (r.size = SizeAt(r.hdr))]
  /\ r' = [r EXCEPT !.hdr = NoHdr, !.size = 0]
  /\ UNCHANGED <<buf, w, phase, sent>>

Next ==
  \/ record_append_start \/ record_append_end \/ Send
  \/ \E kind \in DOMAIN Values : \E v \in Values[kind] : record_append([kind |-> kind, v |-> v])
  \/ record_get_start \/ record_get_skip \/ record_get_string_copy \/ record_get_end
  \/ \E build \in {"masked", "zero"} : record_get(build)

Spec == Init /\ [][Next]_recordVars

----------------------------------------------------------------------------
Strings(rec) == {i \in DOMAIN rec : rec[i].kind = "string"}
\* Numbers of eight bytes come back only when they fit into a positive int.
Exact(f) == f.kind \in {"int64", "uint64"} => f.v \in 0..2^(4 * ByteBits - 1) - 1

\* Up to the first string of a message, whose terminator record_get_string leaves behind,
\* what is got is what was appended: every field, in every record of the message, after
\* structs and skipped fields, with negative and largest values; a record of numbers ends
\* where it should, and nothing is got from behind what was sent.
ReadBack ==
  /\ r.pos <= r.end
  /\ \A k \in DOMAIN got :
       (\A j \in 1..k - 1 : Strings(sent[j]) = {}) =>
         /\ \A i \in DOMAIN got[k].fields :
              (\A j \in 1..i - 1 : sent[k][j].kind # "string") =>
                LET g == got[k].fields[i] IN
                /\ g.ok \/ sent[k][i].kind = "string"
                /\ (g.ok /\ "v" \in DOMAIN g /\ Exact(sent[k][i])) => g.v = sent[k][i].v
         /\ (r.hdr = NoHdr \/ k < Len(got)) =>
              got[k].ended = (\A i \in DOMAIN sent[k] : sent[k][i].kind \in DOMAIN Numbers)
  /\ phase = "failed" => \E k \in DOMAIN got : Strings(sent[k]) # {}
=============================================================================
