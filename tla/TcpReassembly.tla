--------------------------- MODULE TcpReassembly ---------------------------
(***************************************************************************)
(* packet-tcp.c: how the data of one direction of a connection is cut into *)
(* the PDUs of the protocol above, which the segments cut elsewhere.  The  *)
(* frames of a capture are dissected one after the other, and once more in *)
(* a second pass.  A PDU that a segment does not finish is entered in      *)
(* multisegment_pdus under its sequence number, and what belongs to it is  *)
(* gathered under the number of the frame it began in.  Sequence numbers   *)
(* are relative: the first byte of the stream is 1.                        *)
(***************************************************************************)
EXTENDS Integers, SequencesExt, FiniteSetsExt

CONSTANTS
  Streams,      \* what may be sent: [kind, lens], of PDUs with lengths or one up to FIN
  FixedLen,     \* the bytes of a PDU that its length is read from
  MaxSeg,       \* bound on the bytes of a segment
  MaxRepeats,   \* bound on retransmitted segments and keep-alives
  Desegments,   \* the values of tcp_desegment
  ResendsTails, \* a segment that ends in the beginning of a PDU is sent again
  NULL

TcpReassemblyAssumption ==
  /\ FixedLen \in Nat \ {0} /\ MaxSeg \in Nat /\ MaxRepeats \in Nat
  /\ \A s \in Streams : s.kind \in {"pdus", "fin"} /\ \A i \in DOMAIN s.lens : s.lens[i] >= FixedLen

VARIABLES
  stream, desegment,
  sent,     \* the next sequence number of the sender, and whether FIN was sent
  frames,   \* the capture
  flow,     \* multisegment_pdus, the reassembly table, the flags and fin of the flow
  given,    \* by frame, the pieces handed to the dissector of a PDU, as <<from, to>>
  second    \* the same for the second pass, once it has begun

assemblyVars == <<stream, desegment, sent, frames, flow, given, second>>

ONE_MORE_SEGMENT == 1000
UNTIL_FIN == 2000      \* 0x0ffffffe: more than any stream has

Start(i) == FoldLeft(LAMBDA x, j : x + stream.lens[j], 1, [j \in 1..i - 1 |-> j])
Pdu(i)   == <<Start(i), Start(i) + stream.lens[i]>>
Pdus     == {Pdu(i) : i \in DOMAIN stream.lens}
End      == Start(Len(stream.lens) + 1)

----------------------------------------------------------------------------
(* The tables. *)

Put(f, x, v) == [y \in DOMAIN f \cup {x} |-> IF y = x THEN v ELSE f[y]]
lookup32_le(f, x) == LET L == {y \in DOMAIN f : y <= x} IN IF L = {} THEN NULL ELSE Max(L)

NewHead == [got |-> {}, datalen |-> 0, bounded |-> FALSE, done |-> FALSE, partial |-> FALSE, in |-> NULL]
HeadOf(S, first) == IF first \in DOMAIN S.heads THEN S.heads[first] ELSE NewHead

\* A fragment that reaches the end of what was only partly reassembled opens it again; to
\* what is reassembled nothing is added.
Reopened(h, upto) ==
  IF h.done /\ h.partial /\ upto >= h.datalen THEN [NewHead EXCEPT !.got = h.got] ELSE h
Added(h, off, len, more, f) ==
  LET last    == ~more /\ ~h.bounded
      datalen == IF last THEN off + len ELSE h.datalen
      got     == h.got \cup off..off + len - 1
      whole   == (h.bounded \/ last) /\ 0..datalen - 1 \subseteq got
  IN IF h.done THEN h
     ELSE [h EXCEPT !.got = got, !.datalen = datalen, !.bounded = h.bounded \/ last,
                    !.done = whole, !.in = IF whole THEN f ELSE NULL]
\* In the second pass nothing is added.
fragment_add(S, g, first, off, len, more) ==
  IF g.visited THEN S
  ELSE [S EXCEPT !.heads = Put(S.heads, first,
          Added(Reopened(HeadOf(S, first), off + len), off, len, more, g.frame))]

\* get_acked flags: a segment of at most a byte just before the expected one is a keep-alive.
IsKeepAlive(seq, len) == len \in {0, 1} /\ seq = sent.seq + (IF sent.fin THEN 1 ELSE 0) - 1

----------------------------------------------------------------------------
(* The dissector above, given the bytes from lo up to hi: what it hands    *)
(* on, where it stopped (off) and how much more it needs; with track, how  *)
(* far behind hi the PDU it was given ends.                                *)

Result(pieces, off, need, track) == [pieces |-> pieces, off |-> off, need |-> need, track |-> track]

\* The length found at x; a place where no PDU begins has none.
PduLen(x) == IF \E p \in Pdus : p[1] = x THEN LET p == CHOOSE p \in Pdus : p[1] = x IN p[2] - x
             ELSE FixedLen

\* Where it may not ask for more, a header that is cut short and what follows a PDU that
\* is cut short raise an exception.
RECURSIVE dissect_from(_, _, _, _, _)
dissect_from(pieces, lo, at, hi, can) ==
  IF hi - at < FixedLen
  THEN IF at < hi /\ can THEN Result(pieces, at - lo, ONE_MORE_SEGMENT, 0) ELSE Result(pieces, 0, 0, 0)
  ELSE LET lacks == PduLen(at) - (hi - at) IN
       IF lacks <= 0 THEN dissect_from(Append(pieces, <<at, hi + lacks>>), lo, hi + lacks, hi, can)
       ELSE IF can THEN Result(pieces, at - lo, lacks, 0)
       ELSE Result(Append(pieces, <<at, hi>>), 0, 0, lacks)
tcp_dissect_pdus(lo, hi, can) == dissect_from(<<>>, lo, lo, hi, can)

UntilFin(lo, hi, can) == IF can THEN Result(<<>>, 0, UNTIL_FIN, 0) ELSE Result(<<<<lo, hi>>>>, 0, 0, 0)

decode_tcp_ports(g, lo, hi, can) ==
  IF g.keepalive THEN Result(<<>>, 0, 0, 0)
  ELSE IF stream.kind = "pdus" THEN tcp_dissect_pdus(lo, hi, can) ELSE UntilFin(lo, hi, can)

Give(S, r) == [S EXCEPT !.given = @ \o r.pieces]

----------------------------------------------------------------------------
(* Without desegmentation: where a PDU ends is remembered, so that the     *)
(* next one is found.                                                      *)

\* Mutant: what is behind the end of a PDU in the segment is skipped with it.
ScanSkipsSegment(S, g) ==
  LET at == lookup32_le(S.msps, g.seq - 1) IN
  IF at = NULL \/ g.seq >= S.msps[at].nxtpdu THEN g.seq ELSE NULL
scan_for_next_pdu(S, g) ==
  LET at == lookup32_le(S.msps, g.seq - 1) IN
  IF at = NULL THEN g.seq
  ELSE IF g.hi <= S.msps[at].nxtpdu THEN NULL
  ELSE Max({g.seq, S.msps[at].nxtpdu})

Msp(nxtpdu, frame, entire) == [nxtpdu |-> nxtpdu, first_frame |-> frame, entire |-> entire]
pdu_store_sequencenumber_of_next_pdu(S, seq, msp) == [S EXCEPT !.msps = Put(S.msps, seq, msp)]

Payload(S, g, r) ==
  IF r.track > 0 /\ ~g.visited
  THEN pdu_store_sequencenumber_of_next_pdu(Give(S, r), g.seq, Msp(g.hi + r.track, g.frame, FALSE))
  ELSE Give(S, r)
PayloadFrom(S, g, from) == IF from = NULL THEN S ELSE Payload(S, g, decode_tcp_ports(g, from, g.hi, FALSE))
process_tcp_payload(S, g) == PayloadFrom(S, g, scan_for_next_pdu(S, g))

----------------------------------------------------------------------------
(* With desegmentation. *)

\* Mutant: what a frame needs is entered in the second pass too.
MustInEveryPass(S, g, seq, need) ==
  pdu_store_sequencenumber_of_next_pdu([S EXCEPT !.until_fin = @ \/ need = UNTIL_FIN], seq,
    Msp(IF need = ONE_MORE_SEGMENT THEN g.hi + 1 ELSE g.hi + need, g.frame, need = ONE_MORE_SEGMENT))

\* A PDU begins at seq and needs more than the segment has.
must_desegment(S, g, seq, need) ==
  LET one == need = ONE_MORE_SEGMENT IN
  IF g.visited THEN S
  ELSE fragment_add(
         pdu_store_sequencenumber_of_next_pdu([S EXCEPT !.until_fin = @ \/ need = UNTIL_FIN], seq,
           Msp(g.hi + (IF one THEN 1 ELSE need), g.frame, one)),
         g, g.frame, 0, g.hi - seq, TRUE)

\* Mutant: what asked for one more segment asks for the next one too.
TakeInAsksOn(S, g, at, seq, len) ==
  fragment_add(S, g, S.msps[at].first_frame, seq - at, len, g.hi < S.msps[at].nxtpdu)

\* The PDU at msp takes len bytes of the segment from seq; when the dissector asked for a
\* whole segment, it has had it.
TakeIn(S, g, at, seq, len) ==
  LET msp == S.msps[at]
      had == msp.entire /\ ~g.visited
  IN [fragment_add(S, g, msp.first_frame, seq - at, len, g.hi < msp.nxtpdu) EXCEPT
        !.msps[at].entire = @ /\ ~had, !.msps[at].nxtpdu = IF had THEN g.hi ELSE @]

\* Mutant: what was gathered is not opened again.
AskAgainClosed(S, g, at, seq, len, need) ==
  IF need = UNTIL_FIN THEN [S EXCEPT !.until_fin = TRUE]
  ELSE IF need = ONE_MORE_SEGMENT THEN [S EXCEPT !.msps[at].nxtpdu = g.hi + 1, !.msps[at].entire = TRUE]
  ELSE [S EXCEPT !.msps[at].nxtpdu = seq + len + need]

\* What was gathered is not enough: the end of the PDU moves.
ask_again(S, g, at, seq, len, need) ==
  LET A == [S EXCEPT !.heads[S.msps[at].first_frame].partial = TRUE]
  IN IF need = UNTIL_FIN THEN [A EXCEPT !.until_fin = TRUE]
     ELSE IF need = ONE_MORE_SEGMENT THEN [A EXCEPT !.msps[at].nxtpdu = g.hi + 1, !.msps[at].entire = TRUE]
     ELSE [A EXCEPT !.msps[at].nxtpdu = seq + len + need]

\* What the segment is dissected from next: where a PDU that ends in it is followed by
\* another one, the place behind it.
GoOn(S, g, at, len) ==
  [S EXCEPT !.todo = IF S.msps[at].nxtpdu \in g.seq..g.hi - 1 /\ len > 0 THEN S.msps[at].nxtpdu ELSE NULL]

\* r is what the dissector made of the whole PDU at msp, of datalen bytes: nothing is
\* lacking, or a later PDU begins in the segment, or what was gathered is not enough.
complete(S, g, at, seq, len, datalen, r) ==
  IF r.need # 0 /\ r.off <= datalen - len
  THEN [ask_again(S, g, at, seq, len, r.need) EXCEPT !.todo = IF g.hi > seq + len THEN seq + len ELSE NULL]
  ELSE GoOn(IF r.need = 0 THEN S ELSE must_desegment(S, g, g.hi - (datalen - r.off), r.need), g, at, len)

WholePdu(S, g, at, seq, len, datalen, r) == complete(Give(S, r), g, at, seq, len, datalen, r)

continued(S, g, at, seq, len) ==
  LET head == HeadOf(S, S.msps[at].first_frame) IN
  IF head.done /\ head.in = g.frame
  THEN WholePdu(S, g, at, seq, len, head.datalen, decode_tcp_ports(g, at, at + head.datalen, TRUE))
  ELSE GoOn(S, g, at, len)

\* No PDU is known to reach up to seq: the dissector gets the rest of the segment.
first_seen(S, g, seq, r) ==
  IF r.need = 0 THEN S ELSE must_desegment(S, g, seq + r.off, r.need)
FirstSeen(S, g, seq, r) == first_seen(Give(S, r), g, seq, r)

\* One round at seq, with the PDU that begins at or before it.
TakenIn(S, g, at, seq, len) == continued(TakeIn(S, g, at, seq, len), g, at, seq, len)
desegment_at(S, g, seq, at) ==
  IF seq \in DOMAIN S.msps THEN S
  ELSE IF at # NULL /\ S.msps[at].nxtpdu > seq
       THEN TakenIn(S, g, at, seq,
              IF S.msps[at].entire THEN g.hi - seq ELSE Min({g.hi, S.msps[at].nxtpdu}) - seq)
  ELSE FirstSeen(S, g, seq, decode_tcp_ports(g, seq, g.hi, TRUE))

RECURSIVE desegment_tcp(_, _)
desegment_tcp(S, g) ==
  IF S.todo = NULL THEN S
  ELSE desegment_tcp(desegment_at([S EXCEPT !.todo = NULL], g, S.todo, lookup32_le(S.msps, S.todo - 1)), g)

----------------------------------------------------------------------------
\* What is to be dissected as data, from todo.
dissect_tcp_payload(S, g) ==
  IF S.todo = NULL THEN S
  ELSE IF desegment THEN desegment_tcp(S, g) ELSE [process_tcp_payload(S, g) EXCEPT !.todo = NULL]

\* The FIN ends the one PDU of a stream of unknown length.
EndsStream(S, g) == g.fin /\ S.until_fin /\ S.fin \in {NULL, g.frame}
FinAdded(S, g, at) == fragment_add(S, g, S.msps[at].first_frame, g.seq - at, g.hi - g.seq, FALSE)

\* The data of the segment, if it has any, is to be dissected from its beginning.
AsData(S, g) == [S EXCEPT !.todo = IF g.hi > g.seq THEN g.seq ELSE NULL]

\* What is complete with the FIN is dissected, and nothing else of the segment.
dissect_fin(S, g, at) ==
  LET head == HeadOf(S, S.msps[at].first_frame) IN
  IF head.done THEN Give(S, decode_tcp_ports(g, at, at + head.datalen, FALSE)) ELSE AsData(S, g)

dissect_ends(S, g, at) ==
  IF ~EndsStream(S, g) THEN AsData(S, g)
  ELSE IF at = NULL THEN AsData([S EXCEPT !.fin = g.frame], g)
  ELSE dissect_fin(FinAdded([S EXCEPT !.fin = g.frame], g, at), g, at)

dissect_tcp(S, g) == dissect_tcp_payload(dissect_ends(S, g, lookup32_le(S.msps, g.seq - 1)), g)

----------------------------------------------------------------------------
(* The capture. *)

Init ==
  /\ stream \in Streams /\ desegment \in Desegments /\ (stream.kind = "fin" => desegment)
  /\ sent = [seq |-> 1, fin |-> FALSE]
  /\ frames = <<>> /\ given = <<>> /\ second = <<>>
  /\ flow = [msps |-> <<>>, heads |-> <<>>, until_fin |-> FALSE, fin |-> NULL, given |-> <<>>, todo |-> NULL]

Frame(seq, hi, fin, keepalive, repeated) ==
  [frame |-> Len(frames) + 1, visited |-> FALSE, seq |-> seq, hi |-> hi,
   fin |-> fin, keepalive |-> keepalive, repeated |-> repeated]

\* The next segment of the sender.  FIN comes with the last byte or after it, but not with
\* the first; where nothing is desegmented no header is cut.
CutsHeader(hi) == \E p \in Pdus : hi \in p[1] + 1..p[1] + FixedLen - 1
NewSegments ==
  IF sent.fin THEN {}
  ELSE {g \in {Frame(sent.seq, hi, fin, FALSE, FALSE) :
               hi \in sent.seq..Min({sent.seq + MaxSeg, End}), fin \in BOOLEAN} :
          /\ g.hi > g.seq \/ g.fin
          /\ g.fin => g.hi = End /\ g.seq > 1
          /\ desegment \/ ~CutsHeader(g.hi)}

\* A PDU begins behind the first byte of the segment, whose dissector finds it on its own.
BeginsPdu(g) ==
  LET at == lookup32_le(flow.msps, g.seq) IN
  /\ desegment /\ DOMAIN flow.msps \cap g.seq + 1..g.hi - 1 # {}
  /\ at = NULL \/ flow.msps[at].nxtpdu <= g.seq

\* A segment again, or the last byte of what was sent.
Repeats == Cardinality({f \in DOMAIN frames : frames[f].repeated})
Retransmissions ==
  IF Repeats >= MaxRepeats THEN {}
  ELSE {Frame(g.seq, g.hi, g.fin, ~g.fin /\ IsKeepAlive(g.seq, g.hi - g.seq), TRUE) :
          g \in {g \in ToSet(frames) : ~g.repeated /\ (ResendsTails \/ ~BeginsPdu(g))}}
KeepAlives ==
  IF Repeats < MaxRepeats /\ sent.seq > 1 /\ ~sent.fin
  THEN {Frame(sent.seq - 1, sent.seq, FALSE, TRUE, TRUE)} ELSE {}

\* A frame that was dissected: the sender has sent it, and the capture has it.
Captured(S, g) ==
  /\ ~g.visited
  /\ sent' = IF g.repeated THEN sent ELSE [seq |-> g.hi, fin |-> g.fin]
  /\ frames' = Append(frames, g)
  /\ given' = Append(given, S.given)
  /\ UNCHANGED second

\* The second pass.
Revisits == IF sent.fin /\ Len(second) < Len(frames)
            THEN {[frames[Len(second) + 1] EXCEPT !.visited = TRUE]} ELSE {}
Revisited(S, g) ==
  /\ g.visited
  /\ second' = Append(second, S.given)
  /\ UNCHANGED <<sent, frames, given>>

Dissect(S, g) ==
  /\ flow' = [S EXCEPT !.given = <<>>]
  /\ Captured(S, g) \/ Revisited(S, g)
  /\ UNCHANGED <<stream, desegment>>

FirstPass == IF second = <<>> THEN NewSegments \cup Retransmissions \cup KeepAlives ELSE {}

Next == \E g \in FirstPass \cup Revisits : Dissect(dissect_tcp(flow, g), g)

Spec == Init /\ [][Next]_assemblyVars

----------------------------------------------------------------------------
\* What a piece may be: a PDU, or without desegmentation as much of it as the segment has.
Piece(p) == \E i \in DOMAIN stream.lens : p[1] = Pdu(i)[1] /\ (desegment => p = Pdu(i)) /\ p[2] <= Pdu(i)[2]
NewPieces == FoldLeft(LAMBDA ps, f : ps \o IF frames[f].repeated THEN <<>> ELSE given[f],
                      <<>>, [f \in DOMAIN frames |-> f])
Reached(i) == IF desegment THEN sent.seq >= Pdu(i)[2] ELSE sent.seq > Pdu(i)[1]

\* Wherever the segments are cut and whichever are sent again, the dissector is given the
\* PDUs of the stream, each as soon as it is there, in their order and once; what a segment
\* that is sent again makes it see is a PDU too, and no part of one.  Seen again in the
\* second pass, a frame shows what it showed first, though the tables now hold what the
\* later frames did to them.
PdusExact ==
  /\ \A f \in DOMAIN given : \A i \in DOMAIN given[f] : Piece(given[f][i])
  /\ stream.kind = "pdus" =>
       /\ \A j \in DOMAIN NewPieces : NewPieces[j][1] = Start(j)
       /\ \A i \in DOMAIN stream.lens : Reached(i) => i \in DOMAIN NewPieces
  /\ stream.kind = "fin" => NewPieces = IF sent.fin THEN <<Pdu(1)>> ELSE <<>>
  /\ \A f \in DOMAIN second : second[f] = given[f]

\* Lines 1750-1758: a retransmission is not added to the list again, or "subsequent
\* lookups would find this retransmission instead of the original transmission (breaking
\* desegmentation if we'd already linked other segments to the original
\* transmission's entry)".
NotAddedAgain ==
  [][\A x \in DOMAIN flow.msps : flow'.msps[x].first_frame = flow.msps[x].first_frame]_assemblyVars
=============================================================================
