---------------------------- MODULE TcpAnalysis ----------------------------
(***************************************************************************)
(* packet-tcp.c: tcp_analyze_sequence_number, which follows the sequence    *)
(* and acknowledgment numbers of the two flows of a connection and flags   *)
(* what it sees.  It sees the segments where they are captured; some it    *)
(* misses, and some are lost behind the capture and sent again.            *)
(***************************************************************************)
EXTENDS Integers, SequencesExt, FiniteSetsExt

CONSTANTS
  W,             \* the width of sequence numbers
  Isns,          \* by host, its initial sequence number
  MaxSend,       \* by host, bound on the bytes it sends
  Lens,          \* the lengths of segments with data; one byte is taken for a probe when it
                 \* crosses the announcement of a closed window
  Scales,        \* the window scales a SYN may offer, -1 for none
  Windows,       \* the windows a host may advertise
  MaxMissed, MaxDrops, MaxAcks, MaxProbes,  \* bounds on what goes wrong, pure ACKs and probes
  ProbeAccepted, \* a receiver takes the byte of a zero window probe
  MeetsZero      \* a segment may end where the sequence number is 0

TcpAnalysisAssumption ==
  /\ W \in Nat \ {0} /\ Isns \in [{"client", "server"} -> 1..2^W - 1]
  /\ MaxSend \in [{"client", "server"} -> 0..2^(W - 1) - 2]

VARIABLES
  flow,       \* by host, tcp_flow_t of what it sends
  snd, una,   \* by host: the next byte it sends, the first that is not acknowledged
  rcv, win,   \* by host: the next byte it waits for, the window it advertises
  peerWin,    \* by host: the window it was last told
  net,        \* by host: its segments that were captured or missed, and not delivered
  seen,       \* history: by host, the bytes that were captured
  ackSeen,    \* history: by host, the highest acknowledgment of its bytes that was captured
  reported,   \* history: by host, the place up to which a loss was reported
  reports,    \* history: the reports of a loss when nothing was missed
  offered,    \* history: by host, the window scale its SYN offered
  missed, drops, acks, probes

analysisVars == <<flow, snd, una, rcv, win, peerWin, net, seen, ackSeen, reported, reports,
                  offered, missed, drops, acks, probes>>

Hosts == {"client", "server"}
Peer(h) == CHOOSE p \in Hosts : p # h
Mod == 2^W

\* A host counts its bytes from 0, the SYN; 0 as a sequence number means none.
SeqNo(h, pos) == (Isns[h] + pos) % Mod
GT_SEQ(x, y) == (x - y) % Mod \in 1..Mod \div 2 - 1
LT_SEQ(x, y) == GT_SEQ(y, x)
LE_SEQ(x, y) == x = y \/ LT_SEQ(x, y)

----------------------------------------------------------------------------
(* The analysis of a segment p = [seq, len, ack, win, flags]: F is the     *)
(* flow of its sender, R the other.                                        *)

NoFlow == [base_seq |-> 0, nextseq |-> 0, maxseqtobeacked |-> 0, window |-> -1, win_scale |-> -1,
           lastack |-> 0, dupacknum |-> 0, lastflags |-> {}, segments |-> {}, valid_bif |-> TRUE]

Plain(p) == p.flags \cap {"syn", "fin", "rst"} = {}
Counts(p) == p.len > 0 \/ p.flags \cap {"syn", "fin"} # {}

BasesKnown(F, R, p) ==
  [F |-> IF F.base_seq # 0 THEN F
         ELSE [F EXCEPT !.base_seq = IF "syn" \in p.flags THEN p.seq ELSE (p.seq - 1) % Mod],
   R |-> IF "ack" \notin p.flags THEN R
         ELSE [R EXCEPT !.base_seq = IF @ = 0 THEN (p.ack - 1) % Mod ELSE @, !.valid_bif = TRUE]]

ZeroWindowProbe(F, R, p) == p.len = 1 /\ p.seq = F.nextseq /\ R.window = 0
LostPacket(F, p) == F.nextseq # 0 /\ GT_SEQ(p.seq, F.nextseq) /\ "rst" \notin p.flags
KeepAlive(F, p) == p.len \in {0, 1} /\ p.seq = (F.nextseq - 1) % Mod /\ Plain(p)
SameAgain(F, p) == p.len = 0 /\ p.seq = F.nextseq /\ p.ack = F.lastack /\ Plain(p)
WindowUpdate(F, p) == SameAgain(F, p) /\ p.win \notin {0, F.window}
Scaled(R) == IF R.win_scale = -2 THEN R.window ELSE R.window * 2^R.win_scale
WindowFull(R, p) ==
  p.len > 0 /\ R.win_scale # -1 /\ (p.seq + p.len) % Mod = (R.lastack + Scaled(R)) % Mod /\ Plain(p)
RepeatsWindow(F, p) == SameAgain(F, p) /\ p.win = F.window

\* The three kinds of repeated acknowledgment, the first that applies.
RepeatFlag(F, R, p) ==
  IF ~RepeatsWindow(F, p) THEN {}
  ELSE IF p.win # 0 /\ "keep_alive" \in R.lastflags THEN {"keep_alive_ack"}
  ELSE IF p.win = 0 /\ "zero_window_probe" \in R.lastflags THEN {"zero_window_probe_ack"}
  ELSE IF p.win # 0 THEN {"duplicate_ack"} ELSE {}

If(b, flag) == IF b THEN {flag} ELSE {}
FwdFlags(F, R, p) ==
  IF ZeroWindowProbe(F, R, p) THEN {"zero_window_probe"}
  ELSE If(p.win = 0 /\ Plain(p), "zero_window") \cup If(LostPacket(F, p), "lost_packet")
         \cup If(KeepAlive(F, p), "keep_alive") \cup If(WindowUpdate(F, p), "window_update")
         \cup If(WindowFull(R, p), "window_full") \cup RepeatFlag(F, R, p)

AckLost(R, p) == R.maxseqtobeacked # 0 /\ GT_SEQ(p.ack, R.maxseqtobeacked) /\ "ack" \in p.flags

\* A fast retransmission and a segment out of order are told from a retransmission by the
\* time, and nothing else depends on which it is.
Retransmission(F, p, flags) ==
  Counts(p) /\ F.nextseq # 0 /\ LT_SEQ(p.seq, F.nextseq) /\ "keep_alive" \notin flags

NextSeq(p) == (p.seq + p.len + (IF p.flags \cap {"syn", "fin"} # {} THEN 1 ELSE 0)) % Mod

\* Mutant: the byte of a probe counts as sent.
AdvanceOverProbes(F, p, flags) ==
  LET next == IF F.nextseq = 0 \/ GT_SEQ(NextSeq(p), F.nextseq) THEN NextSeq(p) ELSE F.nextseq
  IN [F EXCEPT !.nextseq = next,
               !.maxseqtobeacked = IF @ \in {0, p.seq} THEN next ELSE @,
               !.segments = IF Counts(p) THEN @ \cup {[seq |-> p.seq, nextseq |-> NextSeq(p)]} ELSE @]

Advance(F, p, flags) ==
  LET probe == "zero_window_probe" \in flags
      further == ~probe /\ (F.nextseq = 0 \/ GT_SEQ(NextSeq(p), F.nextseq))
      next  == IF further THEN NextSeq(p) ELSE F.nextseq
  IN [F EXCEPT !.nextseq = next,
               !.maxseqtobeacked = IF ~probe /\ @ \in {0, p.seq} THEN next ELSE @,
               !.segments = IF Counts(p) THEN @ \cup {[seq |-> p.seq, nextseq |-> NextSeq(p)]} ELSE @]

\* Mutant: a segment that is acknowledged in part stays as it is.
UnackedWhole(segments, ack) == {t \in segments : GT_SEQ(t.nextseq, ack)}

\* What is acknowledged goes, what is acknowledged in part becomes shorter.
Unacked(segments, ack) ==
  {[s EXCEPT !.seq = IF GT_SEQ(ack, @) THEN ack ELSE @] : s \in {t \in segments : GT_SEQ(t.nextseq, ack)}}

\* A SYN: the scale it offers is stored, then verify_tcp_window_scaling: a host that
\* offers none takes back the other one's offer.
Offered(F, p) == IF "syn" \in p.flags /\ p.scale # -1 THEN [F EXCEPT !.win_scale = p.scale] ELSE F
Unscaled(F) == [F EXCEPT !.win_scale = -2]
Analysed(F, R) == [F |-> F, R |-> R, flags |-> {}]

\* Mutant: the answer without a scale does not take back the other side's.
VerifyOneSide(F, R, p) ==
  IF "syn" \in p.flags /\ F.win_scale = -1 THEN Analysed(Unscaled(F), R)
  ELSE IF {"syn", "ack"} \subseteq p.flags /\ R.win_scale = -2 THEN Analysed(Unscaled(F), R)
  ELSE Analysed(F, R)

verify_tcp_window_scaling(F, R, p) ==
  IF "syn" \in p.flags /\ F.win_scale = -1 THEN Analysed(Unscaled(F), Unscaled(R))
  ELSE IF {"syn", "ack"} \subseteq p.flags /\ R.win_scale = -2 THEN Analysed(Unscaled(F), R)
  ELSE Analysed(F, R)

\* What is kept of the segment, with all the flags it got.
Kept(F, R, p, flags) ==
  [verify_tcp_window_scaling(
     [Offered(Advance(F, p, flags), p) EXCEPT
        !.dupacknum = IF "duplicate_ack" \in flags THEN 1 ELSE 0,
        !.window = p.win, !.lastack = p.ack,
        !.lastflags = flags \cap {"keep_alive", "zero_window_probe"}],
     [R EXCEPT !.maxseqtobeacked = IF AckLost(R, p) THEN R.nextseq ELSE @,
               !.segments = Unacked(@, p.ack)], p)
   EXCEPT !.flags = flags]

Flagged(F, R, p, fwd) ==
  Kept([F EXCEPT !.valid_bif = @ /\ "lost_packet" \notin fwd], R, p,
       fwd \cup If(AckLost(R, p), "ack_lost_packet") \cup If(Retransmission(F, p, fwd), "retransmission"))

WithBases(K, p) == Flagged(K.F, K.R, p, FwdFlags(K.F, K.R, p))
tcp_analyze_sequence_number(F, R, p) == WithBases(BasesKnown(F, R, p), p)

----------------------------------------------------------------------------
(* The hosts. *)

Segment(h, pos, len, flags, scale, w) ==
  [pos |-> pos, len |-> len, flags |-> flags, scale |-> scale, seq |-> SeqNo(h, pos), win |-> w,
   ackPos |-> rcv[h], ack |-> IF "ack" \in flags THEN SeqNo(Peer(h), rcv[h]) ELSE 0]

Size(p) == p.len + (IF "syn" \in p.flags THEN 1 ELSE 0)

\* What is captured is analysed; a report says that something below a place in a stream was
\* lost.
Report(h, p, o) ==
  LET lost == "lost_packet" \in o.flags   acklost == "ack_lost_packet" \in o.flags
  IN /\ flow' = [flow EXCEPT ![h] = o.F, ![Peer(h)] = o.R]
     /\ reported' = [reported EXCEPT ![h] = IF lost THEN Max({@, p.pos}) ELSE @,
                                     ![Peer(h)] = IF acklost THEN Max({@, p.ackPos}) ELSE @]
     /\ reports' = (reports \/ (missed = 0 /\ (lost \/ acklost)))
Captured(h, p) ==
  /\ Report(h, p, tcp_analyze_sequence_number(flow[h], flow[Peer(h)], p))
  /\ seen' = [seen EXCEPT ![h] = @ \cup p.pos..p.pos + Size(p) - 1]
  /\ ackSeen' = [ackSeen EXCEPT ![Peer(h)] = Max({@, p.ackPos})]
  /\ UNCHANGED missed
Missed(p) ==
  /\ "syn" \notin p.flags /\ missed < MaxMissed /\ missed' = missed + 1
  /\ UNCHANGED <<flow, seen, ackSeen, reported, reports>>

\* The next segment of h is on its way.
Sends(h, p) ==
  /\ Len(net[h]) < 2
  /\ net' = [net EXCEPT ![h] = Append(@, p)]
  /\ UNCHANGED <<una, rcv, peerWin, drops>>

Init ==
  /\ flow = [h \in Hosts |-> NoFlow]
  /\ snd = [h \in Hosts |-> 0] /\ una = [h \in Hosts |-> 0]
  /\ rcv = [h \in Hosts |-> 0] /\ win = [h \in Hosts |-> Max(Windows)]
  /\ peerWin = [h \in Hosts |-> 0]
  /\ net = [h \in Hosts |-> <<>>]
  /\ seen = [h \in Hosts |-> {}] /\ ackSeen = [h \in Hosts |-> 0]
  /\ reported = [h \in Hosts |-> 0] /\ reports = FALSE
  /\ offered = [h \in Hosts |-> -1]
  /\ missed = 0 /\ drops = 0 /\ acks = 0 /\ probes = 0

\* The client opens the connection, the server answers; each offers a scale or none.
Syn(h, scale) ==
  /\ snd[h] = 0 /\ (h = "client" \/ rcv[h] = 1)
  /\ Sends(h, Segment(h, 0, 0, IF h = "client" THEN {"syn"} ELSE {"syn", "ack"}, scale, win[h]))
  /\ snd' = [snd EXCEPT ![h] = 1] /\ offered' = [offered EXCEPT ![h] = scale]
  /\ UNCHANGED <<win, acks, probes>>

Connected(h) == una[h] >= 1 /\ rcv[h] >= 1
EndsAtZero(h, pos) == SeqNo(h, pos) = 0

Data(h, len) ==
  /\ Connected(h) /\ snd[h] + len - 1 <= MaxSend[h] /\ snd[h] + len <= una[h] + peerWin[h]
  /\ MeetsZero \/ ~EndsAtZero(h, snd[h] + len)
  /\ Sends(h, Segment(h, snd[h], len, {"ack"}, -1, win[h]))
  /\ snd' = [snd EXCEPT ![h] = @ + len]
  /\ UNCHANGED <<win, offered, acks, probes>>

\* An acknowledgment, also of nothing new, announces the window, also one that has changed;
\* where the peer has nothing to send it need not change.
Ack(h, w) ==
  /\ Connected(h) /\ (w = win[h] \/ MaxSend[Peer(h)] > 0) /\ acks < MaxAcks /\ acks' = acks + 1
  /\ Sends(h, Segment(h, snd[h], 0, {"ack"}, -1, w))
  /\ win' = [win EXCEPT ![h] = w]
  /\ UNCHANGED <<snd, offered, probes>>

\* What is not acknowledged is sent again, from its first byte.
Retransmit(h) ==
  /\ Connected(h) /\ una[h] < snd[h] /\ drops > 0 /\ net[h] = <<>>
  /\ \E len \in Lens :
       /\ una[h] + len <= snd[h]
       /\ MeetsZero \/ ~EndsAtZero(h, una[h] + len)
       /\ Sends(h, Segment(h, una[h], len, {"ack"}, -1, win[h]))
  /\ UNCHANGED <<snd, win, offered, acks, probes>>

\* One byte that is not counted as sent, to a receiver without room; it does not cross the
\* announcement that there is room again.
Probe(h) ==
  /\ Connected(h) /\ peerWin[h] = 0 /\ flow[Peer(h)].window = 0 /\ una[h] = snd[h] /\ snd[h] <= MaxSend[h]
  /\ probes < MaxProbes /\ probes' = probes + 1
  /\ Sends(h, Segment(h, snd[h], 1, {"ack", "probe"}, -1, win[h]))
  /\ UNCHANGED <<snd, win, offered, acks>>

\* p reaches the peer of h, which takes what comes next in order.
Deliver(h) ==
  LET p == Head(net[h])   q == Peer(h)
      takes == p.pos <= rcv[q] /\ ("probe" \in p.flags => ProbeAccepted /\ win[q] > 0)
  IN /\ net[h] # <<>> /\ net' = [net EXCEPT ![h] = Tail(@)]
     /\ rcv' = [rcv EXCEPT ![q] = IF takes THEN Max({@, p.pos + Size(p)}) ELSE @]
     /\ snd' = [snd EXCEPT ![q] = Max({@, p.ackPos})]
     /\ una' = [una EXCEPT ![q] = Max({@, p.ackPos})]
     /\ peerWin' = [peerWin EXCEPT ![q] = p.win]
     /\ UNCHANGED <<flow, win, seen, ackSeen, reported, reports, offered, missed, drops, acks, probes>>

Drop(h) ==
  /\ net[h] # <<>> /\ Connected(h) /\ drops < MaxDrops /\ drops' = drops + 1
  /\ net' = [net EXCEPT ![h] = Tail(@)]
  /\ UNCHANGED <<flow, snd, una, rcv, win, peerWin, seen, ackSeen, reported, reports, offered, missed, acks, probes>>

Send(h) ==
  \/ \E scale \in Scales : Syn(h, scale)
  \/ \E len \in Lens : Data(h, len)
  \/ \E w \in Windows : Ack(h, w)
  \/ Retransmit(h) \/ Probe(h)

\* A segment that is sent passes the capture, or misses it.
Next ==
  \E h \in Hosts :
    \/ Send(h) /\ (Captured(h, Last(net'[h])) \/ Missed(Last(net'[h])))
    \/ Deliver(h) \/ Drop(h)

Spec == Init /\ [][Next]_analysisVars

----------------------------------------------------------------------------
\* A loss of the capture is reported at the latest when the lost byte is acknowledged, and
\* none is reported when nothing was missed, whatever was sent again, probed or repeated.
LossReported ==
  /\ \A h \in Hosts : \A pos \in 0..ackSeen[h] - 1 : pos \in seen[h] \/ pos < reported[h]
  /\ ~reports

\* How many bytes are under way, from the list of what is not acknowledged.
bytes_in_flight(F) ==
  LET From(s) == (s.seq - F.base_seq) % Mod
      To(s)   == (s.nextseq - F.base_seq) % Mod
  IN Max({To(s) : s \in F.segments}) - Min({From(s) : s \in F.segments})

\* The list covers exactly the captured bytes that no captured segment acknowledged, however
\* they were cut when they were sent again, and right after an acknowledgment nothing below
\* it, so that bytes_in_flight counts what is under way.  The window is scaled when, and as,
\* both hosts offered to scale.
UnackedExact ==
  [][ /\ \A h \in Hosts :
           LET Positions == {pos \in 0..MaxSend[h] + 1 : \E s \in flow'[h].segments :
                               (SeqNo(h, pos) - s.seq) % Mod < (s.nextseq - s.seq) % Mod}
               open == {pos \in seen'[h] : pos >= ackSeen'[h]}
           IN /\ {pos \in Positions : pos >= ackSeen'[h]} = open
              /\ ackSeen'[h] # ackSeen[h] =>
                   /\ Positions = open
                   /\ open # {} => bytes_in_flight(flow'[h]) = Max(open) + 1 - Min(open)
      /\ \A h \in Hosts : snd'["server"] > 0 =>
           flow'[h].win_scale = IF \A q \in Hosts : offered'[q] # -1 THEN offered'[h] ELSE -2
  ]_analysisVars
=============================================================================
