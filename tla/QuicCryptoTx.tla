---------------------------- MODULE QuicCryptoTx ----------------------------
(***************************************************************************)
(* The sending side of a QUIC CRYPTO stream at one encryption level, as    *)
(* src/src/xprt_quic.c implements it during the handshake:                 *)
(*   - the TLS stack appends CRYPTO bytes (ha_quic_add_handshake_data);    *)
(*   - the connection tasklet builds packets carrying them, records one    *)
(*     descriptor [pn, offset, len] per CRYPTO frame in the outgoing tree  *)
(*     and counts the bytes in flight (qc_prep_hdshk_pkts,                 *)
(*     qc_build_hdshk_pkt, qc_do_build_hdshk_pkt);                          *)
(*   - ACK frames from the peer free acknowledged descriptors and move     *)
(*     the ones in the gaps to the retransmit tree (qc_parse_ack_frm);     *)
(*   - while the retransmit flag is set, the tasklet rebuilds packets from *)
(*     the retransmit tree instead (qc_prep_hdshk_rpkts).                  *)
(* The peer and the network around it are the environment: packets are    *)
(* lost or delivered in any order, the peer acknowledges what it received *)
(* at any time, and its ACK frames are lost, delayed and reordered.        *)
(***************************************************************************)
EXTENDS Integers, Sequences, FiniteSets, FiniteSetsExt, TLC

CONSTANTS
  MaxData,      \* CRYPTO bytes the TLS stack hands over at this level
  MaxFrameLen,  \* largest CRYPTO frame a packet buffer has room for
  InFlightMax,  \* QUIC_CRYPTO_IN_FLIGHT_MAX (4096 in the code)
  MaxFaults,    \* bound on injected faults: failed allocations, full
                \* buffers and malformed ACK frames
  MaxPn,        \* bound on packet numbers: at most MaxPn + 1 packets are built
  MaxAcks       \* bound on ACK frames travelling from the peer at once

ASSUME /\ MaxData \in Nat \ {0}
       /\ MaxFrameLen \in Nat \ {0}
       /\ InFlightMax \in Nat \ {0}
       /\ MaxPn \in Nat
       /\ MaxAcks \in Nat \ {0}

VARIABLES
  bufSz,        \* qel->tx.crypto.sz: bytes stored in the CRYPTO buffers
  txOffset,     \* qel->tx.crypto.offset: next byte to send for the first time
  frms,         \* qel->tx.crypto.frms: descriptors of CRYPTO frames in flight
  rtx,          \* qel->tx.crypto.retransmit_frms
  inFlight,     \* qc->crypto_in_flight
  retransmit,   \* qc->retransmit
  nextPn,       \* pktns->tx.next_pn: the last packet number used
  largestAcked, \* pktns->rx.largest_acked_pn
  ackRequired,  \* pktns->flags & QUIC_FL_PKTNS_ACK_REQUIRED
  oddEliciting, \* pktns->rx.nb_ack_eliciting & 1
  sent,         \* the wire image: pn -> CRYPTO [off, len] it carried (len 0: none)
  wire,         \* packet numbers of the packets still travelling to the peer
  peerRcvd,     \* packet numbers the peer received
  peerBytes,    \* CRYPTO byte offsets the peer received
  acks,         \* ACK frames travelling back: the frame and the pns it claims
  faults,       \* faults injected so far (bounded by MaxFaults)
  ackedPns      \* history: pns whose descriptors were freed as acknowledged

vars == <<bufSz, txOffset, frms, rtx, inFlight, retransmit, nextPn,
          largestAcked, ackRequired, oddEliciting, sent, wire, peerRcvd,
          peerBytes, acks, ackedPns, faults>>

Pn == 0..MaxPn
Offset == 0..MaxData

Frm(pn, off, len) == [pn |-> pn, off |-> off, len |-> len]

SumLen(S) == MapThenSumSet(LAMBDA d : d.len, S)

Bytes(d) == d.off..(d.off + d.len - 1)

MinPnOf(S) == CHOOSE d \in S : \A e \in S : d.pn <= e.pn
MaxPnOf(S) == CHOOSE d \in S : \A e \in S : e.pn <= d.pn

----------------------------------------------------------------------------
(***************************************************************************)
(* The ACK frame the peer builds from the set <S> of packet numbers it     *)
(* received: ranges largest first, each following range encoded as a gap  *)
(* and a length (RFC draft-28, section 19.3).  The peer is not this code,  *)
(* so its encoder is the protocol's, not quic_do_build_ack_frame.          *)
(***************************************************************************)
RECURSIVE RangesOf(_)
RangesOf(S) ==
  IF S = {} THEN <<>>
  ELSE LET hi == Max(S)
           lo == CHOOSE l \in S : l..hi \subseteq S /\ (l - 1) \notin S
       IN  <<[first |-> lo, last |-> hi]>> \o RangesOf(S \ (lo..hi))

AckFrameOf(S) ==
  LET R == RangesOf(S)
      n == Len(R) - 1
  IN  [largest_ack     |-> R[1].last,
       first_ack_range |-> R[1].last - R[1].first,
       gap             |-> [k \in 1..n |-> R[k].first - R[k + 1].last - 2],
       ack_range       |-> [k \in 1..n |-> R[k + 1].last - R[k + 1].first]]

----------------------------------------------------------------------------
(***************************************************************************)
(* An ACK frame from a faulty peer: the one for <S> with the gap after its *)
(* <k>-th range larger than that range's smallest packet number, which    *)
(* qc_parse_ack_frm must reject once ranges 1..k are applied.              *)
(***************************************************************************)
MalformedAckOf(S, k) ==
  LET f == AckFrameOf(S)
  IN  [f EXCEPT !.gap[k] = RangesOf(S)[k].first - 1]

(***************************************************************************)
(* The ACK processing of qc_parse_ack_frm works on this part of the state. *)
(***************************************************************************)
AckState == [frms |-> frms, rtx |-> rtx, inFlight |-> inFlight,
             retransmit |-> retransmit, acked |-> {}, err |-> FALSE]

(* Mutant: the walk goes one descriptor past <smallest>. *)
AckRangeCryptoFramesPastSmallest(st, largest, smallest) ==
  LET found == \E d \in st.frms : d.pn = largest
      ackd  == {d \in st.frms : smallest - 1 <= d.pn /\ d.pn <= largest}
  IN  IF ~found THEN st
      ELSE [st EXCEPT !.frms = @ \ ackd,
                      !.inFlight = @ - SumLen(ackd),
                      !.acked = @ \cup {d.pn : d \in ackd}]

(***************************************************************************)
(* quic_ack_range_crypto_frames: look the descriptor of pn <largest> up;   *)
(* if there is one, free it and every descriptor below it down to         *)
(* <smallest>, taking their bytes off the in-flight counter.  When no     *)
(* descriptor has key <largest> exactly (eb64_lookup), nothing is freed   *)
(* and NULL is returned (<found> is FALSE).                                *)
(***************************************************************************)
AckRangeCryptoFrames(st, largest, smallest) ==
  LET found == \E d \in st.frms : d.pn = largest
      ackd  == {d \in st.frms : smallest <= d.pn /\ d.pn <= largest}
  IN  IF ~found THEN st
      ELSE [st EXCEPT !.frms = @ \ ackd,
                      !.inFlight = @ - SumLen(ackd),
                      !.acked = @ \cup {d.pn : d \in ackd}]

(* Mutant: the merged lost frame is not taken off the in-flight counter. *)
AckRangeWithGapNoDebit(st, largest, smallest, next_largest) ==
  LET found == \E d \in st.frms : d.pn = largest
      a     == AckRangeCryptoFrames(st, largest, smallest)
      below == {d \in a.frms : d.pn < smallest}
  IN  IF ~found \/ below = {} THEN a
      ELSE LET node   == MaxPnOf(below)
               lost   == {node} \cup {d \in below : d.pn > next_largest}
               low    == MinPnOf(lost)
               merged == Frm(low.pn, low.off, SumLen(lost))
           IN  [a EXCEPT !.frms = @ \ lost,
                         !.rtx = @ \cup {merged},
                         !.retransmit = TRUE]

(***************************************************************************)
(* quic_ack_range_with_gap_crypto_frames followed by the move of its       *)
(* result to the retransmit tree in qc_parse_ack_frm.  After the range is  *)
(* freed, the walk takes the descriptor just below <smallest> as lost      *)
(* WITHOUT comparing it with <next_largest>, then merges into it, going    *)
(* down, every descriptor still above <next_largest>: the lengths are     *)
(* summed onto the lowest one, whose pn and offset the merged descriptor   *)
(* keeps.                                                                  *)
(***************************************************************************)
AckRangeWithGap(st, largest, smallest, next_largest) ==
  LET found == \E d \in st.frms : d.pn = largest
      a     == AckRangeCryptoFrames(st, largest, smallest)
      below == {d \in a.frms : d.pn < smallest}
  IN  IF ~found \/ below = {} THEN a
      ELSE LET node   == MaxPnOf(below)
               lost   == {node} \cup {d \in below : d.pn > next_largest}
               low    == MinPnOf(lost)
               merged == Frm(low.pn, low.off, SumLen(lost))
           IN  [a EXCEPT !.frms = @ \ lost,
                         !.inFlight = @ - merged.len,
                         !.rtx = @ \cup {merged},
                         !.retransmit = TRUE]

(***************************************************************************)
(* The do { } while (1) loop of qc_parse_ack_frm over the ranges of ACK    *)
(* frame <f>, <k> being the index of the next (gap, ack_range) pair.  A    *)
(* wrong gap or range stops the loop with an error; what earlier ranges   *)
(* changed stays changed.                                                   *)
(***************************************************************************)
RECURSIVE AckRangesLoop(_, _, _, _, _)
AckRangesLoop(st, f, largest, smallest, k) ==
  IF k > Len(f.gap) THEN AckRangeCryptoFrames(st, largest, smallest)
  ELSE LET gap == f.gap[k]
           rng == f.ack_range[k]
       IN  IF smallest < gap + 2 \/ smallest - gap - 2 < rng
           THEN [st EXCEPT !.err = TRUE]
           ELSE LET nl == smallest - gap - 2
                IN  AckRangesLoop(AckRangeWithGap(st, largest, smallest, nl),
                                  f, nl, nl - rng, k + 1)

(* qc_parse_ack_frm: the whole ACK frame <f>. *)
ParseAckFrm(f) ==
  IF f.largest_ack > nextPn \/ f.first_ack_range > f.largest_ack
  THEN [AckState EXCEPT !.err = TRUE]
  ELSE AckRangesLoop(AckState, f, f.largest_ack,
                     f.largest_ack - f.first_ack_range, 1)

----------------------------------------------------------------------------
(* quic_pktns_init and quic_conn_enc_level_init. *)
Init ==
  /\ bufSz = 0
  /\ txOffset = 0
  /\ frms = {}
  /\ rtx = {}
  /\ inFlight = 0
  /\ retransmit = FALSE
  /\ nextPn = -1
  /\ largestAcked = -1
  /\ ackRequired = FALSE
  /\ oddEliciting = FALSE
  /\ sent = <<>>
  /\ wire = {}
  /\ peerRcvd = {}
  /\ peerBytes = {}
  /\ acks = {}
  /\ ackedPns = {}
  /\ faults = 0

(***************************************************************************)
(* ha_quic_add_handshake_data -> quic_crypto_data_cpy: the TLS stack       *)
(* appends <n> CRYPTO bytes; flush_flight then wakes the tasklet.          *)
(***************************************************************************)
AddHandshakeData(n) ==
  /\ bufSz + n <= MaxData
  /\ bufSz' = bufSz + n
  /\ UNCHANGED <<txOffset, frms, rtx, inFlight, retransmit, nextPn,
                 largestAcked, ackRequired, oddEliciting, sent, wire,
                 peerRcvd, peerBytes, acks, ackedPns, faults>>

(* Mutant: a frame one byte longer than the data available. *)
CryptoFrameLensOverrun(avail) ==
  1..Min({avail + 1, InFlightMax - inFlight, MaxFrameLen})

(***************************************************************************)
(* qc_do_build_hdshk_pkt: the lengths a CRYPTO frame built from <avail>    *)
(* bytes may have.  crypto_len is cut down to the room the in-flight limit *)
(* leaves (an empty set when there is none: no packet is built, 0 is      *)
(* returned); max_stream_data_size then fits it in the packet buffer,      *)
(* whose room MaxFrameLen abstracts.                                        *)
(***************************************************************************)
CryptoFrameLens(avail) ==
  1..Min({avail, InFlightMax - inFlight, MaxFrameLen})

(* Mutant: next_pn is not consumed once the packet is committed. *)
BuildPktNoInc(off, len) ==
  LET pn == nextPn + 1 IN
  /\ pn <= MaxPn
  /\ nextPn' = nextPn
  /\ ackRequired' = FALSE
  /\ frms' = IF len > 0 THEN frms \cup {Frm(pn, off, len)} ELSE frms
  /\ inFlight' = inFlight + len
  /\ sent' = Append(sent, Frm(pn, off, len))
  /\ wire' = wire \cup {pn}
  /\ UNCHANGED faults

(***************************************************************************)
(* qc_build_hdshk_pkt with qc_do_build_hdshk_pkt: build one packet with    *)
(* pn next_pn + 1 carrying the pending ACK frame, if one is required, and  *)
(* a CRYPTO frame of <len> bytes at offset <off> (len = 0: none).  The     *)
(* packet is committed, next_pn consumed and the descriptor, keyed by the *)
(* new next_pn, inserted and counted in flight.                             *)
(***************************************************************************)
BuildPkt(off, len) ==
  LET pn == nextPn + 1 IN
  /\ pn <= MaxPn
  /\ nextPn' = pn
  /\ ackRequired' = FALSE
  /\ frms' = IF len > 0 THEN frms \cup {Frm(pn, off, len)} ELSE frms
  /\ inFlight' = inFlight + len
  /\ sent' = Append(sent, Frm(pn, off, len))
  /\ wire' = wire \cup {pn}
  /\ UNCHANGED faults

(***************************************************************************)
(* qc_build_hdshk_pkt returning -2 when the descriptor cannot be allocated *)
(* (pool_alloc): the packet is already encrypted and placed in the buffer  *)
(* and next_pn consumed, but no descriptor is recorded or counted and the  *)
(* offset is not advanced.  Whether the packet bytes leave with the buffer *)
(* depends on the ring, whose code is not here: both cases are possible.   *)
(***************************************************************************)
BuildPktAllocFail(off, len) ==
  LET pn == nextPn + 1 IN
  /\ pn <= MaxPn
  /\ nextPn' = pn
  /\ ackRequired' = FALSE
  /\ sent' = Append(sent, Frm(pn, off, len))
  /\ wire' \in {wire, wire \cup {pn}}
  /\ faults < MaxFaults /\ faults' = faults + 1
  /\ UNCHANGED <<frms, inFlight>>

(***************************************************************************)
(* qc_do_build_hdshk_pkt returning -1 after the ACK frame was built and    *)
(* ACK_REQUIRED cleared, when the CRYPTO or PADDING frame does not fit:    *)
(* the caller moves to the next buffer and the ACK is not sent.            *)
(***************************************************************************)
BuildPktNoRoom ==
  /\ ackRequired
  /\ ackRequired' = FALSE
  /\ faults < MaxFaults /\ faults' = faults + 1
  /\ UNCHANGED <<nextPn, frms, inFlight, sent, wire>>

(***************************************************************************)
(* One packet of the loop of qc_prep_hdshk_pkts (retransmit flag clear,    *)
(* qc_do_hdshk): fresh CRYPTO data from tx.crypto.offset, or an ACK-only   *)
(* packet when all data is sent but an ACK is required.  While data is    *)
(* pending and the in-flight limit leaves no room, no packet is built,     *)
(* not even for a required ACK.  The loop ends when the packet buffers are *)
(* full, so it may stop after any packet.                                   *)
(***************************************************************************)
PrepPkt ==
  LET remain == bufSz - txOffset IN
  /\ ~retransmit
  /\ remain > 0 \/ ackRequired
  /\ \/ /\ remain > 0
        /\ \E len \in CryptoFrameLens(remain) :
             \/ BuildPkt(txOffset, len) /\ txOffset' = txOffset + len
             \/ BuildPktAllocFail(txOffset, len) /\ UNCHANGED txOffset
     \/ /\ remain = 0
        /\ BuildPkt(txOffset, 0)
        /\ UNCHANGED txOffset
     \/ /\ remain = 0 \/ CryptoFrameLens(remain) # {}
        /\ BuildPktNoRoom
        /\ UNCHANGED txOffset
  /\ UNCHANGED <<bufSz, rtx, retransmit, largestAcked, oddEliciting,
                 peerRcvd, peerBytes, acks, ackedPns>>

(* Mutant: the flag is cleared whatever is left in the tree. *)
RtxTreeEmptyAlways(tree) == TRUE

(* The test eb_is_empty(frms) at the out: label of qc_prep_hdshk_rpkts. *)
RtxTreeEmpty(tree) == tree = {}

(***************************************************************************)
(* One packet of the loop of qc_prep_hdshk_rpkts (retransmit flag set):    *)
(* the first descriptor of the retransmit tree gives offset and length;   *)
(* the packet consumes a prefix of it (frm->offset and frm->len advance)   *)
(* and an emptied descriptor is freed.  On leaving, the flag is cleared if *)
(* the tree is empty.                                                       *)
(***************************************************************************)
RtxPkt ==
  /\ retransmit
  /\ rtx # {}
  /\ LET r == MinPnOf(rtx) IN
     \/ \E len \in CryptoFrameLens(r.len) :
          LET rest == IF r.len = len THEN rtx \ {r}
                      ELSE (rtx \ {r}) \cup {Frm(r.pn, r.off + len, r.len - len)}
          IN  \/ /\ BuildPkt(r.off, len)
                 /\ rtx' = rest
                 /\ retransmit' = ~RtxTreeEmpty(rest)
              \/ /\ BuildPktAllocFail(r.off, len)
                 /\ UNCHANGED <<rtx, retransmit>>
     \/ /\ CryptoFrameLens(r.len) # {}
        /\ BuildPktNoRoom
        /\ UNCHANGED <<rtx, retransmit>>
  /\ UNCHANGED <<bufSz, txOffset, largestAcked, oddEliciting, peerRcvd,
                 peerBytes, acks, ackedPns>>

(***************************************************************************)
(* qc_treat_rx_pkts for a peer packet holding the ACK frame <a>: the frame *)
(* is parsed (qc_parse_ack_frm) and, when it is valid, the largest acked  *)
(* packet number raised.  A frame in error makes the packet dropped, but  *)
(* the ranges processed before the error keep their effect.               *)
(***************************************************************************)
RecvAck(a) ==
  LET r == ParseAckFrm(a.frm)
      f == a.frm
  IN
  /\ acks' = acks \ {a}
  /\ frms' = r.frms
  /\ rtx' = r.rtx
  /\ inFlight' = r.inFlight
  /\ retransmit' = r.retransmit
  /\ ackedPns' = ackedPns \cup r.acked
  /\ largestAcked' = IF ~r.err /\ f.largest_ack > largestAcked
                     THEN f.largest_ack ELSE largestAcked
  /\ UNCHANGED <<bufSz, txOffset, nextPn, ackRequired, oddEliciting, sent,
                 wire, peerRcvd, peerBytes, faults>>

(***************************************************************************)
(* qc_treat_rx_pkts for an ack-eliciting peer packet: an ACK becomes       *)
(* required after every second one.                                         *)
(***************************************************************************)
RecvAckEliciting ==
  /\ oddEliciting' = ~oddEliciting
  /\ ackRequired' = (ackRequired \/ oddEliciting)
  /\ UNCHANGED <<bufSz, txOffset, frms, rtx, inFlight, retransmit, nextPn,
                 largestAcked, sent, wire, peerRcvd, peerBytes, acks, ackedPns,
                 faults>>

----------------------------------------------------------------------------
(* The network and the peer. *)
EnvVars == <<bufSz, txOffset, frms, rtx, inFlight, retransmit, nextPn,
             largestAcked, ackRequired, oddEliciting, sent, ackedPns>>

LosePkt(pn) ==
  /\ wire' = wire \ {pn}
  /\ UNCHANGED <<peerRcvd, peerBytes, acks>>
  /\ UNCHANGED EnvVars
  /\ UNCHANGED faults

DeliverPkt(pn) ==
  /\ wire' = wire \ {pn}
  /\ peerRcvd' = peerRcvd \cup {pn}
  /\ peerBytes' = peerBytes \cup Bytes(sent[pn + 1])
  /\ UNCHANGED acks
  /\ UNCHANGED EnvVars
  /\ UNCHANGED faults

PeerSendAck ==
  /\ peerRcvd # {}
  /\ Cardinality(acks) < MaxAcks
  /\ acks' = acks \cup {[pns |-> peerRcvd, frm |-> AckFrameOf(peerRcvd)]}
  /\ UNCHANGED <<wire, peerRcvd, peerBytes>>
  /\ UNCHANGED EnvVars
  /\ UNCHANGED faults

(* A faulty peer sends a malformed ACK frame, ranges 1..k of which are    *)
(* sound.                                                                  *)
PeerSendBadAck ==
  /\ Cardinality(acks) < MaxAcks
  /\ \E k \in 1..(Len(RangesOf(peerRcvd)) - 1) :
       acks' = acks \cup {[pns |-> peerRcvd, frm |-> MalformedAckOf(peerRcvd, k)]}
  /\ faults < MaxFaults /\ faults' = faults + 1
  /\ UNCHANGED <<wire, peerRcvd, peerBytes>>
  /\ UNCHANGED EnvVars

LoseAck(a) ==
  /\ acks' = acks \ {a}
  /\ UNCHANGED <<wire, peerRcvd, peerBytes>>
  /\ UNCHANGED EnvVars
  /\ UNCHANGED faults

Tasklet ==
  \/ PrepPkt
  \/ RtxPkt
  \/ \E a \in acks : RecvAck(a)

Next ==
  \/ \E n \in 1..MaxData : AddHandshakeData(n)
  \/ Tasklet
  \/ RecvAckEliciting
  \/ \E pn \in wire : LosePkt(pn) \/ DeliverPkt(pn)
  \/ PeerSendAck
  \/ PeerSendBadAck
  \/ \E a \in acks : LoseAck(a)

Spec == Init /\ [][Next]_vars

(***************************************************************************)
(* The tasklet is woken by flush_flight after new CRYPTO data, by the fd  *)
(* handler for every received packet and by itself after an ACK, so its   *)
(* steps are weakly fair; so are delivery and acknowledgement by the peer. *)
(* Loss is not constrained: a packet may be lost.                          *)
(***************************************************************************)
Fairness ==
  /\ WF_vars(PrepPkt)
  /\ WF_vars(RtxPkt)
  /\ WF_vars(\E a \in acks : RecvAck(a))
  /\ WF_vars(\E pn \in wire : DeliverPkt(pn))
  /\ WF_vars(PeerSendAck)

FairSpec == Spec /\ Fairness

----------------------------------------------------------------------------
TypeOK ==
  /\ bufSz \in Offset
  /\ txOffset \in Offset
  /\ frms \subseteq [pn : Int, off : Offset, len : Offset]
  /\ rtx \subseteq [pn : Int, off : Offset, len : Offset]
  /\ inFlight \in Int
  /\ retransmit \in BOOLEAN
  /\ nextPn \in -1..MaxPn
  /\ largestAcked \in -1..MaxPn
  /\ ackRequired \in BOOLEAN
  /\ oddEliciting \in BOOLEAN
  /\ wire \subseteq Pn
  /\ peerRcvd \subseteq Pn
  /\ peerBytes \subseteq Offset
  /\ \A a \in acks : a.pns \subseteq Pn
  /\ ackedPns \subseteq Int

(***************************************************************************)
(* qc->crypto_in_flight is kept by hand: raised when a CRYPTO frame is     *)
(* built, lowered when an ACK frees a descriptor or moves it to the        *)
(* retransmit tree.  It must always be the bytes of the descriptors in     *)
(* flight, or the in-flight limit of qc_do_build_hdshk_pkt either blocks   *)
(* the handshake for good or is exceeded.                                   *)
(***************************************************************************)
InFlightAccounting == inFlight = SumLen(frms)

(***************************************************************************)
(* Descriptors are keyed by the pn of their packet in trees that accept   *)
(* duplicate keys; the ACK processing looks a range's largest pn up       *)
(* exactly.  No two descriptors in flight or waiting for retransmission    *)
(* share a packet number, and none carries a pn not yet used.              *)
(***************************************************************************)
UniquePn ==
  /\ \A d, e \in frms \cup rtx : d.pn = e.pn => d = e
  /\ \A d \in frms : d.pn <= nextPn

(***************************************************************************)
(* A CRYPTO frame is freed as acknowledged (quic_ack_range_crypto_frames)  *)
(* only if the peer really received the packet that carried it.           *)
(***************************************************************************)
NoFalseAck == ackedPns \subseteq peerRcvd

(***************************************************************************)
(* Data waiting in the retransmit tree is always announced by the          *)
(* retransmit flag: qc_do_hdshk only looks at the tree when the flag is    *)
(* set, so a cleared flag with descriptors left strands their bytes.        *)
(***************************************************************************)
RetransmitPending == rtx # {} => retransmit

(***************************************************************************)
(* No CRYPTO byte handed to the stack is forgotten: each byte already sent *)
(* either reached the peer or is still described by a descriptor in       *)
(* flight or waiting for retransmission.  The spec (section 4.9) says lost *)
(* frames are merged because "they were contiguous on the wire".           *)
(***************************************************************************)
CryptoNeverForgotten ==
  \A b \in 0..(txOffset - 1) :
    b \in peerBytes \/ \E d \in frms \cup rtx : b \in Bytes(d)

(***************************************************************************)
(* An ACK frame moves to the retransmit tree only descriptors of packets   *)
(* that the frame does not acknowledge.                                     *)
(***************************************************************************)
OnlyUnackedRetransmitted ==
  [][\A a \in acks : RecvAck(a) =>
       \A d \in rtx' \ rtx : \A e \in frms \ frms' :
         e.pn = d.pn => e.pn \notin a.pns]_vars

(***************************************************************************)
(* Every CRYPTO byte the TLS stack handed over is eventually acknowledged: *)
(* the tree of frames in flight and the retransmit tree end up empty with  *)
(* everything sent.                                                         *)
(***************************************************************************)
AllCryptoAcked == <>[](txOffset = bufSz /\ frms = {} /\ rtx = {})
=============================================================================
