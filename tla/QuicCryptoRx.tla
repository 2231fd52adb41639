---------------------------- MODULE QuicCryptoRx ----------------------------
(***************************************************************************)
(* The receiving side of one encryption level of src/src/xprt_quic.c:      *)
(* header protection removal and packet-number decoding (qc_try_rm_hp,     *)
(* qc_do_rm_hp, decode_packet_number, qc_rm_hp_pkts), the tree of packets  *)
(* to decrypt (el->rx.qpkts) and its treatment by qc_treat_rx_pkts: AEAD   *)
(* decryption, the CRYPTO frame of qc_parse_hdshk_pkt, the ACK state of    *)
(* the packet-number space (module QuicAckRanges) and the in-order         *)
(* hand-over of CRYPTO data to TLS (SSL_provide_quic_data).                *)
(*                                                                         *)
(* The peer and the network are the environment: the peer sends packets   *)
(* with increasing packet numbers, each with at most one CRYPTO frame of   *)
(* its stream (new data or a retransmission, re-framed at will), and a     *)
(* truncated packet number of the length it chooses; the network loses,   *)
(* duplicates and reorders datagrams.                                      *)
(*                                                                         *)
(* Abstractions: a byte of the model is ByteBits bits and a C integer      *)
(* WordBits bits (8 and 64 in the code), so that packet numbers reach the  *)
(* window edges with few packets; AEAD decryption succeeds exactly when    *)
(* the decoded packet number is the one the packet was sealed with (it is *)
(* the nonce); header protection and TLS never fail.                       *)
(***************************************************************************)
EXTENDS QuicAckRanges, FiniteSets

CONSTANTS
  CryptoLen,  \* length of the peer's CRYPTO stream at this level
  PnLens,     \* packet-number lengths, in bytes, the peer may use (1..4)
  ByteBits,   \* bits of a byte (8)
  MaxRecv     \* bound on the datagrams received, duplicates included

ASSUME /\ CryptoLen \in Nat \ {0}
       /\ PnLens \subseteq 1..4 /\ PnLens # {}
       /\ ByteBits \in Nat \ {0} /\ \A l \in PnLens : l * ByteBits < WordBits
       /\ MaxRecv \in Nat

VARIABLES
  secrets,    \* QUIC_FL_TLS_SECRETS_SET in tls_ctx.rx.flags
  pqpkts,     \* el->rx.pqpkts: packets waiting for their header protection key
  qpkts,      \* el->rx.qpkts: the eb64 tree by packet number, as a sequence in
              \* tree order (duplicate keys after the older ones)
  rxOff,      \* el->rx.crypto.offset
  nbAckElic,  \* pktns->rx.nb_ack_eliciting
  ackReq,     \* QUIC_FL_PKTNS_ACK_REQUIRED in pktns->flags
  peerPn,     \* the peer: the next packet number it sends
  peerHigh,   \* the peer: the end of the CRYPTO data it has sent
  net,        \* datagrams in flight
  nRecv,      \* datagrams received so far
  decodes,    \* history: every packet number decoded, with the largest
              \* number received at that time
  delivered   \* history: the CRYPTO segments given to TLS, in order

rxVars == <<secrets, pqpkts, qpkts, rxOff, nbAckElic, ackReq, peerPn, peerHigh,
            net, nRecv, decodes, delivered, ranges, sz, largestPn, rcvd>>

(* a packet as the peer seals it: packet number, its length in bytes, and *)
(* the CRYPTO frame [off, off + len), len = 0 for a packet without one    *)
Packets == [pn : Pn, nb : PnLens, off : 0..CryptoLen, len : 0..CryptoLen]

(***************************************************************************)
(* decode_packet_number: the packet number closest to largest_pn + 1 whose *)
(* pn_nbits low bits are truncated_pn, in uint64_t arithmetic.             *)
(* (expected_pn & ~pn_mask) | truncated_pn is written with % since         *)
(* truncated_pn < pn_win.                                                   *)
(***************************************************************************)
decode_packet_number(largest_pn, truncated_pn, pn_nbits) ==
  LET W           == 2^WordBits
      expected_pn == ((largest_pn % W) + 1) % W
      pn_win      == 2^pn_nbits
      pn_hwin     == pn_win \div 2
      candidate_pn == (expected_pn - (expected_pn % pn_win)) + truncated_pn
  IN  IF (candidate_pn + pn_hwin) % W <= expected_pn
      THEN (candidate_pn + pn_win) % W
      ELSE IF candidate_pn > (expected_pn + pn_hwin) % W /\ candidate_pn > pn_win
      THEN candidate_pn - pn_win
      ELSE candidate_pn

(* a received packet: its truncated packet number field, pn once decoded *)
(* (-1 before), and QUIC_FL_RX_PACKET_OUT_OF_ORDER                        *)
OnWire(p) == [sealed |-> p.pn, trunc |-> p.pn % 2^(p.nb * ByteBits),
              nbits |-> p.nb * ByteBits, pn |-> -1, off |-> p.off,
              len |-> p.len, ooo |-> FALSE]

(* qc_do_rm_hp: the packet number field read once unmasked, then decoded *)
qc_do_rm_hp(q, largest_pn) ==
  [q EXCEPT !.pn = decode_packet_number(largest_pn, q.trunc, q.nbits)]

(* eb64_insert: after every node with a key not above the new one *)
TreeInsert(t, q) == InsertAt(t, Cardinality({i \in DOMAIN t : t[i].pn <= q.pn}) + 1, q)

(* the largest packet number received, as the packet-number space should *)
(* know it                                                                 *)
LargestRcvd == IF rcvd = {} THEN -1 ELSE Max(rcvd)

DecodeRecord(q) == [sealed |-> q.sealed, pn |-> q.pn, nbits |-> q.nbits,
                    largest |-> LargestRcvd]

-----------------------------------------------------------------------------
(* qc_treat_rx_pkts, one tree node at a time.  The state of the loop is a *)
(* record: the nodes kept, and the fields of the packet-number space and  *)
(* of the encryption level it updates.                                    *)

(* mutant: data already handed over is taken for the next expected *)
ProvideCrypto_OldData(s, q) ==
  IF q.len = 0 THEN s
  ELSE IF q.off <= s.rxOff
  THEN [s EXCEPT !.rxOff = @ + q.len, !.delivered = Append(@, <<q.off, q.len>>)]
  ELSE [s EXCEPT !.kept = Append(@, q)]

(* mutant: data past a hole is handed over *)
ProvideCrypto_PastHole(s, q) ==
  IF q.len = 0 THEN s
  ELSE IF q.off >= s.rxOff
  THEN [s EXCEPT !.rxOff = q.off + q.len, !.delivered = Append(@, <<q.off, q.len>>)]
  ELSE [s EXCEPT !.kept = Append(@, q)]

(* the CRYPTO data of a node: handed to TLS when it is the next expected, *)
(* kept otherwise; a node without CRYPTO data is freed                    *)
ProvideCrypto(s, q) ==
  IF q.len = 0 THEN s
  ELSE IF q.off = s.rxOff
  THEN [s EXCEPT !.rxOff = @ + q.len, !.delivered = Append(@, <<q.off, q.len>>)]
  ELSE [s EXCEPT !.kept = Append(@, q)]

(* qc_parse_hdshk_pkt, QUIC_FT_CRYPTO: out of order unless at the offset *)
(* expected now; a CRYPTO frame makes the packet ack-eliciting           *)
ParseCrypto(s, q) == [q EXCEPT !.ooo = q.len > 0 /\ q.off # s.rxOff]

(* a packet seen for the first time: decrypted, parsed, then counted in  *)
(* the ACK state                                                          *)
TreatFirst(s, q) ==
  LET q1  == ParseCrypto(s, q)
      nae == IF q.len > 0 THEN s.nbAckElic + 1 ELSE s.nbAckElic
      u   == UpdateAckRanges(s.ranges, q.pn)
  IN  ProvideCrypto([s EXCEPT !.nbAckElic = nae,
                              !.ackReq = @ \/ (q.len > 0 /\ nae % 2 = 0),
                              !.largestPn = LargestPnAfter(@, q.pn),
                              !.ranges = u[1], !.sz = @ + u[2],
                              !.rcvd = @ \cup {q.pn}], q1)

(* mutant: the packet is counted as received before its decryption *)
TreatNode_AckBeforeDecrypt(s, q) ==
  IF q.ooo THEN ProvideCrypto(s, q)
  ELSE IF q.pn # q.sealed
  THEN LET u == UpdateAckRanges(s.ranges, q.pn)
       IN  [s EXCEPT !.ranges = u[1], !.sz = @ + u[2], !.rcvd = @ \cup {q.pn}]
  ELSE TreatFirst(s, q)

TreatNode(s, q) ==
  IF q.ooo THEN ProvideCrypto(s, q)
  ELSE IF q.pn # q.sealed THEN s   \* qc_pkt_decrypt fails: dropped
  ELSE TreatFirst(s, q)

RECURSIVE TreatLoop(_, _)
TreatLoop(s, t) == IF t = <<>> THEN s ELSE TreatLoop(TreatNode(s, Head(t)), Tail(t))

-----------------------------------------------------------------------------
(* quic_pktns_init, and an encryption level with no key and no packet *)
RxInit ==
  /\ Init
  /\ secrets = FALSE
  /\ pqpkts = <<>>
  /\ qpkts = <<>>
  /\ rxOff = 0
  /\ nbAckElic = 0
  /\ ackReq = FALSE
  /\ peerPn = 0
  /\ peerHigh = 0
  /\ net = {}
  /\ nRecv = 0
  /\ decodes = {}
  /\ delivered = <<>>

(* the peer seals and sends its next packet: CRYPTO data it already sent *)
(* (a retransmission), new data following it, or no CRYPTO frame         *)
PeerSend ==
  /\ peerPn <= MaxPn
  /\ \E p \in Packets :
       /\ p.pn = peerPn /\ p.off <= peerHigh /\ p.off + p.len <= CryptoLen
       /\ p.len = 0 => p.off = 0
       /\ net' = net \cup {p}
       /\ peerHigh' = IF p.off + p.len > peerHigh THEN p.off + p.len ELSE peerHigh
  /\ peerPn' = peerPn + 1
  /\ UNCHANGED <<secrets, pqpkts, qpkts, rxOff, nbAckElic, ackReq, nRecv, decodes,
                 delivered, ranges, sz, largestPn, rcvd>>

(* the network drops a datagram *)
Lose ==
  /\ \E p \in net : net' = net \ {p}
  /\ UNCHANGED <<secrets, pqpkts, qpkts, rxOff, nbAckElic, ackReq, peerPn, peerHigh,
                 nRecv, decodes, delivered, ranges, sz, largestPn, rcvd>>

(* qc_try_rm_hp on a datagram from the network, which may keep a copy: *)
(* with the key, the header protection is removed at once and the       *)
(* packet stored in the tree; without, it waits in pqpkts               *)
qc_try_rm_hp ==
  /\ nRecv < MaxRecv
  /\ \E p \in net, dup \in BOOLEAN :
       LET q == qc_do_rm_hp(OnWire(p), largestPn)
       IN  /\ net' = IF dup THEN net ELSE net \ {p}
           /\ IF secrets
              THEN /\ qpkts' = TreeInsert(qpkts, q)
                   /\ decodes' = decodes \cup {DecodeRecord(q)}
                   /\ UNCHANGED pqpkts
              ELSE /\ pqpkts' = Append(pqpkts, OnWire(p))
                   /\ UNCHANGED <<qpkts, decodes>>
  /\ nRecv' = nRecv + 1
  /\ UNCHANGED <<secrets, rxOff, nbAckElic, ackReq, peerPn, peerHigh, delivered,
                 ranges, sz, largestPn, rcvd>>

(* ha_set_rsec: TLS hands over the secret of the level *)
ha_set_rsec ==
  /\ ~secrets
  /\ secrets' = TRUE
  /\ UNCHANGED <<pqpkts, qpkts, rxOff, nbAckElic, ackReq, peerPn, peerHigh, net,
                 nRecv, decodes, delivered, ranges, sz, largestPn, rcvd>>

(* qc_rm_hp_pkts: every waiting packet gets its packet number, decoded *)
(* with the same largest_pn, and goes to the tree                       *)
RmHpAll(t) ==
  LET RECURSIVE Ins(_, _)
      Ins(acc, l) == IF l = <<>> THEN acc
                     ELSE Ins(TreeInsert(acc, qc_do_rm_hp(Head(l), largestPn)), Tail(l))
  IN  Ins(t, pqpkts)

(* qc_do_hdshk, the receiving part at this level: header protection     *)
(* removal if there are waiting packets and the key, then               *)
(* qc_treat_rx_pkts if the tree is not empty                             *)
qc_do_hdshk ==
  /\ (pqpkts # <<>> /\ secrets) \/ qpkts # <<>>
  /\ LET hp == pqpkts # <<>> /\ secrets
         t  == IF hp THEN RmHpAll(qpkts) ELSE qpkts
         s  == TreatLoop([kept |-> <<>>, rxOff |-> rxOff, nbAckElic |-> nbAckElic,
                          ackReq |-> ackReq, largestPn |-> largestPn,
                          ranges |-> ranges, sz |-> sz, rcvd |-> rcvd,
                          delivered |-> delivered], t)
     IN  /\ pqpkts' = IF hp THEN <<>> ELSE pqpkts
         /\ decodes' = IF hp
                       THEN decodes \cup {DecodeRecord(qc_do_rm_hp(pqpkts[i], largestPn))
                                           : i \in DOMAIN pqpkts}
                       ELSE decodes
         /\ qpkts' = s.kept
         /\ rxOff' = s.rxOff /\ nbAckElic' = s.nbAckElic /\ ackReq' = s.ackReq
         /\ largestPn' = s.largestPn /\ ranges' = s.ranges /\ sz' = s.sz
         /\ rcvd' = s.rcvd /\ delivered' = s.delivered
  /\ UNCHANGED <<secrets, peerPn, peerHigh, net, nRecv>>

RxNext == PeerSend \/ Lose \/ qc_try_rm_hp \/ ha_set_rsec \/ qc_do_hdshk

RxSpec == RxInit /\ [][RxNext]_rxVars

-----------------------------------------------------------------------------
RxTypeOK ==
  /\ TypeOK
  /\ secrets \in BOOLEAN
  /\ rxOff \in 0..CryptoLen
  /\ nbAckElic \in Nat /\ ackReq \in BOOLEAN
  /\ peerPn \in 0..MaxPn + 1 /\ peerHigh \in 0..CryptoLen
  /\ net \subseteq Packets
  /\ nRecv \in 0..MaxRecv

(***************************************************************************)
(* TLS receives the CRYPTO stream in order: the segments handed to         *)
(* SSL_provide_quic_data by qc_treat_rx_pkts follow one another from       *)
(* offset 0 up to el->rx.crypto.offset, with no hole and no overlap,       *)
(* whatever order, loss and duplication the network applied.              *)
(***************************************************************************)
CryptoInOrder ==
  /\ \A i \in DOMAIN delivered :
       delivered[i][1] = IF i = 1 THEN 0 ELSE delivered[i - 1][1] + delivered[i - 1][2]
  /\ rxOff = IF delivered = <<>> THEN 0
             ELSE delivered[Len(delivered)][1] + delivered[Len(delivered)][2]

(***************************************************************************)
(* An ACK frame never claims a packet that did not arrive intact: every    *)
(* packet number in the ACK ranges (rcvd) is one the peer sealed a packet  *)
(* with and that was decoded right after it arrived.  qc_treat_rx_pkts     *)
(* counts a packet only once qc_pkt_decrypt accepted it, so a packet       *)
(* number decoded wrongly is never acknowledged.                           *)
(***************************************************************************)
AckedOnlyIntact == \A n \in rcvd : \E d \in decodes : d.sealed = n /\ d.pn = n

(***************************************************************************)
(* decode_packet_number recovers the packet number the peer sent whenever  *)
(* it lies within half a window of the largest packet number received,     *)
(* as spec.md (section 8) states of encode followed by decode.             *)
(***************************************************************************)
DecodeRecoversPn ==
  \A d \in decodes :
    (   d.sealed - (d.largest + 1) < 2^(d.nbits - 1)
     /\ (d.largest + 1) - d.sealed < 2^(d.nbits - 1)) => d.pn = d.sealed

(***************************************************************************)
(* No acknowledged CRYPTO byte is lost: a packet qc_treat_rx_pkts keeps in *)
(* the tree with an offset below el->rx.crypto.offset can never be handed  *)
(* to TLS any more (only offset = rx.crypto.offset matches), so it must    *)
(* not carry bytes TLS has not received; the packet is already in the ACK  *)
(* ranges and the peer will not send those bytes again.                    *)
(***************************************************************************)
AckedCryptoNotStranded ==
  \A i \in DOMAIN qpkts :
    (qpkts[i].pn \in rcvd /\ qpkts[i].len > 0 /\ qpkts[i].off < rxOff)
      => qpkts[i].off + qpkts[i].len <= rxOff

=============================================================================
