--------------------------- MODULE QuicAckRanges ---------------------------
(***************************************************************************)
(* The list of packet-number ranges a QUIC packet-number space keeps to    *)
(* build its ACK frames (xprt_quic.c, quic_update_ack_ranges_list), and    *)
(* the receive step of qc_treat_rx_pkts that feeds it.                      *)
(*                                                                         *)
(* The C list is doubly linked and kept in DEScending order: its head is   *)
(* the range holding the largest packet number.  It is modelled as a       *)
(* sequence of [first, last] records in the same order; <sz> is the        *)
(* separately maintained element counter ack_ranges->sz.                   *)
(***************************************************************************)
EXTENDS Integers, Sequences, SequencesExt

CONSTANTS
  MaxPn,     \* received packet numbers are drawn from 0..MaxPn
  WordBits   \* width of the C integers holding packet numbers (64)

ASSUME MaxPn \in Nat /\ WordBits \in Nat /\ 2^WordBits > MaxPn + 1

VARIABLES
  ranges,     \* pktns->rx.ack_ranges.list
  sz,         \* pktns->rx.ack_ranges.sz
  largestPn,  \* pktns->rx.largest_pn
  rcvd        \* history: the packet numbers handed to the list so far

vars == <<ranges, sz, largestPn, rcvd>>

Pn == 0..MaxPn

(***************************************************************************)
(* The test "pkt->pn > el->pktns->rx.largest_pn" compares a uint64_t with  *)
(* an int64_t: the usual arithmetic conversions turn the signed operand    *)
(* into uint64_t, so a largest_pn of -1 (no packet yet) compares as        *)
(* 2^64 - 1, above every packet number.                                    *)
(***************************************************************************)
PnAbove(pn, largest) == pn > largest % 2^WordBits

LargestPnAfter(largest, pn) == IF PnAbove(pn, largest) THEN pn ELSE largest

AckRange(f, l) == [first |-> f, last |-> l]

(* Mutant: <pn> just below a range extends it without merging it with  *)
(* the next one.                                                          *)
RECURSIVE AckRangesWalkNoMerge(_, _, _)
AckRangesWalkNoMerge(l, pn, i) ==
  LET curr == l[i]
      new  == AckRange(pn, pn)
  IN  IF pn >= curr.first /\ pn <= curr.last THEN <<l, 0>>
      ELSE IF pn > curr.last + 1 THEN <<InsertAt(l, i, new), 1>>
      ELSE IF curr.last + 1 = pn THEN <<[l EXCEPT ![i].last = pn], 0>>
      ELSE IF curr.first = pn + 1 THEN <<[l EXCEPT ![i].first = pn], 0>>
      ELSE IF i = Len(l) THEN <<Append(l, new), 1>>
      ELSE AckRangesWalkNoMerge(l, pn, i + 1)

(* Mutant: a merge decrements the size counter twice. *)
RECURSIVE AckRangesWalkDoubleDec(_, _, _)
AckRangesWalkDoubleDec(l, pn, i) ==
  LET curr == l[i]
      new  == AckRange(pn, pn)
  IN  IF pn >= curr.first /\ pn <= curr.last THEN <<l, 0>>
      ELSE IF pn > curr.last + 1 THEN <<InsertAt(l, i, new), 1>>
      ELSE IF curr.last + 1 = pn THEN <<[l EXCEPT ![i].last = pn], 0>>
      ELSE IF curr.first = pn + 1 THEN
             IF i < Len(l) /\ pn = l[i + 1].last + 1
             THEN <<RemoveAt([l EXCEPT ![i + 1].last = curr.last], i), -2>>
             ELSE <<[l EXCEPT ![i].first = pn], 0>>
      ELSE IF i = Len(l) THEN <<Append(l, new), 1>>
      ELSE AckRangesWalkDoubleDec(l, pn, i + 1)

(***************************************************************************)
(* quic_update_ack_ranges_list: the result on list <l> of inserting <pn>,  *)
(* together with the change of the size counter.  The walk over the list  *)
(* (curr = l[i], prev = l[i-1], next = l[i+1]) keeps the order of the C     *)
(* else-if chain, so the branches are tried in the code's order.           *)
(***************************************************************************)
RECURSIVE AckRangesWalk(_, _, _)
AckRangesWalk(l, pn, i) ==
  LET curr == l[i]
      new  == AckRange(pn, pn)
  IN  IF pn >= curr.first /\ pn <= curr.last THEN <<l, 0>>
      ELSE IF pn > curr.last + 1 THEN <<InsertAt(l, i, new), 1>>
      ELSE IF curr.last + 1 = pn THEN <<[l EXCEPT ![i].last = pn], 0>>
      ELSE IF curr.first = pn + 1 THEN
             IF i < Len(l) /\ pn = l[i + 1].last + 1
             THEN <<RemoveAt([l EXCEPT ![i + 1].last = curr.last], i), -1>>
             ELSE <<[l EXCEPT ![i].first = pn], 0>>
      ELSE IF i = Len(l) THEN <<Append(l, new), 1>>
      ELSE AckRangesWalk(l, pn, i + 1)

UpdateAckRanges(l, pn) ==
  IF l = <<>> THEN << <<AckRange(pn, pn)>>, 1 >>
  ELSE AckRangesWalk(l, pn, 1)

----------------------------------------------------------------------------
(* quic_pktns_init: an empty list and no packet received yet.              *)
Init ==
  /\ ranges = <<>>
  /\ sz = 0
  /\ largestPn = -1
  /\ rcvd = {}

(***************************************************************************)
(* qc_treat_rx_pkts, for a packet <pn> that was decrypted and parsed:      *)
(* raise the largest packet number and insert <pn> in the ACK ranges.      *)
(* A duplicate <pn> (a replayed or duplicated datagram) is possible: the   *)
(* rx tree accepts duplicate keys.                                          *)
(***************************************************************************)
RecvPkt(pn) ==
  LET u == UpdateAckRanges(ranges, pn) IN
  /\ ranges' = u[1]
  /\ sz' = sz + u[2]
  /\ largestPn' = LargestPnAfter(largestPn, pn)
  /\ rcvd' = rcvd \cup {pn}

Next == \E pn \in Pn : RecvPkt(pn)

Spec == Init /\ [][Next]_vars

----------------------------------------------------------------------------
TypeOK ==
  /\ ranges \in Seq([first : Pn, last : Pn])
  /\ sz \in Nat
  /\ largestPn \in Pn \cup {-1}
  /\ rcvd \subseteq Pn

(***************************************************************************)
(* The ranges are exactly the packet numbers received, each range is      *)
(* non-empty, and the list is strictly descending with a hole of at least  *)
(* one packet number between neighbours: every merge opportunity has been  *)
(* taken.  This is what an ACK frame built from the list relies on         *)
(* (quic_do_build_ack_frame encodes gap = prev.first - next.last - 2,      *)
(* which must not be negative).                                             *)
(***************************************************************************)
RangesCanonical ==
  /\ \A i \in DOMAIN ranges : ranges[i].first <= ranges[i].last
  /\ \A i \in 1..(Len(ranges) - 1) : ranges[i].first > ranges[i + 1].last + 1
  /\ UNION {ranges[i].first..ranges[i].last : i \in DOMAIN ranges} = rcvd

(***************************************************************************)
(* The counter ack_ranges->sz that the code keeps beside the list by hand  *)
(* (incremented on insertion, decremented on a merge) equals the length of *)
(* the list.                                                                *)
(***************************************************************************)
SizeCounted == sz = Len(ranges)

=============================================================================
