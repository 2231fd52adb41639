------------------------------ MODULE H3FlowCtl ------------------------------
(***************************************************************************)
(* Send-side flow control of the frame multiplexer (src/src/mux_h3.c): the *)
(* connection window h3c->mws, the initial stream window h3c->miw, each   *)
(* stream's own part h3s->sws (h3s_mws = sws + miw), the blocking flags    *)
(* BLK_SFCTL and BLK_MFCTL, and the list a stream is queued on (send_list, *)
(* fctl_list, blocked_list: one list head per stream, so at most one).     *)
(*                                                                         *)
(* The windows are C int32; they are kept at WinBits bits and wrap.  The *)
(* overflow checks of h3c_handle_window_update rely on the wrap, which   *)
(* HAProxy's build requests with -fwrapv; the additions are plain adds,  *)
(* which wrap on every target either way.                                *)
(*                                                                         *)
(* Abstractions: a response is one DATA block of MaxBody bytes, sent by   *)
(* h3_snd_buf; the mux buffer always has room for a frame except that the *)
(* resume after a peer frame may find it full (MUX_MFULL); headers, EOM,  *)
(* WANT_SHUTR/W and RST_STREAM belong to module H3Mux.                     *)
(***************************************************************************)
EXTENDS Integers, FiniteSets, Functions

CONSTANTS
  Strms,     \* ids of the open streams
  WinBits,   \* width of a window counter (32 in the code)
  InitWin,   \* 65535, the initial miw and mws (h3_init)
  Mfs,       \* h3c->mfs, the peer's max frame size
  MaxBody,   \* bytes of each response body
  Incs,      \* raw 32-bit WINDOW_UPDATE payloads the peer may send
  Iws,       \* SETTINGS_INITIAL_WINDOW_SIZE values the peer may send
  MaxPeer    \* bound on the frames the peer sends

Half == 2 ^ (WinBits - 1)
(* the int32 value of a 32-bit quantity: two's complement wrap *)
Wrap(x) == ((x + Half) % (2 * Half)) - Half
(* the increment RFC 7540 6.9 defines: the reserved bit ignored *)
RfcInc(raw) == raw % Half

ASSUME /\ InitWin \in 1..(Half - 1) /\ Mfs \in Nat \ {0} /\ MaxBody \in Nat
       /\ Incs \subseteq 0..(2 * Half - 1) /\ Iws \subseteq 0..(2 * Half - 1)

VARIABLES
  miw, mws, sws,   \* h3c->miw, h3c->mws, h3s->sws
  flags,           \* h3s->flags among BLK_SFCTL, BLK_MFCTL, NOTIFIED
  subs,            \* the conn_stream is subscribed for SUB_RETRY_SEND
  lst,             \* the list h3s->list is on: "none", "send", "fctl", "blocked"
  st,              \* h3s->st: "OPEN" or "ERROR"
  cerr,            \* h3c->st0 >= H3_CS_ERROR
  pend,            \* bytes of the body the stream layer has not sent yet
  sent, incS, incC,\* history: DATA bytes sent per stream, RFC increments
  nPeer,           \* frames the peer has sent
  sendSub          \* h3c->wait_event.events & SUB_RETRY_SEND: mbuf data left

vars == <<miw, mws, sws, flags, subs, lst, st, cerr, pend, sent, incS, incC, nPeer, sendSub>>

BlkAny == {"BLK_SFCTL", "BLK_MFCTL"}   \* H3_SF_BLK_ANY that is reachable here
Listed == {"send", "fctl"}             \* the lists h3_process_mux resumes

MinOf(a, b) == IF a < b THEN a ELSE b

(* h3s_mws: the stream's effective window, an int addition *)
SMws(s) == Wrap(sws[s] + miw)

-----------------------------------------------------------------------------
(* h3_resume_each_sending_h3s on fctl_list, then on send_list.  The loop  *)
(* breaks on the first stream when mws <= 0, the mux buffer is full or    *)
(* the connection is in error; none of these changes inside the loop.    *)
(* A stream already notified is skipped; one no longer subscribed leaves *)
(* the list; a subscribed one is notified and unsubscribed, and stays.   *)
Resumed(fl, sb) ==
  IF "NOTIFIED" \in fl THEN [f |-> fl \ BlkAny, s |-> sb, keep |-> TRUE]
  ELSE IF ~sb THEN [f |-> fl \ BlkAny, s |-> sb, keep |-> FALSE]
  ELSE [f |-> (fl \ BlkAny) \cup {"NOTIFIED"}, s |-> FALSE, keep |-> TRUE]

ResumeListsIn(L, f1, l1, room) ==
  IF mws' <= 0 \/ ~room \/ cerr' THEN flags' = f1 /\ subs' = subs /\ lst' = l1
  ELSE /\ flags' = [s \in Strms |-> IF l1[s] \in L THEN Resumed(f1[s], subs[s]).f
                                    ELSE f1[s]]
       /\ subs' = [s \in Strms |-> IF l1[s] \in L THEN Resumed(f1[s], subs[s]).s
                                   ELSE subs[s]]
       /\ lst' = [s \in Strms |-> IF l1[s] \in L /\ ~Resumed(f1[s], subs[s]).keep
                                  THEN "none" ELSE l1[s]]

ResumeFrom(f1, l1, room) == ResumeListsIn(Listed, f1, l1, room)

h3_resume_each_sending_h3s(room) == ResumeFrom(flags, lst, room)

-----------------------------------------------------------------------------
(* The stream layer *)

(* mutant: the frame is not cut to the data the stream layer has *)
FrameSizeNoBodyCut(s) == MinOf(SMws(s), MinOf(Mfs, mws))

(* mutant: the connection window does not cut the frame *)
FrameSizeNoConnCut(s) == MinOf(MinOf(pend[s], SMws(s)), Mfs)

(* h3s_frt_make_resp_data for the DATA block, called by h3_snd_buf with *)
(* the body left.  A stream not notified stays behind streams already    *)
(* queued.  One frame is sent: fsize is cut to the body, the stream      *)
(* window, mfs and the connection window, and a cut block ends the call. *)
(* A stream window <= 0 parks the stream on blocked_list (BLK_SFCTL); a   *)
(* connection window <= 0 only flags BLK_MFCTL.  Having sent something,   *)
(* the stream leaves its list.  The zero-copy path, taken when the whole *)
(* block fits every limit, has the same effect on the windows.           *)
FrameSize(s) == MinOf(MinOf(pend[s], SMws(s)), MinOf(Mfs, mws))

SendFrame(s, fsize) ==
  /\ sws' = [sws EXCEPT ![s] = Wrap(@ - fsize)]
  /\ mws' = Wrap(mws - fsize)
  /\ pend' = [pend EXCEPT ![s] = @ - fsize]
  /\ sent' = [sent EXCEPT ![s] = @ + fsize]

h3s_frt_make_resp_data(s, fl) ==
  IF SMws(s) <= 0
  THEN /\ flags' = [flags EXCEPT ![s] = fl \cup {"BLK_SFCTL"}]
       /\ lst' = [lst EXCEPT ![s] = "blocked"]
       /\ UNCHANGED <<sws, mws, pend, sent>>
  ELSE IF mws <= 0
  THEN /\ flags' = [flags EXCEPT ![s] = fl \cup {"BLK_MFCTL"}]
       /\ UNCHANGED <<sws, mws, pend, sent, lst>>
  ELSE /\ SendFrame(s, FrameSize(s))
       /\ flags' = [flags EXCEPT ![s] = fl]
       /\ lst' = [lst EXCEPT ![s] = "none"]

(* h3_snd_buf: NOTIFIED is consumed; a connection in error, a stream in *)
(* error or a stream still flagged blocked sends nothing.               *)
h3_snd_buf(s) ==
  LET fl == flags[s] \ {"NOTIFIED"} IN
  /\ pend[s] > 0
  /\ "NOTIFIED" \in flags[s] \/ \A t \in Strms : lst[t] \notin Listed
  /\ IF cerr \/ st[s] # "OPEN" \/ fl \cap BlkAny # {}
     THEN /\ flags' = [flags EXCEPT ![s] = fl]
          /\ UNCHANGED <<sws, mws, pend, sent, lst>>
     ELSE h3s_frt_make_resp_data(s, fl)
  /\ UNCHANGED <<miw, subs, st, cerr, incS, incC, nPeer, sendSub>>

(* h3_subscribe(SUB_RETRY_SEND), subscribed already or not: queue the   *)
(* stream unless it waits on its own window or is already queued;       *)
(* fctl_list when the connection window blocked it.                     *)
h3_subscribe(s) ==
  /\ subs' = [subs EXCEPT ![s] = TRUE]
  /\ lst' = IF "BLK_SFCTL" \notin flags[s] /\ lst[s] = "none"
            THEN [lst EXCEPT ![s] = IF "BLK_MFCTL" \in flags[s] THEN "fctl" ELSE "send"]
            ELSE lst
  /\ UNCHANGED <<miw, mws, sws, flags, st, cerr, pend, sent, incS, incC, nPeer, sendSub>>

(* h3_unsubscribe(SUB_RETRY_SEND): with no shutdown pending the stream    *)
(* leaves whatever list it is on.  The stream layer only unsubscribes    *)
(* what it subscribed.                                                    *)
h3_unsubscribe(s) ==
  /\ subs[s]
  /\ subs' = [subs EXCEPT ![s] = FALSE]
  /\ flags' = [flags EXCEPT ![s] = @ \ {"NOTIFIED"}]
  /\ lst' = [lst EXCEPT ![s] = "none"]
  /\ UNCHANGED <<miw, mws, sws, st, cerr, pend, sent, incS, incC, nPeer, sendSub>>

-----------------------------------------------------------------------------
(* The peer's frames, each handled by h3_process_demux and followed, in   *)
(* the same tasklet run, by h3_send's h3_process_mux; <room> tells        *)
(* whether the mux buffer let it resume the queued streams.  When it did *)
(* not, data is left in mbuf and h3_send subscribes for SUB_RETRY_SEND.  *)

(* a stream flagged BLK_SFCTL whose window became positive is unblocked: *)
(* it leaves blocked_list and goes to send_list if it is subscribed     *)
(* mutant: unblocking asks for a window of more than one byte *)
Unblocked_OffByOne(s, w) == "BLK_SFCTL" \in flags[s] /\ w > 1

Unblocked(s, w) == "BLK_SFCTL" \in flags[s] /\ w > 0
UnblockFlags(s, w) == IF Unblocked(s, w) THEN flags[s] \ {"BLK_SFCTL"} ELSE flags[s]
UnblockLst(s, w) == IF ~Unblocked(s, w) THEN lst[s]
                    ELSE IF subs[s] THEN "send" ELSE "none"

PeerFrame == /\ nPeer < MaxPeer /\ ~cerr /\ nPeer' = nPeer + 1

SubscribeIfLeft(room) == sendSub' = (sendSub \/ ~room)

(* h3c_handle_window_update for stream <s> *)
StreamWU(s, raw, room) ==
  LET inc == Wrap(raw)
      w == Wrap(SMws(s) + inc)
  IN
  /\ PeerFrame /\ SubscribeIfLeft(room)
  /\ UNCHANGED <<miw, mws, cerr, pend, sent, incC>>
  /\ IF inc = 0 \/ (SMws(s) >= 0 /\ w < 0)
     THEN /\ st' = [st EXCEPT ![s] = "ERROR"]
          /\ UNCHANGED <<sws, incS>>
          /\ ResumeFrom(flags, lst, room)
     ELSE /\ sws' = [sws EXCEPT ![s] = Wrap(@ + inc)]
          /\ incS' = [incS EXCEPT ![s] = @ + RfcInc(raw)]
          /\ UNCHANGED st
          /\ ResumeFrom([flags EXCEPT ![s] = UnblockFlags(s, w)],
                        [lst EXCEPT ![s] = UnblockLst(s, w)], room)

(* h3c_handle_window_update for the connection *)
ConnWU(raw, room) ==
  LET inc == Wrap(raw) IN
  /\ PeerFrame /\ SubscribeIfLeft(room)
  /\ IF inc = 0 \/ (mws >= 0 /\ Wrap(mws + inc) < 0)
     THEN cerr' = TRUE /\ UNCHANGED <<mws, incC>>
     ELSE /\ mws' = Wrap(mws + inc)
          /\ incC' = incC + RfcInc(raw)
          /\ UNCHANGED cerr
  /\ h3_resume_each_sending_h3s(room)
  /\ UNCHANGED <<miw, sws, st, pend, sent, incS>>

(* h3c_handle_settings with SETTINGS_INITIAL_WINDOW_SIZE = <raw>, then,  *)
(* at the end of h3_process_demux, h3c_unblock_sfctl when miw changed.   *)
Settings(raw, room) ==
  LET v == Wrap(raw) IN
  /\ PeerFrame /\ SubscribeIfLeft(room)
  /\ UNCHANGED <<mws, sws, st, pend, sent, incS, incC>>
  /\ IF v < 0
     THEN cerr' = TRUE /\ UNCHANGED <<miw, flags, subs, lst>>
     ELSE /\ miw' = v
          /\ UNCHANGED cerr
          /\ IF v = miw THEN h3_resume_each_sending_h3s(room)
             ELSE ResumeFrom([s \in Strms |-> UnblockFlags(s, Wrap(sws[s] + v))],
                             [s \in Strms |-> UnblockLst(s, Wrap(sws[s] + v))], room)

(* The transport calls back a subscribed sender once it can take data;  *)
(* h3_io_cb then runs h3_send, which sends the rest of mbuf.  Nothing    *)
(* else runs it: the wakeup in h3_snd_buf is commented out.              *)
Flush ==
  /\ sendSub /\ sendSub' = FALSE
  /\ UNCHANGED <<miw, mws, sws, st, cerr, pend, sent, incS, incC, nPeer>>
  /\ h3_resume_each_sending_h3s(TRUE)

-----------------------------------------------------------------------------
Init ==
  /\ miw = InitWin /\ mws = InitWin
  /\ sws = [s \in Strms |-> 0]
  /\ flags = [s \in Strms |-> {}]
  /\ subs = [s \in Strms |-> FALSE]
  /\ lst = [s \in Strms |-> "none"]
  /\ st = [s \in Strms |-> "OPEN"]
  /\ cerr = FALSE
  /\ pend = [s \in Strms |-> MaxBody]
  /\ sent = [s \in Strms |-> 0]
  /\ incS = [s \in Strms |-> 0] /\ incC = 0
  /\ nPeer = 0
  /\ sendSub = FALSE

Next ==
  \/ \E s \in Strms : h3_snd_buf(s) \/ h3_subscribe(s) \/ h3_unsubscribe(s)
  \/ \E s \in Strms, raw \in Incs, room \in BOOLEAN : StreamWU(s, raw, room)
  \/ \E raw \in Incs, room \in BOOLEAN : ConnWU(raw, room)
  \/ \E raw \in Iws, room \in BOOLEAN : Settings(raw, room)
  \/ Flush

Spec == Init /\ [][Next]_vars

(* A transport that can take data eventually calls back a subscribed    *)
(* sender.  Neither the peer nor the stream layer is fair.               *)
FairSpec == Spec /\ WF_vars(Flush)

-----------------------------------------------------------------------------
Win == -Half..(Half - 1)
TypeOK ==
  /\ miw \in 0..(Half - 1) /\ mws \in Win /\ sws \in [Strms -> Win]
  /\ flags \in [Strms -> SUBSET {"BLK_SFCTL", "BLK_MFCTL", "NOTIFIED"}]
  /\ subs \in [Strms -> BOOLEAN]
  /\ lst \in [Strms -> {"none", "send", "fctl", "blocked"}]
  /\ st \in [Strms -> {"OPEN", "ERROR"}] /\ cerr \in BOOLEAN
  /\ pend \in [Strms -> 0..MaxBody] /\ sent \in [Strms -> 0..MaxBody]
  /\ incS \in [Strms -> Nat] /\ incC \in Nat /\ nPeer \in 0..MaxPeer
  /\ sendSub \in BOOLEAN

(* The windows RFC 7540 6.9 gives the peer's frames: the initial window *)
(* plus the increments, less what was sent.                              *)
StreamCredit(s) == miw + incS[s] - sent[s]
ConnCredit == InitWin + incC - SumFunction(sent)
Pos(x) == IF x > 0 THEN x ELSE 0

(* No step of h3s_frt_make_resp_data sends more DATA on a stream than its *)
(* window, or on the connection than the connection window, whatever    *)
(* SETTINGS, WINDOW_UPDATE (reserved bit included) and sends came before.*)
NoOverSend ==
  [][ /\ \A s \in Strms : sent'[s] - sent[s] <= Pos(StreamCredit(s))
      /\ SumFunction(sent') - SumFunction(sent) <= Pos(ConnCredit) ]_vars

(* A stream parked on BLK_SFCTL has no window: h3c_handle_window_update  *)
(* and h3c_unblock_sfctl, the only code that clears the flag, run on    *)
(* every change of h3s_mws, so a blocked stream with a positive window   *)
(* would wait forever.                                                    *)
NoStaleSfctl ==
  \A s \in Strms : "BLK_SFCTL" \in flags[s] => SMws(s) <= 0

(* A subscribed stream queued on send_list or fctl_list while the       *)
(* connection has a window and h3c waits on the transport with data in  *)
(* mbuf is notified by the resume of the next h3_send, unless it leaves  *)
(* the queue or the connection fails first.  Without data left in mbuf  *)
(* nothing runs h3_send until the peer sends a frame (no wakeup in       *)
(* h3_snd_buf), so no such promise holds then.                          *)
WaitingResume(s) == subs[s] /\ lst[s] \in Listed /\ "NOTIFIED" \notin flags[s]
=============================================================================
