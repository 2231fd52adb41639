------------------------------- MODULE H3Mux -------------------------------
(***************************************************************************)
(* The frame multiplexer of src/src/mux_h3.c on the accepting (frontend)   *)
(* side: the connection state machine h3c->st0, the stream state machine   *)
(* h3s->st, and how frames from the peer, the I/O tasklet, the idle timer *)
(* and the application streams above move them.                           *)
(*                                                                         *)
(* The whole mux context is one record h3c; every handler of the source   *)
(* is an operator from that record to the next, so that an action is the  *)
(* composition of the calls the C function makes, in the same order.      *)
(* The stream pointer the C code passes around is a reference: a real     *)
(* stream of the tree streams_by_id, or one of the four static const      *)
(* dummy streams (h3_closed_stream ...) that h3c_st_by_id hands out.  A   *)
(* write through a reference to a dummy is a store into read-only memory; *)
(* the model records it in h3c.fault.                                     *)
(*                                                                         *)
(* Abstractions:                                                          *)
(*   - a frame arrives whole; payload bytes, lengths, padding, HPACK and  *)
(*     content-length are abstracted to the outcome the handler takes     *)
(*     (the frame's "arg");                                               *)
(*   - the mux buffer ring is "has data" (mdata); an emission fails for   *)
(*     lack of room only when it has data, and the choice is made once    *)
(*     per call (the boolean "room" of an action);                       *)
(*   - h3c->msi is never assigned in the file, so h3c_mux_busy is always  *)
(*     false and the *_MBUSY paths are dead; flow-control windows and the *)
(*     send lists are the subject of module H3FlowCtl;                    *)
(*   - error codes are data and are left out.                             *)
(***************************************************************************)
EXTENDS Integers, Sequences, FiniteSets

CONSTANTS
  Sids,           \* client stream ids the peer may use (odd and even)
  GoawayLasts,    \* last-stream-id values the peer may put in a GOAWAY
  MaxConcurrent,  \* h3_settings_max_concurrent_streams
  MaxFrames,      \* bound on the frames the peer sends
  DbufMax,        \* bound on the frames waiting in the demux buffer
  AppOps          \* the stream-layer calls a run lets happen

ASSUME /\ Sids \subseteq Nat \ {0}
       /\ GoawayLasts \subseteq Nat
       /\ MaxConcurrent \in Nat \ {0}
       /\ MaxFrames \in Nat
       /\ DbufMax \in Nat \ {0}
       /\ AppOps \subseteq {"send", "subscribe", "unsubscribe", "shutr", "shutw",
                           "kill", "detach"}

\* (1U << 31) - 1, the last_sid of a graceful GOAWAY on proxy stop
MaxSid == 2147483647

VARIABLES
  h3c,      \* the mux context, streams included (struct h3c, struct h3s)
  nFrames,  \* frames the peer has sent so far
  lastStep  \* the kind of the last step: "flush" (Flush), "timeout" or "other"

vars == <<h3c, nFrames, lastStep>>

(* enum h3_cs and enum h3_ss, with the order the code compares them in *)
CsRank == [PREFACE |-> 0, SETTINGS1 |-> 1, FRAME_H |-> 2, FRAME_P |-> 3,
           FRAME_A |-> 4, FRAME_E |-> 5, ERROR |-> 6, ERROR2 |-> 7]
SsRank == [IDLE |-> 0, OPEN |-> 3, HREM |-> 4, HLOC |-> 5, ERROR |-> 6,
           CLOSED |-> 7]
CsAtLeast(c, st) == CsRank[c.st0] >= CsRank[st]

FrameTypes == {"HEADERS", "DATA", "RST_STREAM", "WINDOW_UPDATE", "PRIORITY",
               "CONTINUATION", "SETTINGS", "PING", "GOAWAY", "UNKNOWN",
               "MALFORMED"}
HdrMask == {"HEADERS", "CONTINUATION"}          \* H3_FT_HDR_MASK

(* What the peer sends: the preface first, then frames.  "arg" is the   *)
(* outcome of the payload for the handler of the frame type.            *)
Preface == [ft : {"PREFACE"}, sid : {0}, arg : {"ok", "bad"}]
Frames ==
  [ft : {"HEADERS"}, sid : Sids, arg : {"ok", "ok_es", "err", "hpack", "nomem"}]
  \cup [ft : {"DATA"}, sid : Sids, arg : {"noes", "es", "pad"}]
  \cup [ft : {"RST_STREAM", "CONTINUATION"}, sid : Sids, arg : {"-"}]
  \cup [ft : {"PRIORITY"}, sid : Sids, arg : {"ok", "self"}]
  \cup [ft : {"WINDOW_UPDATE"}, sid : {0} \cup Sids, arg : {"inc", "zero"}]
  \cup [ft : {"SETTINGS"}, sid : {0}, arg : {"ok", "empty", "bad", "ack", "ack_len"}]
  \cup [ft : {"PING"}, sid : {0}, arg : {"req", "ack"}]
  \cup [ft : {"GOAWAY"}, sid : {0}, arg : GoawayLasts]
  \cup [ft : {"UNKNOWN", "MALFORMED"}, sid : {0}, arg : {"-"}]

StreamFlags == {"ES_RCVD", "ES_SENT", "RST_RCVD", "RST_SENT", "HEADERS_SENT",
                "BLK_MROOM", "NOTIFIED", "WANT_SHUTR", "WANT_SHUTW", "KILL_CONN"}
BlkAny == {"BLK_MROOM"}                         \* H3_SF_BLK_ANY that is reachable here
WantShut == {"WANT_SHUTR", "WANT_SHUTW"}
ConnFlags == {"MUX_MFULL", "DEM_MROOM", "DEM_TOOMANY", "GOAWAY_SENT",
              "GOAWAY_FAILED", "WINDOW_OPENED"}
DemBlockAny == {"DEM_MROOM", "DEM_TOOMANY"}     \* H3_CF_DEM_BLOCK_ANY
MuxBlockAny == {"MUX_MFULL"}                    \* H3_CF_MUX_BLOCK_ANY

(* a stream: its state, its flags, whether a conn_stream is attached, *)
(* whether that conn_stream is subscribed for SUB_RETRY_SEND (subs)   *)
(* and whether the stream is in h3c->send_list (inList)               *)
Strm(st, fl, cs) == [st |-> st, flags |-> fl, cs |-> cs, subs |-> FALSE,
                     inList |-> FALSE]
FreeStrm == Strm("IDLE", {}, FALSE)

(* the static const dummy streams *)
Dummy == [closed  |-> Strm("CLOSED", {"RST_RCVD"}, FALSE),
          error   |-> Strm("CLOSED", {}, FALSE),
          refused |-> Strm("CLOSED", {}, FALSE),
          idle    |-> Strm("IDLE", {}, FALSE)]

(* a stream pointer: a real stream or a dummy (whose id is 0) *)
Real(id) == [id |-> id, dummy |-> "none"]
Dum(d) == [id |-> 0, dummy |-> d]
S(c, h) == IF h.dummy = "none" THEN c.strm[h.id] ELSE Dummy[h.dummy]
StWrite(c, h, r) ==
  IF h.dummy = "none" THEN [c EXCEPT !.strm[h.id] = r]
                      ELSE [c EXCEPT !.fault = TRUE]
SetFlag(c, h, f) == StWrite(c, h, [S(c, h) EXCEPT !.flags = @ \cup {f}])
ClrFlags(c, h, F) == StWrite(c, h, [S(c, h) EXCEPT !.flags = @ \ F])
SetSt(c, h, st) == StWrite(c, h, [S(c, h) EXCEPT !.st = st])

(* an emission into the mux buffer fits unless it holds data and is full *)
Fits(c, room) == ~c.mdata \/ room
Emitted(c) == [c EXCEPT !.mdata = TRUE]
MuxFull(c, blk) == [c EXCEPT !.flags = @ \cup {"MUX_MFULL"} \cup blk]

(* a handler's result: the context, its return value, the stream *)
Res(c, ret, h) == [c |-> c, ret |-> ret, h |-> h]

(* "LET r == e IN F(r)" with e evaluated once: a C local assigned the  *)
(* result of a call and read several times afterwards                  *)
Bind(e, F(_)) == F(e)

-----------------------------------------------------------------------------
(* Stream helpers *)

h3c_st_by_id(c, id) ==
  IF id = 0 THEN Dum("closed")
  ELSE IF id > c.maxId THEN Dum("idle")
  ELSE IF id \notin c.tree THEN Dum("closed")
  ELSE Real(id)

h3c_error(c) == [c EXCEPT !.st0 = "ERROR"]

(* mutant: the state is not checked before setting ERROR *)
h3s_error_NoRankCheck(c, h) ==
  IF h.id # 0 /\ S(c, h).st # "ERROR" THEN SetSt(c, h, "ERROR") ELSE c

h3s_error(c, h) ==
  IF h.id # 0 /\ S(c, h).st # "ERROR"
  THEN IF SsRank[S(c, h).st] < SsRank["ERROR"] THEN SetSt(c, h, "ERROR") ELSE c
  ELSE c

(* mutant: nb_streams is decremented even for a stream already closed *)
h3s_close_NoStateCheck(c, h) ==
  SetSt([c EXCEPT !.nbStreams = @ - 1], h, "CLOSED")

h3s_close(c, h) ==
  LET c1 == IF S(c, h).st # "CLOSED" THEN [c EXCEPT !.nbStreams = @ - 1] ELSE c
  IN  SetSt(c1, h, "CLOSED")

h3s_destroy(c, id) ==
  LET c1 == h3s_close(c, Real(id))
  IN  [c1 EXCEPT !.tree = @ \ {id}, !.strm[id] = FreeStrm]

(* h3s_notify_send, the part of h3s_alert that changes mux state: a    *)
(* stream subscribed for sending is marked NOTIFIED and unsubscribed;  *)
(* the tasklet_wakeup calls are commented out in the source.           *)
Alerted(x) == IF x.subs THEN [x EXCEPT !.flags = @ \cup {"NOTIFIED"}, !.subs = FALSE]
              ELSE x
h3s_alert(c, h) == StWrite(c, h, Alerted(S(c, h)))

(* h3s_wake_one_stream on the streams of W, which are independent *)
WakeStreams(c, W) ==
  LET orphans == {s \in W : ~c.strm[s].cs}
      hit(s) == CsAtLeast(c, "ERROR")
                \/ (c.lastSid > 0 /\ s > c.lastSid)
      err(x) == IF SsRank[x.st] < SsRank["ERROR"] THEN [x EXCEPT !.st = "ERROR"]
                ELSE x
  IN [c EXCEPT
        !.nbStreams = @ - Cardinality({s \in orphans : c.strm[s].st # "CLOSED"}),
        !.tree = @ \ orphans,
        !.strm = [s \in Sids |->
                   IF s \in orphans THEN FreeStrm
                   ELSE IF s \in W /\ hit(s) THEN Alerted(err(c.strm[s]))
                   ELSE IF s \in W THEN Alerted(c.strm[s])
                   ELSE c.strm[s]]]

(* h3_wake_some_streams: every stream whose id is above last *)
h3_wake_some_streams(c, last) == WakeStreams(c, {s \in c.tree : s > last})

h3c_is_dead(c) ==
  /\ c.tree = {}
  /\ \/ CsAtLeast(c, "ERROR") /\ ~c.task
     \/ ~c.mdata /\ c.lastSid >= 0 /\ c.maxId >= c.lastSid

-----------------------------------------------------------------------------
(* Emissions into the mux buffer.  Each returns Res(c, ret, h).          *)

(* A control frame of the demux (SETTINGS, SETTINGS ACK, PING ACK,      *)
(* WINDOW_UPDATE): h3c_send_settings, h3c_ack_settings, h3c_ack_ping,   *)
(* h3c_send_window_update.  Lack of room blocks the demux (DEM_MROOM).  *)
CtlEmit(c, room) ==
  IF Fits(c, room) THEN Res(Emitted(c), 1, Dum("idle"))
  ELSE Res(MuxFull(c, {"DEM_MROOM"}), 0, Dum("idle"))

h3c_send_strm_wu(c, room) ==
  IF ~c.rcvdS THEN Res(c, 1, Dum("idle"))
  ELSE LET r == CtlEmit(c, room)
       IN  IF r.ret > 0
           THEN Res([r.c EXCEPT !.rcvdS = FALSE, !.wuOut = @ \cup {c.dsi}], 1, r.h)
           ELSE r

h3c_send_conn_wu(c, room) ==
  IF ~c.rcvdC THEN Res(c, 1, Dum("idle"))
  ELSE LET c1 == [c EXCEPT !.flags = @ \cup {"WINDOW_OPENED"}]
           r == CtlEmit(c1, room)
       IN  IF r.ret > 0 THEN Res([r.c EXCEPT !.rcvdC = FALSE], 1, r.h) ELSE r

(* h3c_send_goaway_error with no stream: the last_sid advertised is the *)
(* one already recorded, else the highest stream id seen.               *)
h3c_send_goaway_error(c, room) ==
  IF "GOAWAY_FAILED" \in c.flags THEN Res(c, 1, Dum("idle"))
  ELSE LET c1 == IF c.lastSid < 0 THEN [c EXCEPT !.lastSid = c.maxId] ELSE c
       IN  IF ~Fits(c1, room) THEN Res(MuxFull(c1, {"DEM_MROOM"}), 0, Dum("idle"))
           ELSE Res([Emitted(c1) EXCEPT !.flags = @ \cup {"GOAWAY_SENT"},
                                        !.goawayOut = @ \cup {c1.lastSid},
                                        !.nGoaway = @ + 1],
                    1, Dum("idle"))

(* the stream part common to both RST_STREAM senders once it is out *)
RstDone(c, h) == h3s_close(SetFlag(c, h, "RST_SENT"), h)

(* h3c_send_rst_stream: RST_STREAM for the stream being demuxed (dsi),  *)
(* possibly through a dummy stream.                                     *)
(* mutant: the stream is closed without checking for a dummy (h3s->id) *)
h3c_send_rst_stream_NoIdCheck(c, h, room) ==
  IF c.dft = "RST_STREAM" THEN Res(RstDone(c, h), 1, h)
  ELSE IF ~Fits(c, room) THEN Res(MuxFull(c, {"DEM_MROOM"}), 0, h)
  ELSE Res(RstDone([Emitted(c) EXCEPT !.rstOut = @ \cup {c.dsi}], h), 1, h)

h3c_send_rst_stream(c, h, room) ==
  IF c.dft = "RST_STREAM" THEN
    Res(IF h.id # 0 THEN RstDone(c, h) ELSE c, 1, h)
  ELSE IF ~Fits(c, room) THEN Res(MuxFull(c, {"DEM_MROOM"}), 0, h)
  ELSE LET c1 == [Emitted(c) EXCEPT !.rstOut = @ \cup {c.dsi}]
       IN  Res(IF h.id # 0 THEN RstDone(c1, h) ELSE c1, 1, h)

(* h3s_send_rst_stream: RST_STREAM for a stream of the application *)
h3s_send_rst_stream(c, h, room) ==
  IF S(c, h).st = "CLOSED" THEN Res(c, 1, h)
  ELSE IF c.dsi = h.id /\ c.dft = "RST_STREAM" THEN Res(RstDone(c, h), 1, h)
  ELSE IF ~Fits(c, room) THEN Res(SetFlag(MuxFull(c, {}), h, "BLK_MROOM"), 0, h)
  ELSE Res(RstDone([Emitted(c) EXCEPT !.rstOut = @ \cup {h.id}], h), 1, h)

(* h3_send_empty_data_es: an empty DATA frame carrying END_STREAM *)
h3_send_empty_data_es(c, h, room) ==
  IF S(c, h).st \in {"HLOC", "ERROR", "CLOSED"} THEN Res(c, 1, h)
  ELSE IF ~Fits(c, room) THEN Res(SetFlag(MuxFull(c, {}), h, "BLK_MROOM"), 0, h)
  ELSE Res(SetFlag([Emitted(c) EXCEPT !.esOut = @ \cup {h.id}], h, "ES_SENT"), 1, h)

-----------------------------------------------------------------------------
(* The demux: frame handlers of h3_process_demux.  A handler returns     *)
(* Res with ret > 0 on success, 0 on missing data, room or error, and   *)
(* -1 where h3_process_demux jumps to its "fail" label.                 *)

CloseOk == {"RST_STREAM", "PRIORITY", "WINDOW_UPDATE"}

h3_frame_check_vs_state(c, h) ==
  LET x == S(c, h)
  IN  IF x.st = "IDLE" /\ c.dft \notin {"HEADERS", "PRIORITY"}
      THEN Res(h3c_error(c), 0, h)
      ELSE IF x.st = "HREM" /\ c.dft \notin CloseOk
      THEN Res(IF c.dft \in HdrMask THEN h3c_error(c) ELSE h3s_error(c, h), 0, h)
      ELSE IF x.st = "CLOSED" /\ c.dsi # 0 /\ c.dft \in HdrMask
      THEN Res(h3c_error(c), 0, h)
      ELSE IF x.st = "CLOSED" /\ c.dsi # 0 /\ "RST_RCVD" \in x.flags
              /\ c.dft \notin HdrMask \cup CloseOk
      THEN Res([h3s_error(c, h) EXCEPT !.st0 = "FRAME_E"], 0, h)
      ELSE IF x.st = "CLOSED" /\ c.dsi # 0 /\ h.id # 0
              /\ "RST_SENT" \notin x.flags /\ c.dft \notin CloseOk
      THEN Res(h3c_error(c), 0, h)
      ELSE Res(c, 1, h)

(* a stream error found by a handler: h3s_error, then FRAME_E *)
StrmErr(c, h) == Res([h3s_error(c, h) EXCEPT !.st0 = "FRAME_E"], 0, h)

(* h3c_handle_settings then h3c_ack_settings; h3c_handle_ping then      *)
(* h3c_ack_ping: a request moves to FRAME_A, whose ACK is then emitted *)
HandleWithAck(c, room) ==
  LET r == IF c.st0 # "FRAME_P" THEN Res(c, 0, Dum("closed"))
           ELSE IF c.darg \in {"ack"} THEN Res(c, 1, Dum("closed"))
           ELSE IF c.darg \in {"bad", "ack_len"} THEN Res(h3c_error(c), 0, Dum("closed"))
           ELSE Res([c EXCEPT !.st0 = "FRAME_A"], 1, Dum("closed"))
  IN  IF r.c.st0 = "FRAME_A" THEN CtlEmit(r.c, room) ELSE r

h3c_handle_window_update(c, h) ==
  IF c.dsi # 0
  THEN IF S(c, h).st = "CLOSED" THEN Res(c, 1, h)
       ELSE IF c.darg = "zero" THEN StrmErr(c, h)
       ELSE Res(c, 1, h)
  ELSE IF c.darg = "zero" THEN Res(h3c_error(c), 0, h)
  ELSE Res(c, 1, h)

h3c_handle_rst_stream(c, h) ==
  IF S(c, h).st = "CLOSED" THEN Res(c, 1, h)
  ELSE LET c1 == h3s_close(c, h)
           c2 == IF S(c1, h).cs THEN h3s_alert(c1, h) ELSE c1
       IN  Res(SetFlag(c2, h, "RST_RCVD"), 1, h)

h3c_handle_goaway(c) ==
  LET c1 == IF c.lastSid < 0 THEN [c EXCEPT !.lastSid = c.darg] ELSE c
  IN  Res(h3_wake_some_streams(c1, c.darg), 1, Dum("closed"))

(* h3c_frt_stream_new, h3s_new included: "nomem" is a failure to      *)
(* allocate the conn_stream or the stream, after the id was recorded   *)
h3c_frt_stream_new(c, id) ==
  IF c.nbStreams >= MaxConcurrent THEN Res(c, 0, Dum("refused"))
  ELSE LET c1 == [c EXCEPT !.maxId = id, !.tree = @ \cup {id},
                           !.nbStreams = @ + 1, !.strm[id] = FreeStrm]
       IN  IF c.darg = "nomem" THEN Res(h3s_destroy(c1, id), 0, Dum("refused"))
           ELSE LET c2 == [c1 EXCEPT !.strm[id].cs = TRUE, !.nbCs = @ + 1]
                IN  Res(IF c2.nbCs > MaxConcurrent
                        THEN [c2 EXCEPT !.flags = @ \cup {"DEM_TOOMANY"}] ELSE c2,
                        1, Real(id))

(* the "done" label of h3c_frt_handle_headers *)
HeadersDone(c, h) ==
  LET c1 == IF c.darg = "ok_es" THEN SetFlag(c, h, "ES_RCVD") ELSE c
      c2 == IF "ES_RCVD" \notin S(c1, h).flags THEN c1
            ELSE IF S(c1, h).st = "OPEN" THEN SetSt(c1, h, "HREM")
            ELSE h3s_close(c1, h)
  IN  Res(IF h.id > c2.maxId THEN [c2 EXCEPT !.maxId = h.id] ELSE c2, 1, h)

(* the "send_rst" label: the demux will reset the stream *)
SendRst(c, d) == Res([c EXCEPT !.st0 = "FRAME_E"], 1, Dum(d))

(* h3c_frt_handle_headers; h3c_decode_headers consumes the payload *)
h3c_frt_handle_headers(c0, h) ==
  LET c == [c0 EXCEPT !.dpay = FALSE]
      x == S(c, h)
  IN  IF x.st # "IDLE" /\ x.st # "CLOSED"
      THEN IF c.darg = "hpack" THEN Res(h3c_error(c), 0, h)
           ELSE IF c.darg = "err" THEN Res(StrmErr(c, h).c, 0, h)
           ELSE HeadersDone(c, h)
      ELSE IF x.st = "CLOSED"
      THEN SendRst(IF c.darg = "hpack" THEN h3c_error(c) ELSE c, "error")
      ELSE IF c.dsi <= c.maxId \/ c.dsi % 2 = 0 THEN Res(h3c_error(c), 0, h)
      ELSE IF "DEM_TOOMANY" \in c.flags THEN Res(c0, 0, h)
      ELSE IF c.darg = "hpack" THEN Res(h3c_error(c), 0, h)
      ELSE IF c.darg = "err" THEN SendRst(c, "error")
      ELSE LET n == h3c_frt_stream_new(c, c.dsi)
           IN  IF n.ret = 0 THEN SendRst(n.c, "refused")
               ELSE HeadersDone([n.c EXCEPT !.strm[c.dsi].st = "OPEN",
                                            !.created = @ \cup {c.dsi}], n.h)

(* h3c_frt_handle_data; h3_frt_transfer_data always finds room in the   *)
(* stream's rxbuf (the request buffer is not modelled)                  *)
h3c_frt_handle_data(c, h) ==
  IF S(c, h).st \notin {"OPEN", "HLOC"} THEN StrmErr(c, h)
  ELSE LET c1 == [c EXCEPT !.rcvdC = TRUE, !.rcvdS = TRUE, !.st0 = "FRAME_A",
                           !.dpay = (c.darg = "pad")]
       IN  IF ~S(c1, h).cs THEN StrmErr(c1, h)
           ELSE IF c.darg # "es" THEN Res(c1, 1, h)
           ELSE LET c2 == SetFlag(c1, h, "ES_RCVD")
                IN  Res(IF S(c2, h).st = "OPEN" THEN SetSt(c2, h, "HREM")
                        ELSE h3s_close(c2, h), 1, h)

(* the switch on h3c->dft of h3_process_demux *)
Handle(c, h, room) ==
  LET P == c.st0 = "FRAME_P"
  IN CASE c.dft \in {"SETTINGS", "PING"} -> HandleWithAck(c, room)
       [] c.dft = "WINDOW_UPDATE" ->
            IF P THEN h3c_handle_window_update(c, h) ELSE Res(c, 0, h)
       [] c.dft = "CONTINUATION" -> Res(h3c_error(c), -1, h)
       [] c.dft = "HEADERS" ->
            IF P THEN h3c_frt_handle_headers(c, h) ELSE Res(c, 0, h)
       [] c.dft = "DATA" ->
            Bind(IF P THEN h3c_frt_handle_data(c, h) ELSE Res(c, 0, h), LAMBDA r :
              IF r.c.st0 = "FRAME_A"
              THEN Bind(h3c_send_strm_wu(r.c, room), LAMBDA w : Res(w.c, w.ret, h))
              ELSE r)
       [] c.dft = "PRIORITY" ->
            IF ~P THEN Res(c, 0, h)
            ELSE IF c.darg = "self" THEN Res(h3c_error(c), 0, h) ELSE Res(c, 1, h)
       [] c.dft = "RST_STREAM" ->
            IF P THEN h3c_handle_rst_stream(c, h) ELSE Res(c, 0, h)
       [] c.dft = "GOAWAY" ->
            IF P THEN h3c_handle_goaway(c) ELSE Res(c, 0, h)
       [] OTHER -> Res([c EXCEPT !.dpay = FALSE], 1, h)

(* a frame header taken from dbuf: h3c->dsi, dft, dff and dfl are set, *)
(* rcvd_s restarts at zero and padding counts in the flow control      *)
HasPayload(f) == ~(f.ft = "SETTINGS" /\ f.arg \in {"empty", "ack"})
Padded(f) == f.ft = "DATA" /\ f.arg = "pad"
NewFrame(c) ==
  LET f == Head(c.dbuf)
  IN  [c EXCEPT !.dbuf = Tail(@), !.dsi = f.sid, !.dft = f.ft, !.darg = f.arg,
                !.dpay = HasPayload(f), !.st0 = "FRAME_P",
                !.rcvdC = @ \/ Padded(f), !.rcvdS = Padded(f)]

(* one turn of the loop of h3_process_demux once the frame header is    *)
(* known, down to its "strm_err" label and the skipping of the payload *)
Iter(c, room) ==
  LET h == h3c_st_by_id(c, c.dsi)
  IN
  Bind(IF c.st0 = "FRAME_P" THEN h3_frame_check_vs_state(c, h) ELSE Res(c, 1, h),
  LAMBDA chk :
  Bind(IF c.st0 = "FRAME_E" \/ chk.ret = 0 THEN Res(chk.c, 0, h)
       ELSE Handle(chk.c, h, room),
  LAMBDA r :
  Bind(IF S(r.c, r.h).st = "ERROR" THEN [r.c EXCEPT !.st0 = "FRAME_E"] ELSE r.c,
  LAMBDA c1 :
  Bind(IF c1.st0 = "FRAME_E" THEN h3c_send_rst_stream(c1, r.h, room)
       ELSE Res(c1, r.ret, r.h),
  LAMBDA r2 :
      IF r.ret = -1 THEN [c |-> r.c, stop |-> TRUE, fail |-> TRUE]
      ELSE IF r2.ret <= 0 THEN [c |-> r2.c, stop |-> TRUE, fail |-> FALSE]
      ELSE [c |-> IF r2.c.st0 # "FRAME_H"
                  THEN [r2.c EXCEPT !.st0 = "FRAME_H", !.dsi = -1, !.dpay = FALSE]
                  ELSE r2.c,
            stop |-> FALSE, fail |-> FALSE]))))

(* the "while (1)" loop of h3_process_demux *)
RECURSIVE DemuxLoop(_, _)
DemuxLoop(c, room) ==
  IF (c.dbuf = <<>> /\ ~c.dpay) \/ CsAtLeast(c, "ERROR")
  THEN [c |-> c, stop |-> TRUE, fail |-> FALSE]
  ELSE Bind(IF c.st0 # "FRAME_H" THEN Iter(c, room)
            ELSE IF Head(c.dbuf).ft = "MALFORMED"
            THEN [c |-> h3c_error(NewFrame(c)), stop |-> TRUE, fail |-> TRUE]
            ELSE Iter(NewFrame(c), room),
            LAMBDA r : IF r.stop THEN r ELSE DemuxLoop(r.c, room))

(* the connection preface and the first SETTINGS frame *)
DemuxStart(c, room) ==
  Bind(IF c.st0 # "PREFACE" THEN Res(c, 1, Dum("idle"))
       ELSE IF Head(c.dbuf).arg = "bad"
       THEN Res([c EXCEPT !.st0 = "ERROR2"], 0, Dum("idle"))
       ELSE LET e == CtlEmit(c, room)
            IN  IF e.ret <= 0 THEN e
                ELSE Res([e.c EXCEPT !.dbuf = Tail(@), !.maxId = 0,
                                     !.st0 = "SETTINGS1"], 1, Dum("idle")),
  LAMBDA r :
  LET c1 == r.c
      f == Head(c1.dbuf)
  IN  IF r.ret <= 0 THEN [c |-> c1, stop |-> TRUE, fail |-> TRUE]
      ELSE IF c1.dbuf = <<>> THEN [c |-> c1, stop |-> TRUE, fail |-> TRUE]
      ELSE IF f.sid # 0 \/ f.ft # "SETTINGS" \/ f.arg \in {"ack", "ack_len"}
      THEN [c |-> [c1 EXCEPT !.st0 = "ERROR2"], stop |-> TRUE, fail |-> TRUE]
      ELSE Iter(NewFrame(c1), room))

h3_process_demux(c, room) ==
  IF CsAtLeast(c, "ERROR") THEN c
  ELSE Bind(IF CsAtLeast(c, "FRAME_H") THEN [c |-> c, stop |-> FALSE, fail |-> FALSE]
            ELSE DemuxStart(c, room),
       LAMBDA s :
       Bind(IF s.stop THEN s ELSE DemuxLoop(s.c, room),
       LAMBDA r :
           IF ~r.fail /\ r.c.rcvdC /\ r.c.flags \cap {"MUX_MFULL", "DEM_MROOM"} = {}
           THEN h3c_send_conn_wu(r.c, room).c
           ELSE r.c))

-----------------------------------------------------------------------------
(* The mux side: h3_process_mux, h3_send, h3_process *)

(* h3_resume_each_sending_h3s on h3c->send_list *)
h3_resume_each_sending_h3s(c) ==
  IF c.flags \cap MuxBlockAny # {} \/ CsAtLeast(c, "ERROR") THEN c
  ELSE LET resume(x) ==
             LET y == [x EXCEPT !.flags = @ \ BlkAny]
             IN  IF "NOTIFIED" \in y.flags THEN y
                 ELSE IF y.flags \cap WantShut = {} /\ ~y.subs
                 THEN [y EXCEPT !.inList = FALSE]
                 ELSE Alerted(y)
       IN  [c EXCEPT !.strm = [s \in Sids |->
                                 IF c.strm[s].inList THEN resume(c.strm[s])
                                 ELSE c.strm[s]]]

h3_process_mux(c, room) ==
  IF ~CsAtLeast(c, "FRAME_H") THEN Res(c, 1, Dum("idle"))
  ELSE
  Bind(IF c.rcvdS /\ "MUX_MFULL" \notin c.flags
       THEN h3c_send_strm_wu(c, room).c ELSE c,
  LAMBDA c1 :
  Bind(h3_resume_each_sending_h3s(IF c1.rcvdC /\ "MUX_MFULL" \notin c1.flags
                                  THEN h3c_send_conn_wu(c1, room).c ELSE c1),
  LAMBDA c3 :
  Bind(IF c3.st0 = "ERROR" /\ c3.maxId >= 0
       THEN h3c_send_goaway_error(c3, room).c ELSE c3,
  LAMBDA c4 :
      IF c4.st0 # "ERROR" THEN Res(c4, 1, Dum("idle"))
      ELSE IF c4.flags \cap MuxBlockAny # {} THEN Res(c4, 0, Dum("idle"))
      ELSE Res([c4 EXCEPT !.st0 = "ERROR2"], 1, Dum("idle")))))

(* one pass of the outer loop of h3_send: fill the mux buffer, then    *)
(* hand it to the transport, which takes none, part or all of it (x)   *)
RECURSIVE SendLoop(_, _, _, _)
SendLoop(c, room, x, sent) ==
  Bind(IF "MUX_MFULL" \notin c.flags THEN h3_process_mux(c, room)
       ELSE Res(c, 0, Dum("idle")),
  LAMBDA p :
  LET out == p.c.mdata /\ x # "none"
  IN
  Bind(IF out
       THEN [p.c EXCEPT !.mdata = (x = "part"),
                        !.flags = @ \ {"MUX_MFULL", "DEM_MROOM"}]
       ELSE p.c,
  LAMBDA c1 :
      IF p.ret = 1 \/ ~out \/ x = "part" THEN Res(c1, IF sent \/ out THEN 1 ELSE 0, Dum("idle"))
      ELSE SendLoop(c1, room, x, TRUE)))

h3_send(c, room, x) ==
  Bind(SendLoop(c, room, x, FALSE), LAMBDA r :
      IF r.c.flags \cap {"MUX_MFULL", "DEM_MROOM"} = {} /\ CsAtLeast(r.c, "FRAME_H")
      THEN Res(h3_resume_each_sending_h3s(r.c), r.ret, r.h)
      ELSE r)

h3_release(c) == [c EXCEPT !.released = TRUE, !.task = FALSE]

h3_process(c, room, x) ==
  Bind(IF (c.dbuf # <<>> \/ c.dpay) /\ c.flags \cap DemBlockAny = {}
       THEN Bind(h3_process_demux(c, room), LAMBDA d :
                 IF CsAtLeast(d, "ERROR") THEN [d EXCEPT !.dbuf = <<>>, !.dpay = FALSE]
                 ELSE d)
       ELSE c,
  LAMBDA c1 :
  Bind(h3_send(c1, room, x).c,
  LAMBDA c2 :
  Bind(IF c2.stopping /\ c2.flags \cap {"GOAWAY_SENT", "GOAWAY_FAILED"} = {}
       THEN h3c_send_goaway_error(
              IF c2.lastSid < 0 THEN [c2 EXCEPT !.lastSid = MaxSid] ELSE c2,
              room).c
       ELSE c2,
  LAMBDA c3 :
  LET dead == \/ c3.st0 = "ERROR2"
              \/ "GOAWAY_FAILED" \in c3.flags
              \/ c3.tree = {} /\ c3.lastSid >= 0 /\ c3.maxId >= c3.lastSid
  IN
  Bind(IF dead THEN h3_wake_some_streams(c3, 0) ELSE c3,
  LAMBDA c4 :
      IF dead /\ c4.tree = {} THEN h3_release(c4)
      ELSE h3_send(c4, room, x).c))))

(* h3_io_cb: the I/O tasklet sends, then processes if it sent or holds *)
(* received data                                                        *)
h3_io_cb(c, room, x) ==
  Bind(h3_send(c, room, x), LAMBDA r :
      IF r.ret > 0 \/ r.c.dbuf # <<>> \/ r.c.dpay THEN h3_process(r.c, room, x)
      ELSE r.c)

(* h3_wake: a connection-layer event *)
h3_wake(c, room, x) ==
  Bind(h3_process(c, room, x), LAMBDA c1 :
      IF c1.released THEN c1 ELSE h3_wake_some_streams(c1, 0))

(* mutant: an empty stream tree no longer lets the timer expire *)
h3c_may_expire_NoEmptyTree(c) == c.mdata \/ \E s \in c.tree : c.strm[s].inList

h3c_may_expire(c) ==
  c.tree = {} \/ c.mdata \/ \E s \in c.tree : c.strm[s].inList

(* h3_timeout_task once the timer has expired *)
h3_timeout_task(c, x) ==
  LET c1 == h3_wake_some_streams(h3c_error([c EXCEPT !.task = FALSE]), 0)
      c2 == IF c1.mdata THEN [c1 EXCEPT !.flags = @ \cup {"GOAWAY_FAILED"}] ELSE c1
      g == h3c_send_goaway_error([c2 EXCEPT !.lastSid = c2.maxId], TRUE)
      c3 == IF g.ret <= 0 THEN [g.c EXCEPT !.flags = @ \cup {"GOAWAY_FAILED"}]
            ELSE g.c
      c4 == IF c3.mdata /\ "GOAWAY_FAILED" \notin c3.flags /\ x # "none"
            THEN [c3 EXCEPT !.mdata = (x = "part")] ELSE c3
  IN  IF c4.tree = {} THEN h3_release(c4) ELSE c4

-----------------------------------------------------------------------------
(* The stream side, called by the conn_stream of a stream *)

(* ES sent on a stream: half-closed(local), or closed after the remote ES *)
EsSent(c, h) ==
  LET c1 == SetFlag([c EXCEPT !.esOut = @ \cup {h.id}], h, "ES_SENT")
  IN  IF S(c1, h).st = "OPEN" THEN SetSt(c1, h, "HLOC") ELSE h3s_close(c1, h)

(* lack of room in the mux buffer for a frame of the stream *)
NoRoom(c, h) == Res(SetFlag(MuxFull(c, {}), h, "BLK_MROOM"), 0, h)

(* The first HTX block of the stream's output, sent by h3_snd_buf:     *)
(*   "hdrs"    the response HEADERS (h3s_frt_make_resp_headers),        *)
(*   "hdrs_es" the same followed by the end of message, one HEADERS     *)
(*             frame with END_STREAM,                                   *)
(*   "eom"     the end of message after the headers: an empty DATA      *)
(*             frame with END_STREAM (h3s_frt_make_resp_data).          *)
OutBlocks == {"hdrs", "hdrs_es", "eom"}
MakeBlock(c, h, blk, room) ==
  IF ~Fits(c, room) THEN NoRoom(c, h)
  ELSE LET c1 == Emitted(c)
       IN  IF blk = "eom" THEN Res(EsSent(c1, h), 1, h)
           ELSE LET c2 == SetFlag(c1, h, "HEADERS_SENT")
                IN  Res(IF blk = "hdrs_es" THEN EsSent(c2, h) ELSE c2, 1, h)

h3_snd_buf(c, id, blk, room) ==
  LET h == Real(id)
      busy == \E t \in c.tree : c.strm[t].inList
  IN  IF "NOTIFIED" \notin S(c, h).flags /\ busy THEN c
      ELSE LET c0 == ClrFlags(c, h, {"NOTIFIED"})
           IN  IF ~CsAtLeast(c0, "FRAME_H") \/ CsAtLeast(c0, "ERROR") THEN c0
               ELSE LET x == S(c0, h)
                        r == IF SsRank[x.st] < SsRank["HLOC"] /\ x.flags \cap BlkAny = {}
                             THEN MakeBlock(c0, h, blk, room) ELSE Res(c0, 0, h)
                        total == r.ret > 0 \/ SsRank[S(r.c, h).st] >= SsRank["HLOC"]
                        y == S(r.c, h)
                        c1 == IF y.st = "ERROR" \/ "RST_RCVD" \in y.flags
                              THEN LET q == h3s_send_rst_stream(r.c, h, room)
                                   IN  IF q.ret > 0 THEN h3s_close(q.c, h) ELSE q.c
                              ELSE r.c
                    IN  IF total /\ S(c1, h).flags \cap WantShut = {}
                        THEN StWrite(c1, h, [S(c1, h) EXCEPT !.inList = FALSE])
                        ELSE c1

h3_subscribe(c, id) ==
  [c EXCEPT !.strm[id].subs = TRUE, !.strm[id].inList = TRUE]

h3_unsubscribe(c, id) ==
  LET x == c.strm[id]
  IN  [c EXCEPT !.strm[id] = [x EXCEPT !.subs = FALSE,
                                       !.flags = @ \ {"NOTIFIED"},
                                       !.inList = @ /\ x.flags \cap WantShut # {}]]

(* the "add_to_list" label of h3_do_shutr and h3_do_shutw *)
AddToList(c, h, want) ==
  LET c1 == SetFlag(c, h, want)
  IN  IF ~S(c1, h).inList /\ "BLK_MROOM" \in S(c1, h).flags
      THEN StWrite(c1, h, [S(c1, h) EXCEPT !.inList = TRUE])
      ELSE c1

(* KILL_CONN turns the stream's reset into a connection error, once *)
ShutErr(c, h) ==
  IF "KILL_CONN" \in S(c, h).flags
     /\ c.flags \cap {"GOAWAY_SENT", "GOAWAY_FAILED"} = {}
  THEN h3s_error(h3c_error(c), h)
  ELSE h3s_error(c, h)

(* reset the stream unless already done, then close it *)
ShutRst(c, h, room, want) ==
  LET q == IF "RST_SENT" \notin S(c, h).flags THEN h3s_send_rst_stream(c, h, room)
           ELSE Res(c, 1, h)
  IN  IF q.ret <= 0 THEN AddToList(q.c, h, want)
      ELSE ClrFlags(h3s_close(q.c, h), h, {want})

h3_do_shutr(c, h, room) ==
  IF S(c, h).st = "CLOSED" THEN ClrFlags(c, h, {"WANT_SHUTR"})
  ELSE ShutRst(ShutErr(c, h), h, room, "WANT_SHUTR")

h3_do_shutw(c, h, room) ==
  LET x == S(c, h)
  IN  IF x.st \in {"HLOC", "CLOSED"} THEN ClrFlags(c, h, {"WANT_SHUTW"})
      ELSE IF x.st # "ERROR" /\ "HEADERS_SENT" \in x.flags
      THEN LET q == IF x.flags \cap {"ES_SENT", "RST_SENT"} = {}
                    THEN h3_send_empty_data_es(c, h, room) ELSE Res(c, 1, h)
           IN  IF q.ret <= 0 THEN AddToList(q.c, h, "WANT_SHUTW")
               ELSE ClrFlags(IF S(q.c, h).st = "HREM" THEN h3s_close(q.c, h)
                             ELSE SetSt(q.c, h, "HLOC"), h, {"WANT_SHUTW"})
      ELSE ShutRst(ShutErr(c, h), h, room, "WANT_SHUTW")

(* h3_shutr (with a non-zero mode) and h3_shutw: CS_FL_KILL_CONN on the *)
(* conn_stream is copied to the stream first                           *)
h3_shutr(c, id, kill, room) ==
  h3_do_shutr(IF kill THEN SetFlag(c, Real(id), "KILL_CONN") ELSE c, Real(id), room)
h3_shutw(c, id, kill, room) ==
  h3_do_shutw(IF kill THEN SetFlag(c, Real(id), "KILL_CONN") ELSE c, Real(id), room)

(* mutant: nb_cs is not decremented when the conn_stream leaves *)
h3_detach_NoCsCount(c, id) ==
  LET x == [c.strm[id] EXCEPT !.flags = @ \ {"NOTIFIED"}, !.cs = FALSE]
      c1 == [c EXCEPT !.strm[id] = x]
      c2 == IF "DEM_TOOMANY" \in c1.flags /\ ~(c1.nbCs > MaxConcurrent)
            THEN [c1 EXCEPT !.flags = @ \ {"DEM_TOOMANY"}] ELSE c1
      orphan == /\ ~CsAtLeast(c2, "ERROR")
                /\ "BLK_MROOM" \in x.flags
                /\ x.flags \cap WantShut # {} \/ x.subs
      c3 == IF c2.flags \cap DemBlockAny # {} /\ id = c2.dsi
            THEN [c2 EXCEPT !.flags = @ \ (DemBlockAny \cup MuxBlockAny)] ELSE c2
      c4 == h3s_destroy(c3, id)
  IN  IF orphan THEN c2
      ELSE IF h3c_is_dead(c4) THEN h3_release(c4) ELSE c4

h3_detach(c, id) ==
  LET x == [c.strm[id] EXCEPT !.flags = @ \ {"NOTIFIED"}, !.cs = FALSE]
      c1 == [c EXCEPT !.strm[id] = x, !.nbCs = @ - 1]
      c2 == IF "DEM_TOOMANY" \in c1.flags /\ ~(c1.nbCs > MaxConcurrent)
            THEN [c1 EXCEPT !.flags = @ \ {"DEM_TOOMANY"}] ELSE c1
      orphan == /\ ~CsAtLeast(c2, "ERROR")
                /\ "BLK_MROOM" \in x.flags
                /\ x.flags \cap WantShut # {} \/ x.subs
      c3 == IF c2.flags \cap DemBlockAny # {} /\ id = c2.dsi
            THEN [c2 EXCEPT !.flags = @ \ (DemBlockAny \cup MuxBlockAny)] ELSE c2
      c4 == h3s_destroy(c3, id)
  IN  IF orphan THEN c2
      ELSE IF h3c_is_dead(c4) THEN h3_release(c4) ELSE c4

-----------------------------------------------------------------------------
(* The specification *)

(* h3_init on the frontend, the timeout task armed *)
Init ==
  /\ h3c = [st0 |-> "PREFACE", maxId |-> -1, lastSid |-> -1, flags |-> {},
            rcvdC |-> FALSE, rcvdS |-> FALSE, tree |-> {},
            strm |-> [s \in Sids |-> FreeStrm], nbStreams |-> 0, nbCs |-> 0,
            mdata |-> FALSE, dbuf |-> <<>>, dsi |-> -1, dft |-> "NONE",
            darg |-> "-", dpay |-> FALSE, task |-> TRUE, stopping |-> FALSE,
            released |-> FALSE, fault |-> FALSE,
            \* history: ids of the streams created, last-stream-ids sent in
            \* GOAWAY frames and their number, stream ids of the RST_STREAM,
            \* END_STREAM and stream WINDOW_UPDATE frames sent
            created |-> {}, goawayOut |-> {}, nGoaway |-> 0, rstOut |-> {},
            esOut |-> {}, wuOut |-> {}]
  /\ nFrames = 0
  /\ lastStep = "other"

Rooms == BOOLEAN                   \* room left in the mux buffer ring
Xmits == {"none", "part", "all"}  \* what the transport takes of it

(* the peer: the preface, then any frame *)
PeerSend ==
  /\ ~h3c.released /\ ~CsAtLeast(h3c, "ERROR")
  /\ nFrames < MaxFrames /\ Len(h3c.dbuf) < DbufMax
  /\ \E f \in IF nFrames = 0 THEN Preface ELSE Frames :
        h3c' = [h3c EXCEPT !.dbuf = Append(@, f)]
  /\ nFrames' = nFrames + 1 /\ lastStep' = "other"

IoCb == /\ ~h3c.released
        /\ \E room \in Rooms, x \in Xmits : h3c' = h3_io_cb(h3c, room, x)
        /\ UNCHANGED nFrames /\ lastStep' = "other"

Wake == /\ ~h3c.released
        /\ \E room \in Rooms, x \in Xmits : h3c' = h3_wake(h3c, room, x)
        /\ UNCHANGED nFrames /\ lastStep' = "other"

TimerArmed == ~h3c.released /\ h3c.task /\ h3c_may_expire(h3c)
Timeout == /\ TimerArmed
           /\ \E x \in Xmits : h3c' = h3_timeout_task(h3c, x)
           /\ UNCHANGED nFrames /\ lastStep' = "timeout"

(* the frontend proxy is stopped (a reload) *)
ProxyStop == /\ ~h3c.released /\ ~h3c.stopping
             /\ h3c' = [h3c EXCEPT !.stopping = TRUE]
             /\ UNCHANGED nFrames /\ lastStep' = "other"

(* a stream whose conn_stream is attached *)
Attached(s) == ~h3c.released /\ s \in h3c.tree /\ h3c.strm[s].cs
Kills == IF "kill" \in AppOps THEN BOOLEAN ELSE {FALSE}

AppSend(s) ==
  /\ "send" \in AppOps /\ Attached(s)
  /\ \E blk \in OutBlocks, room \in Rooms :
       /\ IF blk = "eom"
          THEN h3c.strm[s].flags \cap {"HEADERS_SENT", "ES_SENT"} = {"HEADERS_SENT"}
          ELSE "HEADERS_SENT" \notin h3c.strm[s].flags
       /\ h3c' = h3_snd_buf(h3c, s, blk, room)
  /\ UNCHANGED nFrames /\ lastStep' = "other"

AppSubscribe(s) == /\ "subscribe" \in AppOps /\ Attached(s) /\ ~h3c.strm[s].subs
                   /\ h3c' = h3_subscribe(h3c, s) /\ UNCHANGED nFrames /\ lastStep' = "other"
AppUnsubscribe(s) == /\ "unsubscribe" \in AppOps /\ Attached(s) /\ h3c.strm[s].subs
                     /\ h3c' = h3_unsubscribe(h3c, s) /\ UNCHANGED nFrames /\ lastStep' = "other"
AppShutr(s) == /\ "shutr" \in AppOps /\ Attached(s)
               /\ \E kill \in Kills, room \in Rooms : h3c' = h3_shutr(h3c, s, kill, room)
               /\ UNCHANGED nFrames /\ lastStep' = "other"
AppShutw(s) == /\ "shutw" \in AppOps /\ Attached(s)
               /\ \E kill \in Kills, room \in Rooms : h3c' = h3_shutw(h3c, s, kill, room)
               /\ UNCHANGED nFrames /\ lastStep' = "other"
AppDetach(s) == /\ "detach" \in AppOps /\ Attached(s) /\ h3c' = h3_detach(h3c, s) /\ UNCHANGED nFrames /\ lastStep' = "other"

App(s) == AppSend(s) \/ AppSubscribe(s) \/ AppUnsubscribe(s) \/ AppShutr(s)
          \/ AppShutw(s) \/ AppDetach(s)

(* The transport takes the whole mux buffer and leaves room: the I/O  *)
(* tasklet woken on send readiness.                                     *)
Flush == /\ ~h3c.released
         /\ h3c' = h3_io_cb(h3c, TRUE, "all")
         /\ UNCHANGED nFrames /\ lastStep' = "flush"

Next == PeerSend \/ IoCb \/ Wake \/ Timeout \/ ProxyStop \/ Flush \/ \E s \in Sids : App(s)

Spec == Init /\ [][Next]_vars

(* The stream layer eventually detaches a stream it was told about.  No *)
(* fairness for the peer, which may stop sending.                      *)
FairSpec == Spec /\ \A s \in Sids : WF_vars(AppDetach(s))

(* The hypotheses of the liveness properties, stated on lastStep so     *)
(* that TLC checks them as state predicates:                            *)
(*   - the transport keeps taking the mux buffer while the connection  *)
(*     lives (the I/O tasklet is woken on send readiness);              *)
(*   - a timer that stays armed fires: h3_process and h3_detach queue  *)
(*     h3c->task with a finite expiry whenever h3c_may_expire holds.    *)
TransportFair == []<>(lastStep = "flush" \/ h3c.released)
TimerFair == <>[]TimerArmed => []<>(lastStep = "timeout")

-----------------------------------------------------------------------------
(* Properties *)

TypeOK ==
  /\ h3c.st0 \in DOMAIN CsRank
  /\ h3c.tree \subseteq Sids /\ h3c.flags \subseteq ConnFlags
  /\ \A s \in Sids : /\ h3c.strm[s].st \in DOMAIN SsRank
                     /\ h3c.strm[s].flags \subseteq StreamFlags
                     /\ h3c.strm[s].cs \in BOOLEAN
  /\ h3c.dbuf \in Seq(Preface \cup Frames)
  /\ h3c.maxId \in {-1, 0} \cup Sids /\ h3c.lastSid \in {-1, MaxSid} \cup GoawayLasts \cup {0} \cup Sids
  /\ h3c.nbStreams \in 0..Cardinality(Sids) /\ h3c.nbCs \in 0..Cardinality(Sids)
  /\ nFrames \in 0..MaxFrames

(* nb_streams counts the streams of the tree not yet closed and nb_cs  *)
(* those with a conn_stream: h3s_close, h3s_destroy, h3_detach and the *)
(* stream creation keep both in step with the tree through every path. *)
StreamCountConsistent ==
  /\ h3c.nbStreams = Cardinality({s \in h3c.tree : h3c.strm[s].st # "CLOSED"})
  /\ h3c.nbCs = Cardinality({s \in h3c.tree : h3c.strm[s].cs})

(* No handler writes through the static const dummy streams that         *)
(* h3c_st_by_id returns for ids it does not hold (h3s->id == 0 guards).  *)
NoDummyWrite == ~h3c.fault

(* A stream only moves forward in its life cycle (RFC 7540 5.1 as the  *)
(* code implements it): idle to open, open to a half-closed state,      *)
(* error or closed, a half-closed state to error or closed, error to   *)
(* closed, and a closed stream stays closed until it leaves the tree.  *)
(* Handlers of the demux, the stream layer and the wake-ups all write  *)
(* h3s->st.                                                             *)
StreamStep == {<<"IDLE", "OPEN">>, <<"OPEN", "HREM">>, <<"OPEN", "HLOC">>,
               <<"OPEN", "ERROR">>, <<"OPEN", "CLOSED">>, <<"HREM", "ERROR">>,
               <<"HREM", "CLOSED">>, <<"HLOC", "ERROR">>, <<"HLOC", "CLOSED">>,
               <<"ERROR", "CLOSED">>}
StreamTransitionsLegal ==
  [][\A s \in h3c.tree \cap h3c'.tree :
       h3c'.strm[s].st = h3c.strm[s].st
       \/ <<h3c.strm[s].st, h3c'.strm[s].st>> \in StreamStep]_vars

(* A connection in error ends: the GOAWAY goes out, the streams are     *)
(* woken in error and detached, orphans are destroyed, and h3_process, *)
(* h3_detach or, when neither finds the connection dead (a graceful    *)
(* GOAWAY set last_sid to 2^31-1), the idle timer releases it.         *)
ErrorLeadsToRelease ==
  TransportFair /\ TimerFair => (CsAtLeast(h3c, "ERROR") ~> h3c.released)

(* Our GOAWAY's last-stream-id covers every stream we processed (RFC   *)
(* 7540 6.8): h3c_send_goaway_error sends h3c->last_sid, which         *)
(* h3c_handle_goaway may have set from the peer's GOAWAY.               *)
GoawayLastCoversProcessed ==
  \A g \in h3c.goawayOut, s \in h3c.created : s <= g

(* A SETTINGS or PING ACK, or the RST_STREAM that the demux owes for   *)
(* the current frame, is eventually sent once the mux buffer drains;   *)
(* h3_process only runs the demux while the demux buffer holds bytes.  *)
ReplyPending == \/ h3c.st0 = "FRAME_E"
                \/ h3c.st0 = "FRAME_A" /\ h3c.dft \in {"SETTINGS", "PING"}
ReplyEventuallySent == TransportFair => (ReplyPending ~> ~ReplyPending)

(* A stream WINDOW_UPDATE names a stream (ids are positive): h3_process_mux *)
(* sends h3c->rcvd_s for h3c->dsi, which is -1 between frames.           *)
StreamWuNamesStream == \A w \in h3c.wuOut : w > 0

(* A stream detached while its shutdown was blocked on the mux buffer  *)
(* gets its END_STREAM or RST_STREAM out: the comment of h3_do_shutw   *)
(* says h3_deferred_shut runs via shut_tl once there is room.          *)
Orphaned(s) == /\ s \in h3c.tree /\ ~h3c.strm[s].cs
               /\ h3c.strm[s].flags \cap WantShut # {}
OrphanShutDone ==
  TransportFair => \A s \in Sids : Orphaned(s) ~> (s \in h3c.esOut \cup h3c.rstOut)

(* GOAWAY is emitted at most once per connection. *)
GoawayAtMostOnce == h3c.nGoaway <= 1

====
