------------------------------ MODULE MC_H3Mux ------------------------------
(* Frame alphabets of the peer for model checking H3Mux.  Each keeps the *)
(* frame kinds that the run's question needs, so that a run can afford *)
(* more frames.                                                        *)
EXTENDS H3Mux

(* the requests: streams opened, ended, reset and padded data on them *)
StreamFrames ==
  [ft : {"HEADERS"}, sid : Sids, arg : {"ok", "ok_es"}]
  \cup [ft : {"DATA"}, sid : Sids, arg : {"es", "pad"}]
  \cup [ft : {"RST_STREAM"}, sid : Sids, arg : {"-"}]
  \cup [ft : {"SETTINGS"}, sid : {0}, arg : {"ok"}]
  \cup [ft : {"GOAWAY"}, sid : {0}, arg : GoawayLasts]

(* connection-level frames and malformed requests *)
ControlFrames ==
  [ft : {"HEADERS"}, sid : Sids, arg : {"ok", "err", "hpack", "nomem"}]
  \cup [ft : {"WINDOW_UPDATE"}, sid : {0} \cup Sids, arg : {"inc", "zero"}]
  \cup [ft : {"PRIORITY"}, sid : Sids, arg : {"ok", "self"}]
  \cup [ft : {"CONTINUATION"}, sid : Sids, arg : {"-"}]
  \cup [ft : {"SETTINGS"}, sid : {0}, arg : {"ok", "empty", "bad", "ack", "ack_len"}]
  \cup [ft : {"PING"}, sid : {0}, arg : {"req", "ack"}]
  \cup [ft : {"UNKNOWN", "MALFORMED"}, sid : {0}, arg : {"-"}]
=============================================================================
