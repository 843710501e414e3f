--------------------------- MODULE MCRealtimeOutbox ---------------------------
(* Small instances of RealtimeOutbox: a call event and a territory event. *)
EXTENDS RealtimeOutbox

CONSTANTS call, alert, p1, p2, w1, w2, k1
===============================================================================
