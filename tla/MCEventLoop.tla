---- MODULE MCEventLoop ----
(***************************************************************************)
(* EventLoop for TLC: one or two kinds of events, as model values.         *)
(***************************************************************************)
EXTENDS EventLoop
CONSTANTS k1, k2
====
