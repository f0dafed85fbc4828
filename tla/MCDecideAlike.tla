--------------------------- MODULE MCDecideAlike ---------------------------
(* Two clients of a limiter with room for a burst; lockouts off, shorter and  *)
(* longer than the window.                                                   *)
EXTENDS DecideAlike

MCLockFors == {0, 2, 4}

============================================================================
