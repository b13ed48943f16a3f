---------------------------- MODULE SlaveWait ----------------------------
(* What the commands of the debugger count on when they resume the slave  *)
(* and call handle_pty (Tracer is written on this ground): the slave runs *)
(* until it stops or dies, and the command goes on after exactly one      *)
(* waitpid for that, never while the slave runs.                          *)

VARIABLE slave      \* "running", "stopped" (not waited for), "waited"

Init == slave = "running"

Stop   == slave = "running" /\ slave' = "stopped"
Return == slave = "stopped" /\ slave' = "waited"
Resume == slave = "waited"  /\ slave' = "running"

Next == Stop \/ Return \/ Resume

Spec == Init /\ [][Next]_slave
==========================================================================
