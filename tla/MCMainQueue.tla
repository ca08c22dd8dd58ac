------------------------------ MODULE MCMainQueue ------------------------------
(* One task, the main task, one interrupt and one timer on queues of one and two *)
(* places, so that every queue is full at times.                                *)
EXTENDS MainQueue, TLC

CONSTANTS task1, timer1

MCMaxPosts == (task1 :> 1) @@ (Main :> 2) @@ (Isr :> 1) @@ (timer1 :> 1)

\* No interrupts and no timers: what is left of the failures is the task's own call.
MCTaskOnly == (task1 :> 1) @@ (Main :> 0) @@ (Isr :> 0) @@ (timer1 :> 0)
================================================================================
