---------------------------- MODULE MCSocketScheduler ----------------------------
(***************************************************************************)
(* The constants of the scheduler's run: a job that catches up and is      *)
(* registered twice, and one that does not.                                *)
(***************************************************************************)
EXTENDS SocketScheduler

MCNames == {"syncWithDatabase", "autoTimerSync"}
MCInterval == [syncWithDatabase |-> 1, autoTimerSync |-> 2]
MCMaxAdds == [syncWithDatabase |-> 2, autoTimerSync |-> 1]

=============================================================================
