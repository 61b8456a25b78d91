------------------------------ MODULE MC_Daemon ------------------------------
(* Two daemons, one after the other, on one mountpoint.                       *)
EXTENDS Daemon

\* mount_program, PVC mode with a control socket, and in the foreground.
MCModes == { [fork |-> TRUE,  ctl |-> FALSE, tmp |-> TRUE],
             [fork |-> TRUE,  ctl |-> TRUE,  tmp |-> FALSE],
             [fork |-> FALSE, ctl |-> FALSE, tmp |-> FALSE] }
===============================================================================
