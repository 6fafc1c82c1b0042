----------------------------- MODULE MCDashSocket -----------------------------
(* A small instance of DashSocket: the dashboard is shown twice.               *)
EXTENDS DashSocket
=============================================================================
