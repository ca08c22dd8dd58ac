------------------------------- MODULE MCNetwork -------------------------------
(* A small instance of Network for TLC. *)
EXTENDS Network

Servers == <<"gateway", "pool", "dhcp">>
Sockets == 0 .. 1
================================================================================
