----------------------------- MODULE MCStartUp ------------------------------
(* A small instance of StartUp: two values of listen_port and one of admin_port *)
EXTENDS StartUp

MCPorts      == {7890, 7891}
MCAdminPorts == {9090}
=============================================================================
