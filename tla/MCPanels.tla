------------------------------ MODULE MCPanels ------------------------------
(***************************************************************************)
(* Two workloads and a domain for Panels, with an edge between the workloads *)
(* that a rule declares and one from the domain that none does.              *)
(***************************************************************************)
EXTENDS Panels

MCWorkloads == {"a", "b"}
MCCards == {"host"}
MCHosts == {"host"}
MCLinks == {<<"a", "b">>, <<"host", "b">>}
MCDeclared == {<<"a", "b">>}
=============================================================================
