---------------------------- MODULE MCKernelPass ----------------------------
(* KernelPass with texts of up to three characters, of which names keep    *)
(* two: "a " and "a_" share a name, and so do the formats of "abc".  "5%"   *)
(* has a character printf takes for the start of a directive.              *)
EXTENDS KernelPass

MCGrid == <<2, 3, 5>>
MCPrefixes == {<<"a", " ">>, <<"a", "_">>, <<"a", "b", "c">>, <<"5", "%">>}
MCNames == {<<"a", " ">>, <<"a", "_">>}
MCPercent == {<<"5", "%">>}
=============================================================================
