---------------------------- MODULE MCClientStore ---------------------------
(* Two links that look the same in the dialog; one is too long for the pipe *)
(* and has, in a field that is not shown, what the model does not accept.   *)
(* Two requests beside the framework's edits.                               *)
EXTENDS ClientStore, TLC

CONSTANTS u1, u2, u3, u4, c0, c1, c2, v0, v1, l1, l2

MCParsed == (l1 :> c1) @@ (l2 :> c2)
MCView == (c0 :> v0) @@ (c1 :> v1) @@ (c2 :> v1)
MCInitConfig == [rows |-> (u1 :> c0), active |-> u1, settings |-> "on"]
=============================================================================
