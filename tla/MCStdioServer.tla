-------------------------- MODULE MCStdioServer --------------------------
(***************************************************************************)
(* Small sessions for checking StdioServer.                                *)
(***************************************************************************)
EXTENDS StdioServer, TLC

CONSTANTS m1, m2, d, l, s, u

AllKinds == 
  [r \in Requests |-> CASE r = l -> "light" [] r = s -> "silent" [] r = u -> "unreadable" [] OTHER -> "call"]

(***************************************************************************)
(* The server ends after a failed write, and after the end of its input    *)
(* (WriteFailureEndsServer and EndOfInputEndsServer of StdioServer).       *)
(***************************************************************************)
ServerEnds == WriteFailureEndsServer /\ EndOfInputEndsServer
=============================================================================
