------------------------------- MODULE MCCmdWalk -------------------------------
(***************************************************************************)
(* CmdWalk with a list that draws, one that calls it and then branches to  *)
(* it, one that calls itself and one with a null call.  No list branches   *)
(* back to itself: such a walk is as long as the visitor wishes.           *)
(***************************************************************************)
EXTENDS CmdWalk

Cmd(o, a) == [op |-> o, arg |-> a]

MCList == {"tree", "forest", "endless", "broken"}
MCOperand == {"state", "matrix", "triangles"}
MCBody ==
  [tree    |-> <<Cmd("visit", "triangles"), Cmd("return", "none")>>,
   forest  |-> <<Cmd("call", "tree"), Cmd("branch", "tree"), Cmd("visit", "matrix"),
                 Cmd("end", "none")>>,
   endless |-> <<Cmd("visit", "state"), Cmd("call", "endless"), Cmd("end", "none")>>,
   broken  |-> <<Cmd("call", "tree"), Cmd("call", "none"), Cmd("end", "none")>>]
MCRecorded ==
  {Cmd("visit", "state"), Cmd("return", "none"), Cmd("branch", "none")}
    \cup {Cmd("call", l) : l \in MCList} \cup {Cmd("branch", l) : l \in MCList}
=============================================================================
