----------------------------- MODULE AnnounceMC -----------------------------
(***************************************************************************)
(* Two branches of two blocks, and a block that is not valid on one.       *)
(***************************************************************************)
EXTENDS Announce

MCPeers == [kind : {"legacy", "inv", "headers"}, sync : {"done"}, other : {0}]
           \cup [kind : {"hb"}, sync : {"loading", "done"}, other : {1}]

MCParent == 1 :> 0 @@ 2 :> 1 @@ 3 :> 2 @@ 11 :> 0 @@ 12 :> 11
=============================================================================
