--------------------------- MODULE BlockDownloadMC ---------------------------
(***************************************************************************)
(* A chain of two blocks and an invalid competitor; one honest outbound    *)
(* peer and an inbound one that does as it likes.                          *)
(***************************************************************************)
EXTENDS BlockDownload
CONSTANTS o, i, g, a1, a2, b1
MCParent == (a1 :> g) @@ (a2 :> a1) @@ (b1 :> g)
MCFault == (a1 :> "none") @@ (a2 :> "none") @@ (b1 :> "connect")

(* The records of what is in flight agree, and a peer that follows the     *)
(* protocol is never punished (RequestsConsistent, HonestNotPunished).     *)
DownloadSound == RequestsConsistent /\ HonestNotPunished
=============================================================================
