---------------------------- MODULE TxDownloadMC ----------------------------
(* Module TxDownload for TLC.  Between them: a transaction with a witness, *)
(* the same one stripped of it, and a child that spends it.                *)
EXTENDS TxDownload

CONSTANTS p1, p2

(* Of two equals, p2 has the higher priority. *)
MCLowBits == [h \in TxHashes |-> [p \in Peers |->
                 IF p = p1 THEN 0 ELSE 2]]

Parent == [txid |-> "t", wtxid |-> "w", parents |-> {}]
ParentStripped == [txid |-> "t", wtxid |-> "t", parents |-> {}]
Child == [txid |-> "c", wtxid |-> "c", parents |-> {"t"}]

Family == {Parent, ParentStripped, Child}

(* OrphanIsReconsidered; nothing is kept for a peer that is gone           *)
(* (OnlyConnected); and when GetRequestable answers, every announcement is *)
(* on the right side of the present time (TimesSettled).                   *)
DownloadTidy == OrphanIsReconsidered /\ OnlyConnected /\ TimesSettled
=============================================================================
