---------------------------- MODULE MCSyncWorker ----------------------------
(***************************************************************************)
(* Instances of SyncWorker for TLC: what the server holds before the       *)
(* client's first sync.                                                    *)
(***************************************************************************)
EXTENDS SyncWorker, TLC

Created(r) == [rec |-> r, op |-> "create"]
GenesisTwo == <<Created(1), Created(2)>>
=============================================================================
