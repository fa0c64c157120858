---------------------------- MODULE MCBlockStore ----------------------------
(* Instances of BlockStore.                                                *)
EXTENDS BlockStore

TwoCarriers == <<0, 1, 3>>
=============================================================================
