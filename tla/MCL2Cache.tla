----------------------------- MODULE MCL2Cache ------------------------------
(***************************************************************************)
(* Requests for a small bank.  Ids are never repeated, as those of         *)
(* generate_mem_access_id.                                                 *)
(***************************************************************************)
EXTENDS L2Cache

(* Loads: two objects that share a block, of three in a set of two ways, and*)
(* a large one.                                                             *)
ReadRequest == 1 .. 3
ReadId == [r \in ReadRequest |-> r]
ReadBase == <<0, 1, 4>>
ReadBlocks == <<2, 2, 9>>

(* Blocks that fall into one set of two ways: stores and a load that evict  *)
(* each other's blocks, and a large object.                                 *)
EvictRequest == 1 .. 4
EvictId == [r \in EvictRequest |-> r]
EvictBase == <<0, 1, 2, 0>>
EvictBlocks == <<1, 1, 1, 3>>
=============================================================================
