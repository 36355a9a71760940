------------------------------ MODULE MC_VMMap ------------------------------
(***************************************************************************)
(* Small instances of VMMap for TLC: pages of 2 bytes, user pages 1..5,    *)
(* page numbers held modulo 8.                                             *)
(***************************************************************************)
EXTENDS VMMap

\* anonymous mappings with and without a hint, private and shared
MC_MmapFlags ==
    {{MAP_PRIVATE, MAP_ANON}, {MAP_SHARED, MAP_ANON},
     {MAP_PRIVATE, MAP_ANON, MAP_FIXED}}
=============================================================================
