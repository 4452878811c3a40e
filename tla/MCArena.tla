------------------------------ MODULE MCArena --------------------------------
(***************************************************************************)
(* A small instance of Arena: arenas enough to detach one, attach it to    *)
(* another object and drop both; a region with room for two blocks.        *)
(***************************************************************************)
EXTENDS Arena, TLC

ArenaSymmetry == Permutations(Svs) \cup Permutations(Raws)
                 \cup Permutations(Objs) \cup Permutations(Transients)
=============================================================================
