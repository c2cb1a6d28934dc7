------------------------------- MODULE Pools -------------------------------
(***************************************************************************)
(* How a pool divides assets among its connections                         *)
(* (rust_engine/src/ws_pool.rs).                                           *)
(***************************************************************************)
EXTENDS Naturals, SequencesExt, FiniteSetsExt

CONSTANTS
  Tokens,  \* the assets, by the token id the venue knows them by
  Cap      \* max_assets_per_connection

ASSUME TokensAssumption == IsFiniteSet(Tokens)
ASSUME CapAssumption == Cap \in Nat \ {0}

\* The i-th chunk of a list (slice::chunks).
Chunk(list, i) == ToSet(SubSeq(list, (i - 1) * Cap + 1, Min({i * Cap, Len(list)})))

\* The chunks that hold n assets.
NumChunks(n) == (n + Cap - 1) \div Cap
=============================================================================
