--------------------------- MODULE MCIndexerCache ---------------------------
(***************************************************************************)
(* IndexerCache for TLC, with what the repository says of the cache and    *)
(* the code does not keep.  Each of these has a run of its own that ends   *)
(* in a counterexample.                                                    *)
(***************************************************************************)
EXTENDS IndexerCache

(* data-indexer/data_indexer.py:325 "A cache is invalidated while its      *)
(* generation lags behind, so [...] a change that lands during a scan      *)
(* triggers another scan instead of being lost."  Two scans of one listing *)
(* that end together may leave the older data with the newer generation.   *)
NoChangeIsLost ==
    \A k \in Keys : cache[k] # None /\ ~_cache_is_invalidated(k) =>
                        told[Root(k)] \subseteq cache[k].shows

(* data-indexer/README.md:31 "Cache survives container restarts and        *)
(* rebuilds".  /parquet and /parquet-satellites share a root, and the      *)
(* table keeps one row for each root: saving the one listing drops the     *)
(* other, which the next start does not restore.                           *)
Kept(k) == table[Root(k)] # None /\ table[Root(k)].type = Type(k)

CacheSurvives == [][\A k \in Keys : Kept(k) => Kept(k)']_vars
=============================================================================
