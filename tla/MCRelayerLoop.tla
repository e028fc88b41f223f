--------------------------- MODULE MCRelayerLoop ---------------------------
(* A small instance of RelayerLoop for TLC.                                *)
EXTENDS RelayerLoop, TLC

CONSTANTS v1, v2

\* Two epochs' worth of cache.  With a lookahead of two, slot 1 has one leader, another
\* one in each; slot 4 is past the epoch the cache holds and has none.
TwoSchedules == {<<v1, v1, v2>>, <<v2, v2, v1>>}

\* Two calls of one validator, or one of each, up to the names of the validators.
OneOrBoth == {<<v1, v1>>, <<v1, v2>>}

\* With BatchSize 2: two message batches, the second one short.
MixedBatch == << <<"plain", "ofac", "plain", "discard", "plain", "garbled">> >>
=============================================================================
