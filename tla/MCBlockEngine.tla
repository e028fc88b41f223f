--------------------------- MODULE MCBlockEngine ---------------------------
(* Small instances of BlockEngine for TLC.                                 *)
EXTENDS BlockEngine, TLC

\* The tokens are looked at less often than the link: twice the period of the
\* watchdog, and three times.
EveryUnit == [k \in Timer |-> IF k = "auth" THEN 2 ELSE 1]
RareAuth == [k \in Timer |-> IF k = "auth" THEN 3 ELSE 1]
NoBatches == <<>>
NoTables == <<>>

\* Without expiry, expired, and long enough for two looks of RareAuth at it.
AnyLifetime == {NoExpiry, 0, 9}

Tx(key, writable, lookups) == [static |-> << [key |-> key, writable |-> writable] >>, lookups |-> lookups]
Packet(tx) == [discard |-> FALSE, parses |-> TRUE, tx |-> tx]
Lookup(w, r) == << [table |-> "t", writable_indexes |-> w, readonly_indexes |-> r] >>

\* a may be of interest, o is listed; table "t" leads to both, and to nothing at 7.
SomeTables == [t \in {"t"} |-> <<"a", "o">>]
SomeBatches ==
  << << Packet(Tx("a", TRUE, <<>>)), [Packet(Tx("a", TRUE, <<>>)) EXCEPT !.discard = TRUE],
        Packet(Tx("a", TRUE, Lookup(<<7>>, <<1>>))) >>,
     << Packet(Tx("x", FALSE, Lookup(<<>>, <<0>>))), Packet(Tx("x", FALSE, Lookup(<<0>>, <<>>))),
        [Packet(Tx("a", TRUE, <<>>)) EXCEPT !.parses = FALSE] >> >>
=============================================================================
