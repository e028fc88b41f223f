---------------------------- MODULE PacketFilter ----------------------------
(***************************************************************************)
(* The filters on transactions: core/src/ofac.rs and the functions         *)
(* is_aoi_in_static_keys, is_aoi_in_lookup_table and filter_packets of     *)
(* block_engine/src/block_engine.rs.                                       *)
(*                                                                         *)
(* A packet is a record [discard, parses, tx].  A transaction is a record  *)
(* [static, lookups]: static is a sequence of [key, writable], and lookups *)
(* a sequence of [table, writable_indexes, readonly_indexes], empty for a  *)
(* legacy message.  tables, the address lookup table cache, maps the       *)
(* tables it holds to their sequence of addresses; aoi and poi are the     *)
(* keys the two caches hold unexpired.                                     *)
(***************************************************************************)
EXTENDS Naturals, Sequences

StaticKeys(tx) == {tx.static[i].key : i \in DOMAIN tx.static}
WritableKeys(tx) == {tx.static[i].key : i \in {j \in DOMAIN tx.static : tx.static[j].writable}}

\* The addresses behind a list of 0-based indexes; a table that is not cached
\* and an index beyond its end yield none.
Resolve(table, indexes, tables) ==
  IF table \notin DOMAIN tables THEN {}
  ELSE {tables[table][indexes[i] + 1] :
          i \in {j \in DOMAIN indexes : indexes[j] + 1 \in DOMAIN tables[table]}}

WritableLookups(tx, tables) ==
  UNION {Resolve(tx.lookups[i].table, tx.lookups[i].writable_indexes, tables) : i \in DOMAIN tx.lookups}
ReadonlyLookups(tx, tables) ==
  UNION {Resolve(tx.lookups[i].table, tx.lookups[i].readonly_indexes, tables) : i \in DOMAIN tx.lookups}

is_tx_ofac_related(tx, ofac, tables) ==
  (StaticKeys(tx) \cup WritableLookups(tx, tables) \cup ReadonlyLookups(tx, tables)) \cap ofac # {}

is_aoi_in_static_keys(tx, aoi, poi) ==
  WritableKeys(tx) \cap aoi # {} \/ StaticKeys(tx) \cap poi # {}

is_aoi_in_lookup_table(tx, aoi, poi, tables) ==
  \/ WritableLookups(tx, tables) \cap (aoi \cup poi) # {}
  \/ ReadonlyLookups(tx, tables) \cap poi # {}

is_forwardable(p, aoi, poi, ofac, tables, forward_all) ==
  /\ ~p.discard
  /\ p.parses
  /\ ~is_tx_ofac_related(p.tx, ofac, tables)
  /\ \/ forward_all
     \/ is_aoi_in_static_keys(p.tx, aoi, poi)
     \/ is_aoi_in_lookup_table(p.tx, aoi, poi, tables)

\* The positions in batch of the packets filter_packets keeps; it returns None
\* when there are none.
filter_packets(batch, aoi, poi, ofac, tables, forward_all) ==
  {i \in DOMAIN batch : is_forwardable(batch[i], aoi, poi, ofac, tables, forward_all)}
=============================================================================
