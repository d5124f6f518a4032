--------------------------- MODULE MCChunkServer ---------------------------
EXTENDS ChunkServer, TLC

CONSTANTS c1, c2

MCKind == [s3 |-> "s3", ssh |-> "ssh", web |-> "http", disk |-> "local"]

File(stores, cached) == [stores |-> stores, cached |-> cached]
Option(w, v, r, x) == [writable |-> w, skipVerify |-> v, cacheRepair |-> r, strangers |-> x]

\* Two stores behind a cache, an ssh store first, and single stores.
MCConfigs == {File(<<"s3", "web">>, TRUE), File(<<"ssh", "disk">>, FALSE), File(<<"web">>, FALSE),
              File(<<"disk">>, TRUE)}
MCOptions == {Option(TRUE, TRUE, FALSE, {c2}), Option(TRUE, TRUE, FALSE, {}),
              Option(FALSE, TRUE, FALSE, {}), Option(FALSE, FALSE, TRUE, {})}

MCStores == DOMAIN MCKind
MCHoldings ==
    {[s3 |-> {}, ssh |-> {}, web |-> {}, disk |-> {}],
     [s3 |-> {}, ssh |-> {}, web |-> {1}, disk |-> {1}],
     [s3 |-> {1}, ssh |-> {1}, web |-> {}, disk |-> {}]}
=============================================================================
