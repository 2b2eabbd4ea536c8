--------------------------- MODULE MCSecureStorage ---------------------------
EXTENDS SecureStorage, TLC

CONSTANTS n1, n2, n3, v1, v2, v3, t1, t2

\* The devices of the runs: virgin, and with one key burnt in, under a map
\* with magic and under a legacy map; only maps with magic; and an empty one.
MCVirgin    == {PlainMap(<<>>)}
MCFormatted == {GoodMap(<<>>), GoodMap(<<n1>>)}
MCFactory   == MCVirgin \cup MCFormatted \cup {PlainMap(<<n1>>)}
MCEmpty     == {GoodMap(<<>>)}

\* Payloads that are texts; v3 is v1 followed by a NUL and more.
MCText      == [v \in Values |-> v]
MCBinary    == [v \in Values |-> IF v = v3 THEN v1 ELSE v]

MCBatch     == <<n1, n2>>
MCHeap      == {<<>>, <<n2>>}
MCNoPrefix  == {}
MCPrefix    == {<<n1, n2>>}
MCSymmetry  == Permutations({v1, v2}) \cup Permutations({t1, t2})
=============================================================================
