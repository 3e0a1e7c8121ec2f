---------------------------- MODULE MCReadThrough ----------------------------
(* ReadThrough on small instances: one article, what is related to it, and   *)
(* the source list.                                                          *)
EXTENDS ReadThrough

CONSTANTS d1, d2, rel1, rel2, help1, help2, s1, s2, article, related, sources

MCRelatedReaders == {d1, rel1, rel2, help1, help2}
MCMixedReaders   == {rel1, rel2, help1, help2, s1}
MCArticleReaders == {d1, d2}
MCListReaders    == {s1, s2}

MCKeys    == {article, related, sources}
MCDetails == {article}
MCLists   == {sources}

MCKeyOf == [r \in Readers |-> CASE r \in {d1, d2, help1, help2} -> article
                                [] r \in {rel1, rel2} -> related
                                [] r \in {s1, s2} -> sources]

MCHelper == [r \in Readers \cap {rel1, rel2} |-> IF r = rel1 THEN help1 ELSE help2]

MCEmbedded   == {}
MCUnembedded == {rel1, rel2}

MCBorn      == [k \in Details |-> 0]
MCBornLater == [k \in Details |-> 1]
=============================================================================
