------------------------- MODULE MC_EpochStateStore -------------------------
EXTENDS EpochStateStore, TLC

CONSTANTS b1, b2, e1, e2, r1, r2

MCBlocks == {b1, b2}
MCEntryIDs == {e1, e2}
MCReaders == {r1, r2}

\* an entry without the previous epoch and with the next one set up, and
\* one with the previous epoch and the next one committed
MCShape == [e \in MCEntryIDs |->
              IF e = e1 THEN [prev |-> FALSE, next |-> "setup"]
                        ELSE [prev |-> TRUE, next |-> "committed"]]

\* blocks and readers are interchangeable; entries differ by their shape
MCSymmetry == Permutations(MCBlocks) \cup Permutations(MCReaders)
=============================================================================
