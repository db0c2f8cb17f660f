----------------------------- MODULE MCTransfer -----------------------------
EXTENDS Transfer, TLC

CONSTANTS c1, c2, h1, h2, junk

MCCallers == {c1, c2}
MCHashes == {h1, h2}
MCMfstNodes == << h1, h2 >>

=============================================================================
