---------------------------- MODULE MCTrustDialog ----------------------------
\* Two keys, every word of either vocabulary and one outside both, two questions.
EXTENDS TrustDialog, TLC

MCTexts == {"import", "trust", "true", "yes", "accept", "ok"}
MCSymmetry == Permutations(Keys)
=============================================================================
