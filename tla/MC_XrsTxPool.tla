---------------------------- MODULE MC_XrsTxPool ----------------------------
EXTENDS XrsTxPool

CONSTANT MaxPushes   \* transactions broadcast in one behaviour

MCFees == {1, 3, 5, 9}

StateBound == BagCardinality(accepted) <= MaxPushes
=============================================================================
