------------------------------ MODULE MCParapin -----------------------------
EXTENDS ParapinUse

\* Two data pins, one status pin and one control pin, inverted.
MCData == {0, 1}
MCStatus == {15}
MCSwitchable == {16}
MCMasks == {{0}, {1, 16}, {20}}
MCNumbers == {1, 2, 18}
MCKept == {{}, {1}, {16, 20}, {15, 21}}
=============================================================================
