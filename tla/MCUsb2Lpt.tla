------------------------------ MODULE MCUsb2Lpt -----------------------------
EXTENDS Usb2Lpt

\* Three kinds of programs: one changes directions, modes, open collectors
\* and DirectIO; one fills and empties the FIFO; one uses EPP, the status and
\* control ports and the registers that set drivers.
MCPortPackets ==
    {{<<0, 5>>, <<2, 32>>, <<10, 0>>, <<10, 32>>, <<15, 0>>, <<15, 1>>, <<15, 64>>, <<35, 9>>},
     {<<8, 2>>, <<10, 64>>, <<10, 192>>, <<24>>, <<35, 1>>},
     {<<1, 4>>, <<4, 9>>, <<10, 128>>, <<12, 9>>, <<13, 8>>, <<14, 15>>, <<36, 23>>}}
MCStreamBytes == {0, 16}
=============================================================================
