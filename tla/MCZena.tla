------------------------------- MODULE MCZena -------------------------------
EXTENDS Zena

MCOptions ==
    {[format |-> "pcap", scan |-> FALSE, drop |-> TRUE],
     [format |-> "pcap", scan |-> FALSE, drop |-> FALSE],
     [format |-> "pcap", scan |-> TRUE, drop |-> FALSE],
     [format |-> "usbhex", scan |-> TRUE, drop |-> FALSE]}
=============================================================================
