----------------------------- MODULE MCProcess -----------------------------
(* The drivers in the order of each of the two systems' builds.               *)
EXTENDS Process

MCDriverNames == <<"libpcap", "bpf", "sockraw">>
=============================================================================
