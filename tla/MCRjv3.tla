-------------------------------- MODULE MCRjv3 --------------------------------
(* Instances of Rjv3 for TLC. *)
EXTENDS Rjv3

\* A challenge is answered like an identity request.
RjFrames == {"identity", "success", "success_key", "failure"}
\* The other types differ from DHCP_AFTER_AUTH only in the content of a frame.
TwoDhcpTypes == {"DHCP_DOUBLE_AUTH", "DHCP_AFTER_AUTH"}
PrinterAndRjv3 == <<"printer", "rjv3">>
=============================================================================
