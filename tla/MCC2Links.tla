------------------------------ MODULE MCC2Links ------------------------------
(* The C2 links on small sets.  Besides the default address there is one   *)
(* peer per host, which shares neither ip nor port with another: hosts are *)
(* interchangeable.                                                        *)
EXTENDS C2Links, TLC

CONSTANT Hosts

MCDefault == [ip |-> 1, port |-> 1]
MCPeers == {MCDefault} \cup {[ip |-> h, port |-> h] : h \in Hosts}
MCUploaders == {"heartbeat", "target"}

MCSymmetry == Permutations(Slots) \cup Permutations(Hosts)
=============================================================================
