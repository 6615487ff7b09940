------------------------ MODULE MCCredentialExchange ------------------------
(* An instance of CredentialExchange for TLC.                              *)
EXTENDS CredentialExchange

OnePacket == [k \in Key |-> 1]
=============================================================================
