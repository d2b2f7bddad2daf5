-------------------------------- MODULE MCTurn --------------------------------
\* TURN credentials of two members at two addresses.
EXTENDS TurnCredentials

CONSTANTS k1, k2

TwoAddresses == (k1 :> "here") @@ (k2 :> "there")
===============================================================================
