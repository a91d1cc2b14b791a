------------------------- MODULE MCReauthentication --------------------------
EXTENDS Reauthentication, TLC

\* The codes the router's answers use.
MCCodes == {-32000, -5, -1}
=============================================================================
