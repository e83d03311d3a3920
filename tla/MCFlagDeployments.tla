------------------------- MODULE MCFlagDeployments -------------------------
EXTENDS FlagDeployments
MCCanonicalFlags == <<"header">>
=============================================================================
