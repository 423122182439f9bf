--------------------------- MODULE MCLiveFixture ---------------------------
EXTENDS LiveFixture

MCRoles   == <<"primary", "peer">>
\* A plain case is prepared like a room whose actions are all answered with errors.
MCKinds   == {"room", "rank"}
=============================================================================
