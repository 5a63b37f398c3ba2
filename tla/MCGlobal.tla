------------------------------- MODULE MCGlobal -------------------------------
\* A start and reloads with up to two addresses, in either order.
EXTENDS SpyGlobal

CONSTANTS addr1, addr2

MCConfigurations == {<<addr1>>, <<addr2>>, <<addr1, addr2>>, <<addr2, addr1>>}
=============================================================================
