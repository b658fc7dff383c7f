---------------------------- MODULE MCGeneration ----------------------------
\* One run to a site with two hosts.
EXTENDS Generation
MCHosts == <<"slug", "custom">>
=============================================================================
