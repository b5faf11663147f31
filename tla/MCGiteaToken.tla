---------------------------- MODULE MCGiteaToken ----------------------------
EXTENDS GiteaToken
=============================================================================
