---------------------------- MODULE MCWebBundles ----------------------------
EXTENDS WebBundles
RemoteFirst == <<"orders-mf", "core-web">>
=============================================================================
