----------------------------- MODULE MCEdgeCert -----------------------------
EXTENDS EdgeCert
TwoBases == {"a.example", "b.example"}
=============================================================================
