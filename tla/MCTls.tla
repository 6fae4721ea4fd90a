-------------------------------- MODULE MCTls --------------------------------
\* The instances of Tls that TLC checks.
EXTENDS Tls
=============================================================================
