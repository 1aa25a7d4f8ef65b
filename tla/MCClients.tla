----------------------------- MODULE MCClients -----------------------------
EXTENDS Clients
=============================================================================
