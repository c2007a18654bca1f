---------------------------- MODULE MCLspSession ----------------------------
EXTENDS LspSession, TLC
CONSTANTS D1, D2
=============================================================================
