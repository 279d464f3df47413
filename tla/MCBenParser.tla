---------------------------- MODULE MCBenParser ----------------------------
EXTENDS BenParser
=============================================================================
