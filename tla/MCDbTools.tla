------------------------------ MODULE MCDbTools ------------------------------
EXTENDS DbTools, TLC
MCCalls == (Tools \X Steps) \cup UiCalls
=============================================================================
