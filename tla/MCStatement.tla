----------------------------- MODULE MCStatement -----------------------------
EXTENDS Statement
=============================================================================
