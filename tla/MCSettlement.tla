---- MODULE MCSettlement ----
EXTENDS Settlement
====
