------------------------------- MODULE MCRestore ------------------------------
\* The rules engine with server restarts, and what bots and browsers make of it, at small tables.
EXTENDS RestoredViews, SmallTables
===============================================================================
