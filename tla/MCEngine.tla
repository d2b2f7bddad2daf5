------------------------------- MODULE MCEngine -------------------------------
\* The rules engine, and its mapping to Table, at small tables.
EXTENDS EngineTable, SmallTables
===============================================================================
