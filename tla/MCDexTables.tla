------------------------------ MODULE MCDexTables ------------------------------
\* An order of one committee and a deposit of another one.
EXTENDS DexTables, TLC

CONSTANTS o1, d1, c1, c2

MCKindOf == o1 :> "orders" @@ d1 :> "deposits"
MCCommitteeOf == o1 :> c1 @@ d1 :> c2
=============================================================================
