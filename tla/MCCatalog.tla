----------------------------- MODULE MCCatalog -----------------------------
(* TLC instance of Catalog. *)
EXTENDS Catalog, TLC

CONSTANTS
  MinProduct,  \* catalogs start with so many products at least,
  FirstStatus, \* of these statuses
  MaxWritten   \* catalogs up to this size are written, larger ones only read

\* The first product has one SKU, the second two, the third one.
MCSkus == <<1, 2, 1>>
OneSku == <<1>>

Init ==
  /\ CatalogInit /\ Len(products) >= MinProduct
  /\ \A p \in DOMAIN products : products[p].status \in FirstStatus
  /\ IF Len(products) <= MaxWritten THEN writes = 0 /\ fails = 0
     ELSE writes = MaxWrites /\ fails = MaxFails

Symmetry == Permutations(Reader) \cup Permutations(Writer)

Spec == Init /\ [][CatalogNext]_catalogVars
FairSpec == Spec /\ CatalogFairness
=============================================================================
