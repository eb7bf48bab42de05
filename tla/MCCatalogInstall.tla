---- MODULE MCCatalogInstall ----
EXTENDS CatalogInstall, TLC

CONSTANTS a1, a2, a3

\* The second artifact has the size of the first, the third is larger.
Sizes == a1 :> 2 @@ a2 :> 2 @@ a3 :> 3
====
