------------------------ MODULE MCCatalogTransaction ------------------------
EXTENDS CatalogTransaction, TLC

MCSymmetry == Permutations(Applier)

=============================================================================
