------------------------- MODULE MCDocumentedMapRules -------------------------
EXTENDS MCMapFile, DocumentedMapRules
=============================================================================
