---------------------- MODULE MCDocumentedPlanningRules ----------------------
EXTENDS MCFleetPlanning, DocumentedPlanningRules
=============================================================================
