----------------------- MODULE MCDocumentedStateRules -----------------------
EXTENDS MCFleetTelemetry, DocumentedStateRules
=============================================================================
