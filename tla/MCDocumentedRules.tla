------------------------- MODULE MCDocumentedRules -------------------------
(* The instances of MCReservationManager, held against the documents.      *)
EXTENDS MCReservationManager, DocumentedRules

(* Two robots after one place; the first may take its time to arrive.      *)
PatientRequests ==
  {Ask(1, r1, corridor, 0, 2, NoUsage), Ask(2, r2, corridor, 1, 1, NoUsage)}
=============================================================================
