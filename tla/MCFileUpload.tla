------------------------------ MODULE MCFileUpload ------------------------------
EXTENDS FileUpload

CONSTANT b1

\* A batch whose files take two chunks, and one whose files take a short one.
MCSize == [b \in Batches |-> IF b = b1 THEN 3 ELSE 1]
=============================================================================
