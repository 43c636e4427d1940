-------------------------- MODULE MCBatchProcessor --------------------------
EXTENDS BatchProcessor

=============================================================================
