-------------------------- MODULE MCSchemaBarrier --------------------------
EXTENDS SchemaBarrier
=============================================================================
