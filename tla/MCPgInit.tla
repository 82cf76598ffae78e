------------------------------ MODULE MCPgInit ------------------------------
EXTENDS PgInit
=============================================================================
