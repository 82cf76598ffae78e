------------------------------ MODULE MCPgMgr ------------------------------
EXTENDS PgMgr
=============================================================================
