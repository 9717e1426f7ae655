------------------------------ MODULE MCWarmIndex ------------------------------
EXTENDS WarmIndex

MCPack == <<"u1", "u2">>
MCQueries == <<"q1">>
===============================================================================
