------------------------------ MODULE MCPipeline ------------------------------
\* Two features, three sessions.
EXTENDS Pipeline

MCFeatures == {"riseTime", "settleTime"}
===============================================================================
