----------------------------- MODULE MCCfgRetry -----------------------------
\* Others use the packet slot when the N64 sends debug data.
EXTENDS CfgCommand
=============================================================================
