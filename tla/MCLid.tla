------------------------------- MODULE MCLid -------------------------------
EXTENDS LidAgent
MCActions == {"power-save", "shutdown"}
MCVerdicts == {"Yes", "Err"}
=============================================================================
