------------------------- MODULE MCInstallProgress -------------------------
\* InstallProgress with two playbooks: the least that can be mixed up.
EXTENDS InstallProgress
=============================================================================
