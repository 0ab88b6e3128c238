-------------------------- MODULE MCInstallWizard --------------------------
\* InstallWizard with an edit, two moves of the user and one installation.
EXTENDS InstallWizard
=============================================================================
