---------------------------- MODULE MCSettingsStore ----------------------------
EXTENDS SettingsStore
===============================================================================
