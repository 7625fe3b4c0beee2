---------------------------- MODULE MCBrowserGate ----------------------------
EXTENDS BrowserGate
=============================================================================
