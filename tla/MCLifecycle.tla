----------------------------- MODULE MCLifecycle -----------------------------
EXTENDS Lifecycle
==============================================================================
