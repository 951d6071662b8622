---------------------------- MODULE MCLinkHealth ----------------------------
\* Small instances of LinkHealth.
EXTENDS LinkHealth

=============================================================================
