---------------------------- MODULE MCLifecycle ----------------------------
EXTENDS Lifecycle
====
