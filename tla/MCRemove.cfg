\* Client.Remove by name or by root, with and without deleteAll.
SPECIFICATION Spec
INVARIANT RemoveReportsFailures
INVARIANT ServiceAlwaysAwaited
