SPECIFICATION Spec
INVARIANT PluginsAgree
INVARIANT AccessAgrees
INVARIANT DataAgrees
INVARIANT ListsAgree
CHECK_DEADLOCK FALSE
