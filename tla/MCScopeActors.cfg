SPECIFICATION ScopeSpec
CONSTANTS
 Scopes = {1}
 Tasks = {o, a, w}
 Opener = o
 Actors = {w}
 Nobody = Nobody
INVARIANT ActorsStopped
CHECK_DEADLOCK FALSE
