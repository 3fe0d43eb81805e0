SPECIFICATION Spec
INVARIANT OneAtATime
