SPECIFICATION Spec
CONSTANTS
    Scripts <- MCMacos
    Args <- MCArgs
    NotarizeEnv <- MCNotarizeDefined
INVARIANT PackageJsonRestored
CHECK_DEADLOCK FALSE
