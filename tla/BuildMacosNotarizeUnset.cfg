SPECIFICATION Spec
CONSTANTS
    Scripts <- MCMacos
    Args <- MCArgs
    NotarizeEnv <- MCNotarizeAll
INVARIANT AllSucceedYieldsInstaller
CHECK_DEADLOCK FALSE
