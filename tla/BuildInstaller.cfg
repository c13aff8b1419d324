SPECIFICATION Spec
CONSTANTS
    Scripts <- MCAll
    Args <- MCArgs
    NotarizeEnv <- MCNotarizeDefined
INVARIANT TypeOK
INVARIANT LinuxPackageJsonRestored
INVARIANT ExitZeroOnlyWithInstaller
INVARIANT AllSucceedYieldsInstaller
CHECK_DEADLOCK FALSE
