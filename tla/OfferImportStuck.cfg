\* One import at a time: an fs.stat error.
CONSTANTS
    Imports <- MCOneImport
    MaxImports = 2

SPECIFICATION Spec

INVARIANT ParsingClearedWhenIdle

CHECK_DEADLOCK FALSE
