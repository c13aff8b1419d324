\* Two overlapping imports.
CONSTANTS
    Imports <- MCTwoImports
    MaxImports = 2

SPECIFICATION Spec

INVARIANT ParsingShownWhileImporting

CHECK_DEADLOCK FALSE
