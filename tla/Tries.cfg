CONSTANTS
    Width = 4
    MaxRoutes = 14
SPECIFICATION Spec
CHECK_DEADLOCK FALSE
INVARIANT LongestInTrie
INVARIANT LongestInReduced
