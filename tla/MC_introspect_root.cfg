\* An object registered at / is not described when / is introspected.
CONSTANTS
    Names <- RootNames
    Requests <- RootRequests
    MaxObjects = 2

SPECIFICATION Spec

INVARIANT ExactMatchDescribed
