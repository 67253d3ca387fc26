\* /ab is listed under /a, as a node with the empty name.
CONSTANTS
    Names <- SiblingNames
    Requests <- SiblingRequests
    MaxObjects = 2

SPECIFICATION Spec

INVARIANT OnlyChildrenListed
