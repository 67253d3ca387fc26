\* get_xml_for_path over every sequence of up to four registrations.
CONSTANTS
    Names <- MCNames
    Requests <- MCRequests
    MaxObjects = 4

SPECIFICATION Spec

INVARIANT TypeOK
INVARIANT NodesListedOnce
INVARIANT ChildrenListed
