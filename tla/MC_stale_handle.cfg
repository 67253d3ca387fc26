\* set_properties through the pointer add_interface returned, after a second
\* add_interface of the same name replaced that interface.
CONSTANTS
    i1 = i1  m1 = m1  m2 = m2  x = x  v1 = v1  v2 = v2
    NoValue = NoValue
    UnknownIface = UnknownIface
    Unset = Unset
    Paths <- MCPaths
    UserIfaces <- MCUserIfaces
    UserMethods <- MCUserMethods
    BaseMethods <- MCNoBaseMethods
    Members <- MCMembers
    PropNames <- MCPropNames
    Values <- MCValues
    UpdateModes <- MCChangeOnly
    MaxObjects = 1
    MaxCalls = 0
    MaxAppSteps = 4
    Lossy = FALSE
    RestartRun = TRUE
    EmptyPath = EmptyPath
    HandleSources = {"replaced"}
    MaxHandles = 1
    Signature <- MCSignature
    Payloads <- MCPayloads
    ValueType <- MCValueType

SPECIFICATION Spec

PROPERTY CacheRefinement

\* The server waits for input once the bounded client and application stop.
CHECK_DEADLOCK FALSE
