\* Refinement run: one object (so the static endpoints are its own path),
\* VALUE_CHANGE_ONLY updates, and a transport that may lose any message.
CONSTANTS
    i1 = i1  m1 = m1  m2 = m2  x = x  v1 = v1  v2 = v2
    NoValue = NoValue
    UnknownIface = UnknownIface
    Unset = Unset
    Paths <- MCOnePath
    UserIfaces <- MCUserIfaces
    UserMethods <- MCUserMethods
    BaseMethods <- MCNoBaseMethods
    Members <- MCMembers
    PropNames <- MCPropNames
    Values <- MCValues
    UpdateModes <- MCChangeOnly
    MaxObjects = 1
    MaxCalls = 2
    MaxAppSteps = 3
    Lossy = TRUE
    RestartRun = TRUE
    EmptyPath = EmptyPath
    HandleSources = {}
    MaxHandles = 0
    Signature <- MCSignature
    Payloads <- MCPayloads
    ValueType <- MCValueType

SPECIFICATION Spec

PROPERTY CacheRefinement
PROPERTY StandardCallsAnswered

\* The server waits for input once the bounded client and application stop.
CHECK_DEADLOCK FALSE
