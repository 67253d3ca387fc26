\* GetAll(interface) answers with the Properties interface's own table.
CONSTANTS
    i1 = i1  m1 = m1  m2 = m2  x = x  v1 = v1  v2 = v2
    NoValue = NoValue
    UnknownIface = UnknownIface
    Unset = Unset
    Paths <- MCPaths
    UserIfaces <- MCUserIfaces
    UserMethods <- MCUserMethods
    BaseMethods <- MCNoBaseMethods
    Members <- MCMembers
    PropNames <- MCPropNames
    Values <- MCValues
    UpdateModes <- MCChangeOnly
    MaxObjects = 1
    MaxCalls = 2
    MaxAppSteps = 2
    Lossy = FALSE
    RestartRun = TRUE
    EmptyPath = EmptyPath
    HandleSources = {}
    MaxHandles = 0
    Signature <- MCSignature
    Payloads <- MCPayloads
    ValueType <- MCValueType

SPECIFICATION Spec

PROPERTY GetAllReplyCurrent

CHECK_DEADLOCK FALSE
