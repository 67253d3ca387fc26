\* FORCE mode: a client cache built from the signals disagrees with the table.
CONSTANTS
    i1 = i1  m1 = m1  m2 = m2  x = x  v1 = v1  v2 = v2
    NoValue = NoValue
    UnknownIface = UnknownIface
    Unset = Unset
    Paths <- MCPaths
    UserIfaces <- MCUserIfaces
    UserMethods <- MCUserMethods
    BaseMethods <- MCNoBaseMethods
    Members <- MCMembers
    PropNames <- MCPropNames
    Values <- MCValues
    UpdateModes <- MCAllModes
    MaxObjects = 1
    MaxCalls = 1
    MaxAppSteps = 3
    Lossy = FALSE
    RestartRun = TRUE
    EmptyPath = EmptyPath
    HandleSources = {}
    MaxHandles = 0
    Signature <- MCSignature
    Payloads <- MCPayloads
    ValueType <- MCValueType

SPECIFICATION Spec

INVARIANT MirrorConsistent

CHECK_DEADLOCK FALSE
