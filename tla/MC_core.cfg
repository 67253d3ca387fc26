\* Core run: registration, property updates from the application and from
\* Properties.Set, and all three filters, with faults possible.
CONSTANTS
    i1 = i1  m1 = m1  m2 = m2  x = x  v1 = v1  v2 = v2
    NoValue = NoValue
    UnknownIface = UnknownIface
    Unset = Unset
    Paths <- MCPaths
    UserIfaces <- MCUserIfaces
    UserMethods <- MCUserMethods
    BaseMethods <- MCBaseMethods
    Members <- MCMembersWithBase
    PropNames <- MCPropNames
    Values <- MCValues
    UpdateModes <- MCAllModes
    MaxObjects = 2
    MaxCalls = 2
    MaxAppSteps = 3
    Lossy = FALSE
    RestartRun = TRUE
    EmptyPath = EmptyPath
    HandleSources = {"make_shared", "replaced"}
    MaxHandles = 1
    Signature <- MCSignature
    Payloads <- MCPayloads
    ValueType <- MCValueType

SPECIFICATION Spec

INVARIANT TypeOK
INVARIANT DocumentedMethodsCallable
INVARIANT AnsweredAsDocumented
PROPERTY AnnouncedChanges


\* The server waits for input once the bounded client and application stop.
CHECK_DEADLOCK FALSE
