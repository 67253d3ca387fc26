\* Signature derivation over all small handler signatures.
CONSTANTS
    NoHandler = NoHandler
    Handlers <- MCHandlers

SPECIFICATION Spec

INVARIANT GetArgsMatchesDeclaration

\* Registration ends once the method exists.
CHECK_DEADLOCK FALSE
