SPECIFICATION MCSpec

CONSTANTS
    Annotations = {"description", "title", "$comment", "examples", "default", "deprecated", "readOnly", "writeOnly"}
    Oversized = {"overlong"}
    LocalRefs = {"#/local"}
    MaxDepth = 6
    MaxChildren = 5
    MaxTools = 2
    Names = {"id", "title"}

INVARIANT MismatchIsRejected

CHECK_DEADLOCK FALSE
