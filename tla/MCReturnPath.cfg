SPECIFICATION Spec
CONSTANTS
    NoQuery = NoQuery
    SegmentNames = {"a", "b"}
    Queries = {"", "x=1"}
    MaxSegments = 5
INVARIANTS GenuineStatesReturn ReturnsWhereAsked
