SPECIFICATION RequestsSpec
CONSTANTS RequestIds = {q1, q2}
INVARIANT AnswersResolve
CHECK_DEADLOCK FALSE
