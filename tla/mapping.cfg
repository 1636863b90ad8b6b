\* Every payload with every map block; the host answers, fails, refuses or
\* never answers, and the event has two attempts.
SPECIFICATION Spec
CONSTANTS
    None = None
    Payloads <- Bodies
    Maps <- Blocks
    Spelling <- Spellings
    Sensitive = {"ssn"}
    Known = {"name", "lost"}
    Registered = {"name"}
    Replies <- Answers
    MaxAttempts = 2
INVARIANTS OnlyMappedLeaves DeniedNeverForwarded AmountIsExact AnswersMatchTheirQuestion
CHECK_DEADLOCK FALSE
