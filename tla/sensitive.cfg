\* Every payload with every map block that the schema accepts, one attempt; an object
\* of the payload has a field with a sensitive name.
SPECIFICATION Spec
CONSTANTS
    None = None
    Payloads <- Bodies
    Maps <- Blocks
    Spelling <- Spellings
    Sensitive = {"ssn"}
    Known = {"name", "lost"}
    Registered = {"name"}
    Replies <- Answers
    MaxAttempts = 1
INVARIANTS SensitiveFieldsNeverInClear
CHECK_DEADLOCK FALSE
