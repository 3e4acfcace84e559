SPECIFICATION WrapSpec
CONSTANTS
  Ledgers = {"A", "B"}
  Paths = {"create", "chat", "stream", "generate", "agenerate"}
  Kind <- MCKind
  Wrappers <- MCWrappers
  Anchored = {"chat"}
  MaxClients = 1
  MaxNested = 3
INVARIANT TrackedByWrappers
