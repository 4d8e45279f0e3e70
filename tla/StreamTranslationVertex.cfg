SPECIFICATION Spec

CONSTANTS
  Upstream = {"vertex"}
  Client = {"claude", "openai", "gemini", "ollama"}
  Lines = 3

INVARIANT WholeContent

CHECK_DEADLOCK FALSE
