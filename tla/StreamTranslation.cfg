SPECIFICATION Spec

CONSTANTS
  Upstream = {"claude", "gemini", "vertex", "openai", "responses"}
  Client = {"claude", "openai", "gemini", "ollama"}
  Lines = 5

INVARIANTS Orderly ContentKept ReasonHonest

CHECK_DEADLOCK FALSE
