SPECIFICATION Spec

CONSTANTS
  Upstream = {"claude"}
  Client = {"claude", "openai", "gemini", "ollama"}
  Lines = 3

INVARIANT ThinkingOnce

CHECK_DEADLOCK FALSE
