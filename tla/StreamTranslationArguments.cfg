SPECIFICATION Spec

CONSTANTS
  Upstream = {"responses"}
  Client = {"claude", "openai", "gemini", "ollama"}
  Lines = 3

INVARIANT ArgsOfTheirCall

CHECK_DEADLOCK FALSE
