SPECIFICATION YamlSpec
CONSTANTS
  MaxSave = 3
  MaxIOError = 1
INVARIANTS YamlTypeOK FreshWithinOneCall FallbackIsReported
