CONSTANTS
  MaxAttempts = 3
  MaxKeys = 2
  KeyIndex = 1
SPECIFICATION Spec
INVARIANT NeverDereferencesNilResult
