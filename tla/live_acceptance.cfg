SPECIFICATION TestSpec
CONSTANTS
  Aliases = {"a1", "a2"}
  Places = {"d1", "d2"}
  ItemTypes = {"frame", "doc"}
  KeepTests = 1
  MaxTests = 3
CHECK_DEADLOCK FALSE
INVARIANT AcceptedFresh
