CONSTANTS
  Width = 2
  Height = 3
  Printable = {"?"}
  Unprintable = {"bell"}
  Question = "?"
  NewLine = "newline"
  Empty = "empty"
  Themes = {"grey"}
  DefaultTheme = "grey"
  Colours = {"grey"}
  Places = {}

SPECIFICATION TtySpec
INVARIANT NextPlaceIsFree
CHECK_DEADLOCK FALSE
