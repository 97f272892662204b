SPECIFICATION Spec
INVARIANTS OneRecord Faithful SafeStorage ShortFlags
CHECK_DEADLOCK FALSE
CONSTANTS
  UMod = 1073741824
  Letter = {"n", "m"}
  Case <- AnyCase
  Levels = {2, 5}
  Sinks <- MCSinks
  Inline = 4
  SinkThrows = TRUE
  Name = "TCP"
  Tid = 17
  Text <- TextOf
  Written <- Formatted
  Shown <- FormatLine
