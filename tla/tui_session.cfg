SPECIFICATION Spec
CONSTANTS
  Releases <- LongList
  Rows = {0, 3}
  Capacity = 2
  Events = 1
  MaxCommands = 2
INVARIANTS
  OneActionAtATime
  SelectionIsShown
  EverythingIsRefreshed
PROPERTIES
  ActionsEnd
