\* The first section of demo_all_features.logline.
SPECIFICATION Spec
CONSTANTS
  k1 = k1
  k2 = k2
  Clicks = {}
  Theme = Theme
  Boot = Boot
  Files <- SmallFiles
  Loadable <- SmallLoadable
  Arrays <- SmallArrays
  Disk <- SmallDisk
  Spans <- SmallSpans
  HandlerSpans <- SmallHandlerSpans
  Entries = {"demo"}
  Dispatcher = "dispatcher"
  HandlerOf <- SmallHandlers
  HandlerFor <- SmallComponents
  ThemeSpan <- SmallTheme
  Paths = {"flag"}
  Always = Always
  Hole = Hole
  Blank = Blank
  MaxInputs = 0
CHECK_DEADLOCK FALSE
INVARIANT UnidirectionalFlow
