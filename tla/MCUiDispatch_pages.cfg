\* Two pages, two clicks, the theme; loads may fail.
SPECIFICATION FairSpec
CONSTANTS
  k1 = k1
  k2 = k2
  Clicks = {k1, k2}
  Theme = Theme
  Boot = Boot
  Files <- SmallFiles
  Loadable <- SmallLoadable
  Arrays <- SmallArrays
  Disk <- SmallDisk
  Spans <- SmallSpans
  HandlerSpans <- SmallHandlerSpans
  Entries = {"page", "layout"}
  Dispatcher = "dispatcher"
  HandlerOf <- SmallHandlers
  HandlerFor <- SmallComponents
  ThemeSpan <- SmallTheme
  Paths = {"flag"}
  Always = Always
  Hole = Hole
  Blank = Blank
  MaxInputs = 1
CHECK_DEADLOCK FALSE
INVARIANTS
  TypeOK
  RenderOrder
  OwnArguments
  PageComplete
PROPERTIES
  EveryTaskEnds
  PageSettles
