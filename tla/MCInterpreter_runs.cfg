\* Two runs in one directory, each with any of seven files.
SPECIFICATION Spec
CONSTANTS
  p1 = p1
  p2 = p2
  Runs = {p1, p2}
  Blocks <- SmallBlocks
  Programs <- SmallPrograms
  Depth <- SmallDepth
  Values <- SmallValues
  Texts <- SmallTexts
  Sprint <- SmallSprint
  True = True
  False = False
  ab = ab
  justC = justC
  empty = empty
  nil = nil
  Vars = {"user.name", "show_button", "flag", "list", "one", "none"}
  ValueOf <- SmallValueOf
  Lists = {"list", "one", "none"}
  Elements <- SmallElements
  Calls = {"syscall.input", "syscall.exit", "http.get", "syscall.execute_wasm"}
  Replies <- SmallReplies
  InputCall = "syscall.input"
  ExitCall = "syscall.exit"
  Item = "item"
  Always = Always
  Unset = Unset
  Error = Error
  Prompt = "? "
SYMMETRY Symmetry
CHECK_DEADLOCK FALSE
INVARIANTS
  TypeOK
  TraceFollowsOutput
  OutputAsWritten
