\* Every query for the start; two switches and two get_state spans after it.
SPECIFICATION MCSpec
CONSTANTS
  Urls <- AllUrls
  Themes <- SmallThemes
  NoTheme = NoTheme
  DefaultTheme = "default"
  Lists <- SmallLists
  Tokens <- SmallTokens
  NoTokens = NoTokens
  Names <- SmallNames
  NoName = NoName
  NameOf <- SmallNameOf
  Holds <- SmallHolds
  Unusable = Unusable
  Switches <- SmallSwitches
  MaxChanges = 2
  Fields <- SmallFields
  Keys <- SmallKeys
  ThemeKey <- SmallThemeKey
  Texts <- SmallTexts
  NoKey = NoKey
  MaxObjects = 1
  MaxObservers = 2
CHECK_DEADLOCK FALSE
INVARIANTS
  UiStateTypeOK
  ThemeAgrees
  ConfigsAgree
  DisplaysCurrent
