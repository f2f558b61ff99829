SPECIFICATION Spec
CONSTANTS
  Browsers = {b1, b2}
  Files = {"/db.txt", "/boot_count"}
  Dirs = {"/"}
  BadPaths = {"/none"}
  Letters = {"x", "y"}
  Typed <- MCTyped
  BodyMax = 9
  HtmlLen = 1
  FormLen = 2
  ButtonLen = 2
  EndLen = 1
  LinkLen = 5
  ReqMax = 7
  Null = Null
INVARIANTS TypeOK HandlesClosed FormShowsWholeFile
PROPERTIES WholeOrNothing SentBackLosesNothing
