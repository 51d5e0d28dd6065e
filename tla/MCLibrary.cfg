SPECIFICATION AllSpec
CONSTANTS
  Name = {"message", "cause"}
  MaxIndex = 1
  Value = {"v"}
  Walker = {1}
  SmallObject = 2
  Unset = Unset
  MaxItems = 5
  JsMaxItems = 5
  Alphabet <- MCAlphabet
  MaxNodes = 14
  MaxDepth = 3
  MaxJsonDepth = 2
  Offset = 210
  MaxInt = 2147483647
  MaxInt32 = 2147483647
  Cycle <- MCCycle
  DateLists <- MCDateLists
  DateYears <- MCDateYears
  DateStarts <- MCDateStarts
  Member = {one, undef}
  Undef = undef
  Gap = gap
  MaxLength = 3
  MaxChanges = 2
INVARIANTS
  IndexExact
  ArraysAsInJavaScript
  SortKeepsElements
  JsonAsInJavaScript
  ExportsTree
  ExportsWrites
  MarshalAsEncoded
  TextAsInJavaScript
  JoinsApart
  DatesAsInJavaScript
PROPERTIES
  ObjectSpec
