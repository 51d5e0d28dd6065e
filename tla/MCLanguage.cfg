SPECIFICATION AllSpec
CONSTANTS
  ValueOf <- MCValueOf
  Programs <- MCPrograms
  Labels = {"A", "B"}
  MaxRounds = 3
  PosZero = PosZero
  NegZero = NegZero
  NotANumber = NotANumber
  UndefinedValue = UndefinedValue
  NanKey = NanKey
  EntryKey = {PosZero, NegZero, NotANumber, UndefinedValue}
  EntryValue = {UndefinedValue, NotANumber}
  Walker = {1}
  MaxItems = 3
INVARIANTS
  StatementsMatch
  StaleLabelUnseen
  IndexExact
  EvaluatesAsJavaScript
  ScopesAsInJavaScript
  IsolatedItemsApart
  PromisesUnseen
PROPERTIES
  OrderedSpec
  WalksEnd
