SPECIFICATION CollectionSpec
CONSTANTS
  PosZero = PosZero
  NegZero = NegZero
  NotANumber = NotANumber
  UndefinedValue = UndefinedValue
  NanKey = NanKey
  EntryKey = {PosZero, NegZero, NotANumber, UndefinedValue}
  EntryValue = {UndefinedValue, NotANumber}
  Walker = {1}
  MaxItems = 2
PROPERTY DoneIsFinal
