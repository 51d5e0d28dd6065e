SPECIFICATION Spec
CONSTANTS
  ValueOf <- MCValueOf
  Programs <- CrossingPrograms
  Labels = {"A", "B"}
  MaxRounds = 3
INVARIANT MatchesJavaScript
