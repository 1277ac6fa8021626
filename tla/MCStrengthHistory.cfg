CONSTANTS
  Baselines <- MCBaselines
  Times <- MCTimes
  MaxAnswers = 3
SPECIFICATION Spec
INVARIANTS
  LevelInRange
  CeilingRespected
  ArrivalOrderIrrelevant
PROPERTY
  ArrivalNeverLowers
CHECK_DEADLOCK FALSE
