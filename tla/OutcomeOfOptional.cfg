SPECIFICATION Spec
CONSTANT ValueTypes <- OutcomeTypes
INVARIANT OutcomesKeepTheirSide
CHECK_DEADLOCK FALSE
