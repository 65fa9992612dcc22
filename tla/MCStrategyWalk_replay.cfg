SPECIFICATION WalkSpec
CONSTANTS
  Tree <- MCTree
  Starts = {"main"}
  Referred <- GivenTrees
  Facts = {"scanned", "large"}
  Errors <- MCErrors
  Allowed <- InTheScope
  Installed <- Known
  Keyless = {"docling"}
  Pages = {1}
  Grades = {0}
  MaxTicks = 0
  MaxKills = 1
  Nil = Nil
INVARIANTS ResumeKeepsCourse
CHECK_DEADLOCK FALSE
