SPECIFICATION FairSpec
CONSTANTS
  MaxSubmits = 3
  Length = 2
  MaxDots = 1
  MaxText = 3
INVARIANTS
  NewestShowsItsAnswer
  LoadersOfThePage
  NoForeignText
PROPERTIES
  AnswersStay
  AnswerShows
\* A page at which nothing is pending rests.
CHECK_DEADLOCK FALSE
