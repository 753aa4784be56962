\* Three tellers of any kind, room for one notice, and one thing going wrong.
CONSTANTS
  Tellers = {t1, t2, t3}
  None = none
  MaxNotices = 1
  MaxRetried = 2
  MaxTroubles = 1
SPECIFICATION FairSpec
INVARIANTS TypeOK OneMailer AcceptedMeansMailed QuestionSurvivesBudget
PROPERTIES NoticesAttempted
\* Tellers that are done leave nothing to do.
CHECK_DEADLOCK FALSE
