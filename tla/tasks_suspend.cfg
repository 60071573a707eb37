CONSTANTS
  t1 = t1
  t2 = t2
  Tasks = {t1, t2}
  MaxAsks = 2
  MaxFaults = 1
SPECIFICATION FairSpec
CHECK_DEADLOCK FALSE
INVARIANT TypeOK
INVARIANT ResumedOnce
INVARIANT WaitingIsNewest
INVARIANT ActiveNotTooHigh
INVARIANT FirstResumeHasHandle
PROPERTY TimedOutStays
PROPERTY ImplementsQuestions
PROPERTY AnswerTakesEffect
