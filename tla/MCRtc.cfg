SPECIFICATION FairSpec
CONSTANTS
  StartDates <- MCStartDates
  MaxAge = 59
  MaxSeconds = 3
INVARIANTS TypeOK NoCmosInterference AlarmIsNextSecond NothingLeftInService OwnHandler
PROPERTIES TimeReadIsExact StartupTimeIsTrue AlarmAnswered
