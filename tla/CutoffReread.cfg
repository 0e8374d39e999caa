SPECIFICATION ScheduleSpec
CONSTANTS
  OpenHour = 9
  WeekdayClose = 18
  SaturdayClose = 14
  SameDayCutoff = 11
  ProcessingCutoff = 17
  CourierDays = 1
  Hours = {8, 10, 11, 14, 17, 18}
  LastDay = 1
  HolidayDays = {}
  MaxHolidays = 0
  MaxBasket = 5
INVARIANTS PassedCutoffIsReread
CHECK_DEADLOCK FALSE
