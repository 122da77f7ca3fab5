CONSTANTS
    NumInstances = 1
    Wrap = 4
    MaxMs = 2
    Dts = {0, 3}
    MaxFired = 1
SPECIFICATION WakeSpec
INVARIANTS WakeTypeOK AlarmOnTime AlarmTracked AsleepMeansIdle
PROPERTIES AlarmsAnswered
CHECK_DEADLOCK FALSE
