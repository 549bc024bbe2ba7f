SPECIFICATION ThermSpec
CONSTANTS
  Procs = {"p1"}
  Others = {"p2"}
  Therms = {"b20", "s20"}
  Buses <- MCBuses
  DS18S20 = {"s20"}
  Parasitics <- MCParasitics
  Temps <- MCTemps
  Alarms = {0, 1}
  Speeds <- MCSpeeds
  Pullups = {2}
  Resolutions = {0, 2}
  MaxFaults = 1
  MaxChanges = 1
PROPERTIES ReadingRight ResolutionOnly
