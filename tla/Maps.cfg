CONSTANTS
  None = None
  MaxComing = 2
  Watched = {{"stations", "roadworks"}, {"stations", "speedlimits"}, {"stations", "weather"}, {"stations", "maintenance"}, {"stations", "parking"}, {"stations", "weathercams"}, {"stations", "charging"}}
  MeriToggles = {"ports", "sea"}
SPECIFICATION Spec
INVARIANTS TypeOK AsAsked InkOfBasemap BoundOnce
PROPERTY OverlaysReturn
