CONSTANTS
  None = None
  Numbers = {1}
  Dates = {1, 2}
  Stations = {s1, s2}
  Aircraft = {a1, a2}
  Airports = {p1}
  Places = {x1, x2}
  Vessels = {v1, v2}
  Ports = {h1}
  Webcams = {w1}
  Junk = Junk
SPECIFICATION Spec

PROPERTY SelectingShows
