SPECIFICATION Spec
CONSTANTS
  d1 = d1  d2 = d2
  p1 = p1  p2 = p2
  None = None
  Devices = {d1, d2}
  Passwords = {p1, p2}
  MaxVersion = 2
  MaxClock = 1
  MaxInFlight = 2
SYMMETRY Symmetry
INVARIANTS
  OneSurvivor
  SurvivorHoldsThePassword
  CurrentCookiesSurviveTheClock
PROPERTY StaleCookiesStayDead
