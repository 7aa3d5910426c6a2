SPECIFICATION WSpec
CONSTANTS
  gateway = gateway
  led = led
  Order <- MCOrder
  Lower = {led}
  Gateway = gateway
  Timeout <- MCTimeout
  Pace <- MCPace
  Ticks = 12
  Period = 1
  Latency = 1
  IwdgTimeout = 4
  ConfirmDelay = 1
INVARIANTS
  SilenceBounded
  BlameExplained
PROPERTIES
  ConfirmsOnlyAlive
  HangEndsInReset
