SPECIFICATION Spec
CONSTANTS
  Images = {"demo", "template", "pico-prof", "tests"}
  Button = {"A", "LEFT", "RIGHT"}
  ClockRange = 8
  WatchdogMax = 4
  WatchdogMs = 5
  DemoFrames = 4
  PathLen = 3
  ScrollDelta = 3
  ScrollPeriod = 4
  EyeSteps = 3
  MaxPos = 2
  ObjStep = 1
  CueDur <- MCCueDur
  ProfTiles = 2
  Opaque <- MCOpaque
  SpanTicks = 1
  Warmup = 1
  ProfFrames = 2
  MaxTicks = 2
  Frac = 6
  SubPx = 2
  Guard <- MCGuard
  ClipMaxOut = 8
  CoordBits = 6
  Extent = 4
  ClipPoint <- MCClipPoint
  Viewport <- MCViewport
  Corner <- MCCorner
  TestTexture <- MCTexture
  Coord <- MCCoord
  TapValue <- MCTap
  Channel <- MCChannel
  Alpha = {0, 1, 100, 128, 254, 255}
  MaxFragments = 3
  SpriteSize = {1, 2, 3, 5}
  Position <- MCPosition
  SkyRect <- MCSky
INVARIANTS
  TypeOK
  ModeFollowsPresses
  FrameKeysPicture
  TrueTimes
  DispatchHoldsTiles
  ProjectionKeepsOrder
  ClippedRing
  TexelAddressed
  BlendBounded
  BlitsAreCut
PROPERTIES
  OnlyLateResets
  ToneEndsOnTime
  NeverWedged
