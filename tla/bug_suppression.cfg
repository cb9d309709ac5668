CONSTANTS
  R_LUMINANCE = 3
  G_LUMINANCE = 6
  B_LUMINANCE = 1
  SCALE = 10
  MAX = 3
  Threshold = 15
  Contrast = 3
  Brightness = 0
  Denominator = 2
  ascii_intensity <- Intensity
  ascii_horizontal <- Horizontal
  ascii_vertical <- Vertical
  ascii_forward <- Forward
  ascii_back <- Back
  WordBytes = 1
  Columns = 2
  Rows = 2
  Capacity = 1
  Pictures <- Scenes
  Size <- Sizes
  MaxFrames = 6
  MaxFlight = 1
SPECIFICATION Spec
INVARIANTS EdgesAreMaxima
