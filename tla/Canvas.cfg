SPECIFICATION Spec
CONSTANTS
  Pictures <- MCPictures
  FirstPicture <- FourNamespaces
  Viewport = 700
  MinimapOver = 3
  MaxPushes = 1
  MaxViews = 2
  MaxEvents = 2
INVARIANTS
  TypeOK
  GridIsApart
  LayoutStands
PROPERTIES
  CameraIsTheViewers
  NewViewIsFramed
CHECK_DEADLOCK FALSE
