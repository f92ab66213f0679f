\* Three packages, two edits by the developer.
CONSTANTS
  Dirs = {"app", "util", "core"}
  Root = "app"
  Names = {1, 2, 3}
  Bytes = {1, 2}
  Manifests <- MCManifests
  Commands <- MCCommands
  MaxEdits = 2
SPECIFICATION Spec
INVARIANT ResolvesExactly
PROPERTY PinsNeverMove
