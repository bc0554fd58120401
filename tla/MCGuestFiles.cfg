SPECIFICATION Spec
CONSTANTS
  save = save
  asset = asset
  byte = byte
  Missing = Missing
  Names = {save, asset}
  SaveNames = {save}
  Bytes = {byte}
  Bundled <- MCBundled
  MaxLen = 2
  MaxHandle = 2
INVARIANTS TypeOK HandlesAreFresh CleanIsOnDisk FlushedAtEnd
