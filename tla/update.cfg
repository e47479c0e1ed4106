SPECIFICATION Spec
CONSTANTS
    Others = {manifest, extra}
    Manifest = manifest
    Added = {extra}
    Dropped = {dropped, gone}
    manifest = manifest
    extra = extra
    dropped = dropped
    gone = gone
INVARIANTS AllOrNothing NothingLost VersionTellsAll
CHECK_DEADLOCK FALSE
