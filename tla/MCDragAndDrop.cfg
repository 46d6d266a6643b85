CONSTANTS
    Cards = {c1, c2}
    MaxTimers = 2
SPECIFICATION Spec
INVARIANTS
    DragTypeOK
    AlertFollowsPointer
    HostsAreDragged
    OnAlertWhileDragging
    ClonesGoAway
    DragIInv
PROPERTIES
    DropsAreSaved
SYMMETRY Symmetry
