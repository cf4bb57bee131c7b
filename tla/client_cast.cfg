SPECIFICATION ClientSpec
CONSTANTS
    CloneSlots = {2}
    Keys = {0, 1, 2}
    MaxUp = 1
    MaxDown = 2
INVARIANT
    CastsAsPressed
