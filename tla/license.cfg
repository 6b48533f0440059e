SPECIFICATION FairSpec
CONSTANTS
    Feature = {basic, pro}
    Granted = {basic}
    Refresher = {control, block_on_device}
    NoLicense = none
INVARIANTS GrantsIssued
PROPERTIES GenuineFileKept RefreshEnds
