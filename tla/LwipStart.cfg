SPECIFICATION Spec
CONSTANTS
    NORMALPRIO = 64
    LOWPRIO = 2
INVARIANTS TypeOK ReferenceFirst ChipReady
PROPERTIES PollingStarts TimersServed
