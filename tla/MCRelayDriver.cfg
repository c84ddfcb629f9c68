\* Two channels and up to eight faults: lost writes, dropped links, late answers.
CONSTANTS
    NumChannels = 2
    MaxFaults = 8
SPECIFICATION Spec
INVARIANT ReturnMeansBank
PROPERTY OnlyOntoDeadBank
