SPECIFICATION Spec
CONSTANTS
    Procs = {p1}
    Versions <- MCVersions
    Instants <- MCInstants
    CliVersion = 1
    Machines <- SoundMachine
INVARIANT RolledBackIsNotReapplied
