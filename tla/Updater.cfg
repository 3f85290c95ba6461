SPECIFICATION Spec
CONSTANTS
    Procs = {p1}
    Versions <- MCVersions
    Instants <- MCInstants
    CliVersion = 1
    Machines <- MCMachines
INVARIANT ReplayDefence
INVARIANT AppliedIsReversible
INVARIANT RecordsAgree
INVARIANT AgreedCurrentHasPayload
 
PROPERTY FloorNeverRegresses
