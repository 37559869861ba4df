CONSTANTS
    ammA = ammA
    ammB = ammB
    configA = configA
    configB = configB
    NIL = NIL
    Identities = {alice}
    Sequencers = {here, there}
    Deployments <- MCDeployments
    MAX_REVISION = 2
    MAX_PENDING = 1
SPECIFICATION AppSpec
INVARIANT
    SwapGoesWhereQuoted
SYMMETRY MCSymmetry
