SPECIFICATION Spec
CONSTANTS
    p = p
    q = q
    ollama = ollama
    openai = openai
    copilot = copilot
    m = m
    n = n
    medium = medium
    high = high
    list = list
    None = None
    Unset = Unset
    Procs <- MCProcs
    Providers <- MCProviders
    Offered <- MCOffered
    Presets <- MCPresets
    Local <- MCLocal
    Wires <- MCWires
    Wire = openai
    Models <- MCModels
    Efforts <- MCEfforts
    Overrides <- MCOverrides
    Blank = ""
    Entries <- MCEntries
    Endpoints <- MCEndpoints
    Lists <- MCLists
    Cap = 2
    MaxOps = 2
SYMMETRY Symmetric
INVARIANT NothingLostAlone
PROPERTY LocalPickSurvives
