CONSTANTS
    Filled = Filled
    Empty = Empty
    None = None
    MaxCommands = 5
    c1 = c1
    c2 = c2
    Profile <- MCProfile
    Card <- MCCard
    LaunchCard <- MCLaunchCard
    LaunchUrl <- MCLaunchUrl
    KeyPresent <- MCKeyPresent
SPECIFICATION Spec
INVARIANTS
    RowAndModalExclude
    BusyIffChild
    PromptCanBeAnswered
    RosterTrusted
PROPERTY GateSpec
