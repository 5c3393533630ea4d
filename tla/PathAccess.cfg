\* Two requests answered late, two commands on one slot, one scope.
SPECIFICATION Spec
SYMMETRY Symmetry
CONSTANTS
    top = top
    ceil = ceil
    src = src
    vendor = vendor
    secret = secret
    out = out
    git = git
    etc = etc
    r1 = r1
    r2 = r2
    r3 = r3
    c1 = c1
    c2 = c2
    Path <- Paths
    At <- Tree
    Ceiling = ceil
    Git = {git}
    Protected = {vendor}
    Excluded = {secret}
    SystemDirs = {etc}
    ExtraRw = {}
    Scopes <- Narrowings
    ClientRoots = {src, etc}
    Request <- Requests
    Root <- Roots
    Mode <- Modes
    Command = {c1, c2}
    Cwd <- Cwds
    MaxConcurrent = 1
INVARIANTS
    TypeOK
    LayersAgree
PROPERTIES
    SpentGrantsAreMounted
    ImplementsPermission
