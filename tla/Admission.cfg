SPECIFICATION Spec
CONSTANTS
    Coordinators = {c1, c2}
    Runs = {x1, x2, d1, d2, b1, v1, m1}
    Clusters = {k1}
    Deployments = {store, diary}
    None = None
    Kind <- MCKind
    Resource <- MCResource
    Cluster <- MCCluster
    Owner <- MCOwner
    Namespace <- MCNamespace
    Exclusive <- MCExclusive
    Home <- MCHome
    Space <- MCSpace
    Experiments <- MCExperiments
    x1 = x1
    x2 = x2
    d1 = d1
    d2 = d2
    v1 = v1
    b1 = b1
    m1 = m1
    z1 = z1
    k1 = k1
    store = store
    diary = diary
    ann = ann
    bob = bob
    shop = shop
    blog = blog
INVARIANTS
    TypeOK
    OneRunPerUser
    ClusterIsolation
    NamespaceKept
    TrialsInOrder
    LifecyclesApart
VIEW AdmissionView
SYMMETRY CoordinatorSymmetry
CHECK_DEADLOCK FALSE
