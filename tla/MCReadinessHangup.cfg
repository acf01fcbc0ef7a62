SPECIFICATION Spec
CONSTANT
    Handlers = {h1, h2}
INVARIANT
    UnreachableMeansEndpoint
