SPECIFICATION CatalogueSpec
CONSTANTS
    d = d
    h1 = h1
    h2 = h2
    Ids = {d, h1, h2}
    Demo = {d}
    MaxRefs = 2
    None = None
SYMMETRY Symmetry
INVARIANTS
    CatalogueOK
    ResolveIsSound
PROPERTIES
    EditsSpareOthers
    ExportCarriesRefs
    ImportKeepsRoutes
