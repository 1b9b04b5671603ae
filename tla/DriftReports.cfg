\* Reports on small trees, with shadowed names and files that do not parse.
SPECIFICATION Spec
CONSTANTS
    Modules <- MCModules
    Names <- MCNames
    Projects <- MCProjects
    Specs <- MCSpecs
INVARIANTS
    NoDriftIsSound
    DriftIsReal
