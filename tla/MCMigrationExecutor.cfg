\* Projects for crash recovery, the lock bracket, rollback, squash, redeployment.
SPECIFICATION Live
CONSTANTS
    d1 = d1
    d2 = d2
    Nobody = Nobody
    Versions = {1, 2, 3, 4, 5}
    Deployers = {d1, d2}
    Projects <- Scenes
INVARIANTS
    SchemaAgrees GreenDeploys SessionsHandedBackClean DependenciesStand
PROPERTIES
    EverythingLands
