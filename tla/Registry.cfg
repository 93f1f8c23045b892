SPECIFICATION RegSpec
CONSTANTS
    Ids = {1, 2, 3}
    None = None
    Colon = Colon
    Client <- MCClient
    System <- MCSystem
    Devices <- MCDevices
    Offers <- MCOffers
    OwnOffers <- MCOwnOffers
INVARIANTS
    RegistryTypeOK
    MirrorsServer
    UidNamesItsNode
    SyncedNameIsOwn
    FoundPortIsThere
