SPECIFICATION FairSpec
CONSTANTS
    c1 = c1
    c2 = c2
    image = image
    Clients <- MCClients
    Names = {}
    MaxPhotos = 1
    KeepDays = 1
    MaxIds = 3
    None = None
INVARIANT TypeOK
INVARIANT KeptIsBounded
PROPERTY PurgedOnlyWhenDone
PROPERTY PhotosGo
