\* One request at a time: losing a flag, or a permission, prevails over old tokens.
CONSTANTS
    Requests = {"r1"}
    Ids = {1, 2}
    GroupIds = {1, 2}
    editor = editor
    Names = {editor, viewer}
    viewer = viewer
    Roles = {"isSuperuser"}
    Permissions = {"edit"}
    Endpoints = {"addUser", "changeUser", "deleteUser", "changeGroup", "deleteGroup", "tenant", "todo"}
    Targets = {2}
    Undefined = Undefined
    RolesOf <- MCRolesOf
    PermissionsOf <- MCPermissionsOf
    UserBodies <- MCUserBodies
    GroupBodies <- Group
    DefaultName = viewer
    Issues = 2
    SeedUsers <- MCSeedUsers
    SeedGroups <- MCSeedGroups
SPECIFICATION FairSpec
INVARIANT TypeOK
PROPERTIES DemotionPrevails RevocationPrevails
