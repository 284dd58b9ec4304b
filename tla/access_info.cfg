\* POST /auth/info answers with another token.
CONSTANTS
    Requests = {"r1"}
    Ids = {1, 2}
    GroupIds = {1}
    editor = editor
    Names = {editor, viewer}
    viewer = viewer
    Roles = {"isSuperuser"}
    Permissions = {"edit"}
    Endpoints = {"changeUser"}
    Targets = {2}
    Undefined = Undefined
    RolesOf <- MCRolesOf
    PermissionsOf <- MCPermissionsOf
    UserBodies <- MCUserBodies
    GroupBodies <- Group
    DefaultName = viewer
    Issues = 1
    SeedUsers <- MCSeedUsers
    SeedGroups <- MCSeedGroups
SPECIFICATION Spec
PROPERTY InfoReturnsTheToken
