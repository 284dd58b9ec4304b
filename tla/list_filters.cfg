\* Lists of permissions and creations of them, two requests.
SPECIFICATION Spec
CONSTANTS
    Requests = {r1, r2}
    TypeIds = {1, 2}
    PermissionIds = {1, 2}
    GroupIds = {1, 2}
    Names = {a, b}
    Kinds = {"listPermissions", "createPermission"}
    PathIds = {1, 2}
    PermissionBodies <- MCPermissionBodies
    GroupBodies <- MCGroupBodies
    Queries <- MCQueries
    SeedTypes = {1, 2}
    SeedPermissions <- MCPermissions
    SeedGroups <- MCGroups
    Users = {1, 2}
    SeedMembers <- MCMembers
    MaxFaults = 0
    Text = Text
    Null = Null
    Undefined = Undefined
    a = a
    b = b
    r1 = r1
    r2 = r2
    r3 = r3
SYMMETRY Symmetry
PROPERTY
    GroupFilterFilters
