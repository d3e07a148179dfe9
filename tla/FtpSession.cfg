CONSTANTS
    Files = {f1, f2}
    Configs <- MCConfigs
    AuthCodes = {"NOPWD", "BADPWD"}
    NULL = NULL
SPECIFICATION Spec
INVARIANT CommandRecorded
PROPERTIES RenameAccounted LogoutRecorded
CHECK_DEADLOCK FALSE
