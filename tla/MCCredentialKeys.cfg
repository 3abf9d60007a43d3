SPECIFICATION KeysSpec
CONSTANTS
    Accounts = {a1, a2}
    Fields <- MCFields
    Secrets = {s1, s2}
    MaxKeys = 3
    Label <- MCLabel
    MaxConnects = 2
    MaxRekeys = 3
INVARIANTS  FieldsTogether
CHECK_DEADLOCK FALSE
