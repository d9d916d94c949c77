CONSTANTS
    Tabs = {t1}
    Diaries = {d1}
    MaxKeys = 2
    MaxMishaps = 1
    MaxPasswords = 1
SPECIFICATION Spec
INVARIANT DiariesReadable
