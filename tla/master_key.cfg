CONSTANTS
    Tabs = {t1, t2}
    Diaries = {d1}
    MaxKeys = 2
    MaxMishaps = 1
    MaxPasswords = 2
SYMMETRY Symmetry
SPECIFICATION Spec
INVARIANTS PasswordUnlocks LostOnlyByReplacement 
