CONSTANTS
    t1 = t1  t2 = t2  t3 = t3  m1 = m1  r1 = r1  c1 = c1
    Threads = {t1, t2, t3}
    Mutexes = {m1}
    RecursiveMutexes = {r1}
    Conds = {c1}
    Destroyers = {t1}
    Careless = {t3}
    MaxRef = 3
    None = None
SPECIFICATION Spec
INVARIANTS BooksAgree CallersFindObject NoSignalGap
CHECK_DEADLOCK FALSE
