SPECIFICATION Spec
CONSTANTS
    A = A
    B = B
    str1 = str1
    str2 = str2
    a = a
    b = b
    c = c
    x = x
    y = y
    z = z
    ab = ab
    D = D
    None = None
    Names <- TestNames
    Define = D
    Concat <- TestConcat
    Programs <- TestPrograms
    MAX_BUFFERS = 4
INVARIANT
    PoolNeverExhausted
CHECK_DEADLOCK FALSE
